-------------------------- MODULE ColaList_proofs --------------------------
(***************************************************************************)
(* Proofs about the linked queue, for every set of addresses and values:   *)
(* any number of queues, of any lengths, sharing the heap in any order.    *)
(***************************************************************************)
EXTENDS ColaList, SequenceTheorems, TLAPS

IInv == TypeOK /\ HeapOwned /\ Linked /\ NoUseAfterFree

----------------------------------------------------------------------------
(* What Append and Tail do to a list of nodes, element by element. *)
LEMMA SeqFacts ==
  ASSUME NEW s \in Seq(Addr)
  PROVE  /\ Len(s) \in Nat /\ DOMAIN s = 1 .. Len(s)
         /\ s = <<>> <=> Len(s) = 0
         /\ \A k \in 1 .. Len(s) : s[k] \in Addr
BY EmptySeq, LenProperties

LEMMA AppendFacts ==
  ASSUME NEW s \in Seq(Addr), NEW n \in Addr
  PROVE  /\ Append(s, n) \in Seq(Addr)
         /\ Len(Append(s, n)) = Len(s) + 1
         /\ Append(s, n) # <<>>
         /\ \A k \in 1 .. Len(s) : Append(s, n)[k] = s[k]
         /\ Append(s, n)[Len(s) + 1] = n
<1>1. Append(s, n) \in Seq(Addr) /\ Len(Append(s, n)) = Len(s) + 1
  OBVIOUS
<1> QED BY <1>1, SeqFacts

LEMMA TailFacts ==
  ASSUME NEW s \in Seq(Addr), s # <<>>
  PROVE  /\ Len(s) \in Nat \ {0}
         /\ Tail(s) \in Seq(Addr)
         /\ Len(Tail(s)) = Len(s) - 1
         /\ DOMAIN Tail(s) = 1 .. Len(s) - 1
         /\ Tail(s) = <<>> <=> Len(s) = 1
         /\ \A k \in 1 .. Len(s) - 1 : Tail(s)[k] = s[k + 1]
<1>1. Len(s) \in Nat \ {0}
  BY SeqFacts
<1>2. /\ Tail(s) \in Seq(Addr)
      /\ Len(Tail(s)) = Len(s) - 1
      /\ \A k \in 1 .. Len(s) - 1 : Tail(s)[k] = s[k + 1]
  BY HeadTailProperties
<1>3. /\ DOMAIN Tail(s) = 1 .. Len(Tail(s))
      /\ Tail(s) = <<>> <=> Len(Tail(s)) = 0
  BY <1>2, SeqFacts
<1> QED BY <1>1, <1>2, <1>3

----------------------------------------------------------------------------
(* What the invariant says of a queue the client holds. *)
LEMMA ClientQueue ==
  ASSUME IInv, NEW c \in colas
  PROVE  /\ c \in Addr /\ c \in allocated
         /\ list[c] \in Seq(Addr)
         /\ \A k \in 1 .. Len(list[c]) :
              list[c][k] \in allocated /\ list[c][k] \notin Owners
         /\ list[c] = <<>> => OFFSET_HEAD(c) = NULL
         /\ list[c] # <<>> =>
              /\ OFFSET_HEAD(c) = list[c][1]
              /\ OFFSET_TAIL(c) = list[c][Len(list[c])]
              /\ OFFSET_HEAD(c) # NULL
<1>1. c \in Addr /\ list[c] \in Seq(Addr)
  BY DEF IInv, TypeOK
<1>2. c \in allocated /\ Nodes(c) \subseteq allocated /\ Nodes(c) \cap Owners = {}
  <2>1. c \in Owners
    BY DEF Owners
  <2>2. Nodes(c) \subseteq Addr
    BY <1>1, SeqFacts DEF Nodes
  <2> QED BY <1>1, <2>1, <2>2 DEF IInv, HeapOwned
<1>3. \A k \in 1 .. Len(list[c]) : list[c][k] \in Nodes(c)
  BY <1>1, SeqFacts DEF Nodes
<1>4. /\ list[c] = <<>> => OFFSET_HEAD(c) = NULL
      /\ list[c] # <<>> =>
           /\ OFFSET_HEAD(c) = list[c][1]
           /\ OFFSET_TAIL(c) = list[c][Len(list[c])]
  BY DEF IInv, Linked
<1>5. list[c] # <<>> => list[c][1] \in Addr
  BY <1>1, SeqFacts
<1> QED BY <1>1, <1>2, <1>3, <1>4, <1>5, ColaAssumption

(* A node of one queue is a node of no other, and not a queue. *)
LEMMA NodesApart ==
  ASSUME IInv, NEW c \in Addr, NEW d \in Addr,
         NEW i \in 1 .. Len(list[c]), NEW j \in 1 .. Len(list[d])
  PROVE  /\ list[c][i] = list[d][j] => c = d /\ i = j
         /\ list[c][i] \in allocated
         /\ list[c][i] \notin Owners
<1>1. list[c] \in Seq(Addr) /\ list[d] \in Seq(Addr)
  BY DEF IInv, TypeOK
<1>2. i \in DOMAIN list[c] /\ j \in DOMAIN list[d] /\ list[c] # <<>>
  BY <1>1, SeqFacts
<1>3. c \in Owners
  BY <1>2 DEF IInv, HeapOwned
<1>4. list[c][i] \in Nodes(c) /\ list[c][i] \in Addr
  BY <1>1, <1>2, SeqFacts DEF Nodes
<1> QED BY <1>2, <1>3, <1>4 DEF IInv, HeapOwned

----------------------------------------------------------------------------
LEMMA InitIInv == LInit => IInv
<1> SUFFICES ASSUME LInit PROVE IInv
  OBVIOUS
<1>1. TypeOK
  BY EmptySeq DEF LInit, Init, TypeOK, Zero, Block, Word
<1>2. \A c \in Addr : list[c] = <<>> /\ Nodes(c) = {}
  <2>1. <<>> \in Seq(Addr) /\ DOMAIN <<>> = {}
    BY EmptySeq, SeqFacts
  <2>2. \A c \in Addr : list[c] = <<>>
    BY DEF LInit
  <2> QED BY <2>1, <2>2 DEF Nodes
<1>3. HeapOwned
  BY <1>2, ColaAssumption, EmptySeq DEF LInit, Init, HeapOwned, Owners
<1>4. Linked /\ NoUseAfterFree
  BY DEF LInit, Init, Linked, NoUseAfterFree
<1> QED BY <1>1, <1>3, <1>4 DEF IInv

(* cola_encolar never takes the branch of a bad tail: the tail of a queue  *)
(* that has a head is its last node.  The words it changes are those of    *)
(* the new node, of the queue and of that last node.                       *)
Relinked(c, v, n) ==
  /\ mem' \in [Addr -> Block]
  /\ mem'[n] = [lo |-> v, hi |-> NULL]
  /\ list[c] = <<>> =>
       /\ mem'[c] = [lo |-> n, hi |-> n]
       /\ \A a \in Addr : a # c /\ a # n => mem'[a] = mem[a]
  /\ list[c] # <<>> =>
       LET t == list[c][Len(list[c])]
       IN  /\ t \in allocated /\ t # n /\ t # c
           /\ mem'[c] = [lo |-> mem[c].lo, hi |-> n]
           /\ mem'[t] = [lo |-> mem[t].lo, hi |-> n]
           /\ \A a \in Addr : a # c /\ a # n /\ a # t => mem'[a] = mem[a]

LEMMA EncolarShape ==
  ASSUME IInv, NEW c \in Addr, NEW v \in Values, NEW n \in Addr, EncolarOk(c, v, n)
  PROVE  /\ c \in colas /\ n \notin allocated /\ n # c
         /\ allocated' = allocated \cup {n}
         /\ ret' = TRUE /\ dying = NULL
         /\ UNCHANGED <<colas, dying, rbx, fault>>
         /\ Relinked(c, v, n)
<1>1. c \in colas /\ n \notin allocated /\ dying = NULL
  BY DEF EncolarOk, Idle, Callocable
<1>2. c \in allocated /\ c \in Owners /\ n # c
  BY <1>1, ClientQueue DEF Owners
<1>3. /\ mem \in [Addr -> Block] /\ allocated \subseteq Addr
      /\ \A a \in Addr : mem[a] \in Block /\ [lo |-> mem[a].lo, hi |-> n] \in Block
      /\ [lo |-> v, hi |-> NULL] \in Block /\ [lo |-> n, hi |-> n] \in Block
  BY DEF IInv, TypeOK, Block, Word
<1> DEFINE x == [lo |-> v, hi |-> NULL]
           y == [lo |-> n, hi |-> n]
<1>4. CASE list[c] = <<>>
  <2>1. /\ mem' = [mem EXCEPT ![n] = x, ![c] = y]
        /\ allocated' = allocated \cup {n} /\ ret' = TRUE
        /\ UNCHANGED <<colas, dying, rbx, fault>>
    BY <1>1, <1>2, <1>4, ClientQueue DEF EncolarOk
  <2> HIDE DEF x, y
  <2>2. /\ mem'[c] = y /\ mem'[n] = x /\ mem' \in [Addr -> Block]
        /\ \A a \in Addr : a # c /\ a # n => mem'[a] = mem[a]
    BY <1>2, <1>3, <2>1 DEF x, y
  <2> QED BY <1>1, <1>2, <1>4, <2>1, <2>2 DEF Relinked, x, y
<1>5. CASE list[c] # <<>>
  <2> DEFINE t == list[c][Len(list[c])]
             z == [lo |-> mem[c].lo, hi |-> n]
             w == [lo |-> mem[t].lo, hi |-> n]
  <2>1. Len(list[c]) \in 1 .. Len(list[c])
    BY <1>1, <1>5, ClientQueue, SeqFacts
  <2>2. OFFSET_TAIL(c) = t /\ OFFSET_HEAD(c) # NULL /\ t \in allocated /\ t # n /\ t # c
    BY <1>1, <1>2, <1>5, <2>1, ClientQueue
  <2>3. /\ mem' = [mem EXCEPT ![n] = x, ![t].hi = n, ![c].hi = n]
        /\ allocated' = allocated \cup {n} /\ ret' = TRUE
        /\ UNCHANGED <<colas, dying, rbx, fault>>
    BY <1>1, <1>2, <1>5, <2>2 DEF EncolarOk
  <2> DEFINE m1 == [mem EXCEPT ![n] = x]
             m2 == [m1 EXCEPT ![t].hi = n]
  <2>4. mem' = [m2 EXCEPT ![c].hi = n]
    BY <2>3
  <2> HIDE DEF t, x, m1, m2
  <2>5. t \in Addr /\ x \in Block
    BY <1>3, <2>2 DEF x
  <2>6. /\ m1 \in [Addr -> Block] /\ m1[n] = x
        /\ \A a \in Addr : a # n => m1[a] = mem[a]
    BY <1>3, <2>5 DEF m1
  <2>7. /\ m2 \in [Addr -> Block] /\ m2[t] = w
        /\ \A a \in Addr : a # t => m2[a] = m1[a]
    BY <1>3, <2>2, <2>5, <2>6 DEF m2, Block
  <2>8. /\ mem' \in [Addr -> Block] /\ mem'[c] = z
        /\ \A a \in Addr : a # c => mem'[a] = m2[a]
    BY <1>2, <1>3, <2>2, <2>4, <2>5, <2>6, <2>7 DEF Block
  <2> HIDE DEF w, z
  <2>9. /\ mem'[n] = x /\ mem'[t] = w
        /\ \A a \in Addr : a # c /\ a # n /\ a # t => mem'[a] = mem[a]
    BY <1>2, <2>2, <2>5, <2>6, <2>7, <2>8
  <2> QED BY <1>1, <1>2, <1>5, <2>2, <2>3, <2>8, <2>9 DEF Relinked, t, w, x, z
<1> QED BY <1>4, <1>5

LEMMA EncolarIInv ==
  ASSUME IInv, NEW c \in Addr, NEW v \in Values, NEW n \in Addr, LEncolarOk(c, v, n)
  PROVE  IInv'
<1> DEFINE s == list[c]
           t == s[Len(s)]
<1>0. EncolarOk(c, v, n)
  BY DEF LEncolarOk
<1>1. /\ c \in colas /\ n \notin allocated /\ n # c
      /\ allocated' = allocated \cup {n}
      /\ ret' = TRUE /\ dying = NULL
      /\ UNCHANGED <<colas, dying, rbx, fault>>
      /\ Relinked(c, v, n)
  BY <1>0, EncolarShape
<1>2. /\ list \in [Addr -> Seq(Addr)] /\ s \in Seq(Addr)
      /\ list' = [list EXCEPT ![c] = Append(s, n)]
      /\ allocated \subseteq Addr /\ colas \subseteq Addr /\ mem \in [Addr -> Block]
  BY DEF LEncolarOk, IInv, TypeOK
<1>3. /\ Append(s, n) \in Seq(Addr) /\ Len(Append(s, n)) = Len(s) + 1
      /\ Append(s, n) # <<>>
      /\ \A k \in 1 .. Len(s) : Append(s, n)[k] = s[k]
      /\ Append(s, n)[Len(s) + 1] = n
      /\ Len(s) \in Nat /\ (s = <<>> <=> Len(s) = 0)
      /\ DOMAIN Append(s, n) = 1 .. Len(s) + 1
      /\ DOMAIN s = 1 .. Len(s)
      /\ \A k \in 1 .. Len(s) : s[k] \in Addr
  BY <1>2, AppendFacts, SeqFacts
<1>4. list' \in [Addr -> Seq(Addr)] /\ list'[c] = Append(s, n)
      /\ \A d \in Addr : d # c => list'[d] = list[d]
  BY <1>2, <1>3
<1>5. /\ s = <<>> => /\ mem'[c] = [lo |-> n, hi |-> n]
                     /\ \A a \in Addr : a # c /\ a # n => mem'[a] = mem[a]
      /\ s # <<>> => /\ t \in allocated /\ t # n /\ t # c
                     /\ mem'[c] = [lo |-> mem[c].lo, hi |-> n]
                     /\ mem'[t] = [lo |-> mem[t].lo, hi |-> n]
                     /\ \A a \in Addr : a # c /\ a # n /\ a # t => mem'[a] = mem[a]
      /\ mem'[n] = [lo |-> v, hi |-> NULL]
      /\ mem' \in [Addr -> Block]
  BY <1>1 DEF Relinked
<1>6. TypeOK'
  BY <1>1, <1>2, <1>4, <1>5 DEF IInv, TypeOK
<1> HIDE DEF t
<1>7. HeapOwned'
  <2> DEFINE After(d) == {list'[d][k] : k \in DOMAIN list'[d]}
  <2>1. Owners' = Owners /\ c \in Owners /\ Owners \subseteq Addr
    BY <1>1, <1>2 DEF Owners, IInv, TypeOK
  <2>2. After(c) = Nodes(c) \cup {n}
    <3>1. ASSUME NEW x \in After(c)  PROVE x \in Nodes(c) \cup {n}
      <4>1. PICK k \in 1 .. Len(s) + 1 : x = Append(s, n)[k]
        BY <1>3, <1>4
      <4>2. CASE k = Len(s) + 1
        BY <1>3, <4>1, <4>2
      <4>3. CASE k # Len(s) + 1
        <5>1. k \in 1 .. Len(s)
          BY <1>3, <4>1, <4>3
        <5> QED BY <1>3, <4>1, <5>1 DEF Nodes
      <4> QED BY <4>2, <4>3
    <3>2. ASSUME NEW x \in Nodes(c)  PROVE x \in After(c)
      <4>1. PICK k \in 1 .. Len(s) : x = s[k]
        BY <1>3 DEF Nodes
      <4>2. k \in DOMAIN list'[c] /\ list'[c][k] = x
        BY <1>3, <1>4, <4>1
      <4> QED BY <4>2
    <3>3. n \in After(c)
      <4>1. Len(s) + 1 \in DOMAIN list'[c] /\ list'[c][Len(s) + 1] = n
        BY <1>3, <1>4
      <4> QED BY <4>1
    <3> QED BY <3>1, <3>2, <3>3
  <2>3. \A d \in Addr : d # c => After(d) = Nodes(d)
    BY <1>4 DEF Nodes
  <2> HIDE DEF After
  <2>4. \A a \in Addr :
          a \in allocated' <=> a \in Owners' \/ \E d \in Owners' : a \in After(d)
    <3> SUFFICES ASSUME NEW a \in Addr
                 PROVE  a \in allocated' <=> a \in Owners \/ \E d \in Owners : a \in After(d)
      BY <2>1
    <3>1. a \in allocated <=> a \in Owners \/ \E d \in Owners : a \in Nodes(d)
      BY DEF IInv, HeapOwned
    <3>2. (\E d \in Owners : a \in After(d)) <=> a = n \/ \E d \in Owners : a \in Nodes(d)
      BY <2>1, <2>2, <2>3
    <3> QED BY <1>1, <3>1, <3>2
  <2>5. \A d \in Addr : /\ After(d) \cap Owners' = {}
                        /\ d \notin Owners' => list'[d] = <<>>
    <3>1. n \notin Owners
      BY <1>1 DEF IInv, HeapOwned
    <3>2. \A d \in Addr : Nodes(d) \cap Owners = {} /\ (d \notin Owners => list[d] = <<>>)
      BY DEF IInv, HeapOwned
    <3>3. \A d \in Addr : After(d) \cap Owners = {}
      BY <2>1, <2>2, <2>3, <3>1, <3>2
    <3>4. \A d \in Addr : d \notin Owners => list'[d] = <<>>
      BY <1>4, <2>1, <3>2
    <3> QED BY <2>1, <3>3, <3>4
  <2>6. ASSUME NEW d \in Addr, NEW e \in Addr,
               NEW i \in DOMAIN list'[d], NEW j \in DOMAIN list'[e],
               list'[d][i] = list'[e][j]
        PROVE  d = e /\ i = j
    <3>1. \A f \in Addr : \A k \in DOMAIN list'[f] :
            \/ k \in 1 .. Len(list[f]) /\ list'[f][k] = list[f][k] /\ list[f][k] # n
            \/ f = c /\ k = Len(s) + 1 /\ list'[f][k] = n
      <4> SUFFICES ASSUME NEW f \in Addr, NEW k \in DOMAIN list'[f]
                   PROVE  \/ k \in 1 .. Len(list[f]) /\ list'[f][k] = list[f][k] /\ list[f][k] # n
                          \/ f = c /\ k = Len(s) + 1 /\ list'[f][k] = n
        OBVIOUS
      <4>1. \A l \in 1 .. Len(list[f]) : list[f][l] # n
        BY <1>1, NodesApart
      <4>2. DOMAIN list[f] = 1 .. Len(list[f])
        BY <1>2, SeqFacts
      <4>3. CASE f = c
        <5>1. k \in 1 .. Len(s) \/ k = Len(s) + 1
          BY <1>3, <1>4, <4>3
        <5> QED BY <1>3, <1>4, <4>1, <4>3, <5>1
      <4>4. CASE f # c
        BY <1>4, <4>1, <4>2, <4>4
      <4> QED BY <4>3, <4>4
    <3>2. \A f, g \in Addr : \A k \in 1 .. Len(list[f]), l \in 1 .. Len(list[g]) :
            list[f][k] = list[g][l] => f = g /\ k = l
      BY NodesApart
    <3> QED BY <2>6, <3>1, <3>2
  <2> QED BY <1>1, <2>4, <2>5, <2>6 DEF HeapOwned, IInv, Nodes, After
<1>8. Linked'
  <2> SUFFICES ASSUME NEW d \in colas
               PROVE  /\ Chained(d)'
                      /\ list'[d] = <<>> => mem'[d].lo = NULL
                      /\ list'[d] # <<>> => /\ mem'[d].lo = list'[d][1]
                                            /\ mem'[d].hi = list'[d][Len(list'[d])]
    BY <1>1 DEF Linked, OFFSET_HEAD, OFFSET_TAIL
  <2>1. /\ d \in Addr /\ Chained(d)
        /\ list[d] = <<>> => mem[d].lo = NULL
        /\ list[d] # <<>> => /\ mem[d].lo = list[d][1]
                             /\ mem[d].hi = list[d][Len(list[d])]
    BY <1>2 DEF IInv, Linked, OFFSET_HEAD, OFFSET_TAIL
  <2>2. \A k \in 1 .. Len(list[d]) : list[d][k] \in Addr /\ list[d][k] # n /\ list[d][k] # c
    <3>1. c \in Owners
      BY <1>1 DEF Owners
    <3>2. \A k \in 1 .. Len(list[d]) : list[d][k] \in allocated /\ list[d][k] \notin Owners
      BY <2>1, NodesApart
    <3> QED BY <1>1, <1>2, <3>1, <3>2
  <2>3. DOMAIN list[d] = 1 .. Len(list[d]) /\ Len(list[d]) \in Nat
    BY <1>2, <2>1, SeqFacts
  <2>4. CASE d # c
    <3>1. d # n /\ (s # <<>> => d # t)
      <4>1. d \in allocated /\ d \in Owners
        BY ClientQueue DEF Owners
      <4>2. s # <<>> => t \notin Owners
        BY <1>2, <1>3, NodesApart DEF t
      <4> QED BY <1>1, <4>1, <4>2
    <3>2. mem'[d] = mem[d] /\ list'[d] = list[d]
      BY <1>4, <1>5, <2>1, <2>4, <3>1
    <3>3. \A k \in 1 .. Len(list[d]) : s # <<>> => list[d][k] # t
      BY <1>3, <2>1, <2>4, NodesApart DEF t
    <3>4. \A k \in 1 .. Len(list[d]) : mem'[list[d][k]] = mem[list[d][k]]
      BY <1>5, <2>2, <3>3
    <3>5. Chained(d)'
      BY <2>1, <2>3, <3>2, <3>4 DEF Chained, OFFSET_NEXT
    <3> QED BY <2>1, <3>2, <3>5
  <2>5. CASE d = c
    <3>1. list'[c] # <<>> /\ list'[c][Len(list'[c])] = n /\ mem'[c].hi = n
      BY <1>3, <1>4, <1>5
    <3>2. mem'[c].lo = list'[c][1]
      BY <1>3, <1>4, <1>5, <2>1, <2>5
    <3>3. ASSUME NEW k \in 1 .. Len(s) + 1
          PROVE  mem'[list'[c][k]].hi =
                   IF k = Len(s) + 1 THEN NULL ELSE list'[c][k + 1]
      <4>1. CASE k = Len(s) + 1
        BY <1>3, <1>4, <1>5, <4>1
      <4>2. CASE k = Len(s)
        <5>1. s # <<>> /\ list'[c][k] = t /\ list'[c][k + 1] = n
          BY <1>3, <1>4, <3>3, <4>2 DEF t
        <5> QED BY <1>3, <1>5, <4>2, <5>1
      <4>3. CASE k < Len(s)
        <5>1. /\ k \in 1 .. Len(s) /\ k + 1 \in 1 .. Len(s) /\ s # <<>>
              /\ Len(s) \in 1 .. Len(s)
          BY <1>3, <3>3, <4>3
        <5>2. list'[c][k] = s[k] /\ list'[c][k + 1] = s[k + 1]
          BY <1>3, <1>4, <5>1
        <5>3. s[k] # t
          BY <1>2, <4>3, <5>1, NodesApart DEF t
        <5>4. mem'[s[k]] = mem[s[k]]
          BY <1>5, <2>2, <2>5, <5>1, <5>3
        <5>5. mem[s[k]].hi = s[k + 1]
          BY <1>3, <2>1, <2>5, <4>3, <5>1 DEF Chained, OFFSET_NEXT
        <5> QED BY <1>3, <4>3, <5>2, <5>4, <5>5
      <4> QED BY <1>3, <3>3, <4>1, <4>2, <4>3
    <3>4. Chained(c)'
      BY <1>3, <1>4, <3>3 DEF Chained, OFFSET_NEXT
    <3> QED BY <2>5, <3>1, <3>2, <3>4
  <2> QED BY <2>4, <2>5
<1>9. NoUseAfterFree'
  BY <1>1 DEF IInv, NoUseAfterFree
<1> QED BY <1>6, <1>7, <1>8, <1>9 DEF IInv

----------------------------------------------------------------------------
(* The first node of a queue leaves it and is freed; no next changes. *)
LEMMA RemoveFirst ==
  ASSUME IInv, NEW c \in Addr, list[c] # <<>>,
         allocated' = allocated \ {list[c][1]},
         list' = [list EXCEPT ![c] = Tail(@)],
         UNCHANGED <<colas, dying>>,
         \A a \in Addr : mem'[a].hi = mem[a].hi
  PROVE  /\ list' \in [Addr -> Seq(Addr)]
         /\ list'[c] = Tail(list[c])
         /\ \A d \in Addr : d # c => list'[d] = list[d]
         /\ HeapOwned'
         /\ \A d \in Addr : Chained(d) => Chained(d)'
<1> DEFINE s == list[c]
<1>1. list \in [Addr -> Seq(Addr)] /\ s \in Seq(Addr)
  BY DEF IInv, TypeOK
<1>2. /\ Tail(s) \in Seq(Addr) /\ Len(Tail(s)) = Len(s) - 1
      /\ \A k \in 1 .. Len(s) - 1 : Tail(s)[k] = s[k + 1]
      /\ Len(s) \in Nat \ {0} /\ DOMAIN s = 1 .. Len(s)
      /\ DOMAIN Tail(s) = 1 .. Len(s) - 1
      /\ Tail(s) = <<>> <=> Len(s) = 1
      /\ \A k \in 1 .. Len(s) : s[k] \in Addr
  BY <1>1, TailFacts, SeqFacts
<1>3. /\ list' \in [Addr -> Seq(Addr)] /\ list'[c] = Tail(s)
      /\ \A d \in Addr : d # c => list'[d] = list[d]
  BY <1>1, <1>2
<1>4. Owners' = Owners /\ Owners \subseteq Addr
  BY DEF Owners, IInv, TypeOK
<1>5. HeapOwned'
  <2> DEFINE After(d) == {list'[d][k] : k \in DOMAIN list'[d]}
  <2>1. \A x \in Addr : x \in After(c) <=> x \in Nodes(c) /\ x # s[1]
    <3>1. ASSUME NEW x \in After(c)  PROVE x \in Nodes(c) /\ x # s[1]
      <4>1. PICK k \in 1 .. Len(s) - 1 : x = s[k + 1]
        BY <1>2, <1>3
      <4>2. k + 1 \in 1 .. Len(s) /\ 1 \in 1 .. Len(s) /\ k + 1 # 1
        BY <1>2, <4>1
      <4>3. x # s[1]
        BY <4>1, <4>2, NodesApart
      <4> QED BY <1>2, <4>1, <4>2, <4>3 DEF Nodes
    <3>2. ASSUME NEW x \in Nodes(c), x # s[1]  PROVE x \in After(c)
      <4>1. PICK k \in 1 .. Len(s) : x = s[k]
        BY <1>2 DEF Nodes
      <4>2. k - 1 \in 1 .. Len(s) - 1 /\ (k - 1) + 1 = k
        BY <1>2, <3>2, <4>1
      <4>3. k - 1 \in DOMAIN list'[c] /\ list'[c][k - 1] = x
        BY <1>2, <1>3, <4>1, <4>2
      <4> QED BY <4>3
    <3> QED BY <3>1, <3>2
  <2>2. \A d \in Addr : d # c => After(d) = Nodes(d)
    BY <1>3 DEF Nodes
  <2>3. \A d \in Addr : /\ After(d) \subseteq Addr
                        /\ d # c => s[1] \notin Nodes(d)
    <3>1. \A d \in Addr : After(d) \subseteq Addr
      BY <1>3, SeqFacts
    <3>2. \A d \in Addr : \A k \in DOMAIN list[d] : d # c => list[d][k] # s[1]
      <4>1. 1 \in 1 .. Len(s)
        BY <1>2
      <4>2. \A d \in Addr : DOMAIN list[d] = 1 .. Len(list[d])
        BY <1>1, SeqFacts
      <4> QED BY <4>1, <4>2, NodesApart
    <3> QED BY <3>1, <3>2 DEF Nodes
  <2>4. s[1] \in Addr /\ s[1] \in Nodes(c) /\ s[1] \notin Owners /\ c \in Owners
    <3>1. 1 \in 1 .. Len(s)
      BY <1>2
    <3>2. s[1] \notin Owners
      BY <3>1, NodesApart
    <3> QED BY <1>2, <3>1, <3>2 DEF Nodes, IInv, HeapOwned
  <2> HIDE DEF After
  <2>5. \A a \in Addr :
          a \in allocated' <=> a \in Owners' \/ \E d \in Owners' : a \in After(d)
    <3> SUFFICES ASSUME NEW a \in Addr
                 PROVE  a \in allocated' <=> a \in Owners \/ \E d \in Owners : a \in After(d)
      BY <1>4
    <3>1. a \in allocated <=> a \in Owners \/ \E d \in Owners : a \in Nodes(d)
      BY DEF IInv, HeapOwned
    <3>2. (\E d \in Owners : a \in After(d)) <=> a # s[1] /\ \E d \in Owners : a \in Nodes(d)
      BY <1>4, <2>1, <2>2, <2>3, <2>4
    <3> QED BY <2>4, <3>1, <3>2
  <2>6. \A d \in Addr : /\ After(d) \cap Owners' = {}
                        /\ d \notin Owners' => list'[d] = <<>>
    <3>1. \A d \in Addr : Nodes(d) \cap Owners = {} /\ (d \notin Owners => list[d] = <<>>)
      BY DEF IInv, HeapOwned
    <3>2. \A d \in Addr : After(d) \subseteq Nodes(d)
      BY <2>1, <2>2, <2>3
    <3>3. \A d \in Addr : d \notin Owners => list'[d] = <<>>
      BY <1>3, <2>4, <3>1
    <3> QED BY <1>4, <3>1, <3>2, <3>3
  <2>7. ASSUME NEW d \in Addr, NEW e \in Addr,
               NEW i \in DOMAIN list'[d], NEW j \in DOMAIN list'[e],
               list'[d][i] = list'[e][j]
        PROVE  d = e /\ i = j
    <3> DEFINE Before(f, k) == IF f = c THEN k + 1 ELSE k
    <3>1. \A f \in Addr : \A k \in DOMAIN list'[f] :
            /\ k \in Int
            /\ Before(f, k) \in 1 .. Len(list[f])
            /\ list'[f][k] = list[f][Before(f, k)]
      <4> SUFFICES ASSUME NEW f \in Addr, NEW k \in DOMAIN list'[f]
                   PROVE  /\ k \in Int
                          /\ Before(f, k) \in 1 .. Len(list[f])
                          /\ list'[f][k] = list[f][Before(f, k)]
        OBVIOUS
      <4>1. CASE f = c
        <5>1. k \in 1 .. Len(s) - 1
          BY <1>2, <1>3, <4>1
        <5> QED BY <1>2, <1>3, <4>1, <5>1
      <4>2. CASE f # c
        <5>1. k \in 1 .. Len(list[f])
          BY <1>1, <1>3, <4>2, SeqFacts
        <5> QED BY <1>3, <4>2, <5>1
      <4> QED BY <4>1, <4>2
    <3> HIDE DEF Before
    <3>2. /\ Before(d, i) \in 1 .. Len(list[d]) /\ Before(e, j) \in 1 .. Len(list[e])
          /\ list[d][Before(d, i)] = list[e][Before(e, j)]
          /\ i \in Int /\ j \in Int
      BY <2>7, <3>1
    <3>3. d = e /\ Before(d, i) = Before(e, j)
      BY <3>2, NodesApart
    <3> QED BY <3>2, <3>3 DEF Before
  <2>8. (dying \notin colas)'
    BY DEF IInv, HeapOwned
  <2> QED BY <2>5, <2>6, <2>7, <2>8 DEF HeapOwned, Nodes, After
<1>6. ASSUME NEW d \in Addr, Chained(d)  PROVE Chained(d)'
  <2>1. DOMAIN list[d] = 1 .. Len(list[d]) /\ \A k \in 1 .. Len(list[d]) : list[d][k] \in Addr
    BY <1>1, SeqFacts
  <2>2. CASE d # c
    <3>1. \A k \in DOMAIN list[d] : mem'[list[d][k]].hi = mem[list[d][k]].hi
      BY <2>1
    <3> QED BY <1>3, <1>6, <2>2, <3>1 DEF Chained, OFFSET_NEXT
  <2>3. CASE d = c
    <3>1. ASSUME NEW k \in 1 .. Len(s) - 1
          PROVE  mem'[list'[c][k]].hi = IF k = Len(s) - 1 THEN NULL ELSE list'[c][k + 1]
      <4>1. k + 1 \in 1 .. Len(s) /\ list'[c][k] = s[k + 1]
        BY <1>2, <1>3
      <4>2. mem[s[k + 1]].hi = IF k + 1 = Len(s) THEN NULL ELSE s[(k + 1) + 1]
        BY <1>2, <1>6, <2>3, <4>1 DEF Chained, OFFSET_NEXT
      <4>3. mem'[s[k + 1]].hi = mem[s[k + 1]].hi
        BY <1>2, <4>1
      <4>4. k # Len(s) - 1 => list'[c][k + 1] = s[(k + 1) + 1]
        <5>1. k # Len(s) - 1 => k + 1 \in 1 .. Len(s) - 1
          BY <1>2
        <5> QED BY <1>2, <1>3, <5>1
      <4>5. CASE k = Len(s) - 1
        <5>1. k + 1 = Len(s)
          BY <1>2, <4>5
        <5> QED BY <4>1, <4>2, <4>3, <4>5, <5>1
      <4>6. CASE k # Len(s) - 1
        <5>1. k + 1 # Len(s)
          BY <1>2, <4>6
        <5> QED BY <4>1, <4>2, <4>3, <4>4, <4>6, <5>1
      <4> QED BY <4>5, <4>6
    <3>2. DOMAIN list'[c] = 1 .. Len(s) - 1 /\ Len(list'[c]) = Len(s) - 1
      BY <1>2, <1>3
    <3> HIDE DEF s
    <3>3. Chained(c)'
      BY <3>1, <3>2 DEF Chained, OFFSET_NEXT
    <3> QED BY <2>3, <3>3
  <2> QED BY <2>2, <2>3
<1> QED BY <1>3, <1>5, <1>6

LEMMA DesencolarIInv ==
  ASSUME IInv, NEW c \in Addr, LDesencolar(c)
  PROVE  IInv'
<1> DEFINE s == list[c]
<1>1. c \in colas /\ OFFSET_HEAD(c) # NULL /\ dying = NULL
  BY DEF LDesencolar, Desencolar, Idle
<1>2. s # <<>> /\ OFFSET_HEAD(c) = s[1] /\ OFFSET_TAIL(c) = s[Len(s)]
  BY <1>1, ClientQueue
<1>3. /\ list \in [Addr -> Seq(Addr)] /\ s \in Seq(Addr) /\ mem \in [Addr -> Block]
      /\ colas \subseteq Addr
      /\ Len(s) \in Nat \ {0} /\ DOMAIN s = 1 .. Len(s) /\ s[1] \in Addr
  BY <1>2, SeqFacts DEF IInv, TypeOK
<1>4. s[1] \in allocated
  BY <1>1, <1>3, ClientQueue
<1>5. /\ ret' = OFFSET_DATA(s[1])
      /\ mem' = [mem EXCEPT ![c].lo = OFFSET_NEXT(s[1])]
      /\ allocated' = allocated \ {s[1]}
      /\ UNCHANGED <<colas, dying, rbx, fault>>
      /\ list' = [list EXCEPT ![c] = Tail(@)]
  BY <1>2, <1>4 DEF LDesencolar, Desencolar
<1>6. /\ OFFSET_NEXT(s[1]) \in Word /\ OFFSET_DATA(s[1]) \in Word
      /\ OFFSET_NEXT(s[1]) = mem[s[1]].hi
  BY <1>3 DEF OFFSET_NEXT, OFFSET_DATA, Block
<1>7. /\ mem' \in [Addr -> Block]
      /\ mem'[c] = [lo |-> mem[s[1]].hi, hi |-> mem[c].hi]
      /\ \A a \in Addr : a # c => mem'[a] = mem[a]
  BY <1>3, <1>5, <1>6 DEF Block
<1>8. \A a \in Addr : mem'[a].hi = mem[a].hi
  BY <1>7
<1>9. /\ list' \in [Addr -> Seq(Addr)]
      /\ list'[c] = Tail(s)
      /\ \A d \in Addr : d # c => list'[d] = list[d]
      /\ HeapOwned'
      /\ \A d \in Addr : Chained(d) => Chained(d)'
  BY <1>2, <1>5, <1>8, RemoveFirst
<1>10. TypeOK'
  BY <1>5, <1>6, <1>7, <1>9 DEF IInv, TypeOK
<1>11. Linked'
  <2> SUFFICES ASSUME NEW d \in colas
               PROVE  /\ Chained(d)'
                      /\ list'[d] = <<>> => mem'[d].lo = NULL
                      /\ list'[d] # <<>> => /\ mem'[d].lo = list'[d][1]
                                            /\ mem'[d].hi = list'[d][Len(list'[d])]
    BY <1>1, <1>5 DEF Linked, OFFSET_HEAD, OFFSET_TAIL
  <2>1. /\ d \in Addr /\ Chained(d)
        /\ list[d] = <<>> => mem[d].lo = NULL
        /\ list[d] # <<>> => /\ mem[d].lo = list[d][1]
                             /\ mem[d].hi = list[d][Len(list[d])]
    BY <1>3 DEF IInv, Linked, OFFSET_HEAD, OFFSET_TAIL
  <2>2. CASE d # c
    BY <1>7, <1>9, <2>1, <2>2
  <2>3. CASE d = c
    <3>1. /\ Len(Tail(s)) = Len(s) - 1
          /\ \A k \in 1 .. Len(s) - 1 : Tail(s)[k] = s[k + 1]
          /\ Tail(s) = <<>> <=> Len(s) = 1
      BY <1>2, <1>3, TailFacts
    <3>2. mem[s[1]].hi = IF 1 = Len(s) THEN NULL ELSE s[1 + 1]
      <4>1. 1 \in DOMAIN s
        BY <1>3
      <4> QED BY <2>1, <2>3, <4>1 DEF Chained, OFFSET_NEXT
    <3>3. Len(s) # 1 => Tail(s)[1] = s[1 + 1] /\ Tail(s)[Len(s) - 1] = s[Len(s)]
      <4>1. Len(s) # 1 => 1 \in 1 .. Len(s) - 1 /\ Len(s) - 1 \in 1 .. Len(s) - 1
                          /\ (Len(s) - 1) + 1 = Len(s)
        BY <1>3
      <4> QED BY <3>1, <4>1
    <3>4. mem'[c].lo = mem[s[1]].hi /\ mem'[c].hi = s[Len(s)] /\ list'[c] = Tail(s)
      BY <1>2, <1>7, <1>9, <2>1, <2>3
    <3>5. Chained(c)'
      BY <1>9, <2>1, <2>3
    <3>6. /\ list'[c] = <<>> => mem'[c].lo = NULL
          /\ list'[c] # <<>> => /\ mem'[c].lo = list'[c][1]
                                /\ mem'[c].hi = list'[c][Len(list'[c])]
      <4> HIDE DEF s
      <4> QED BY <3>1, <3>2, <3>3, <3>4
    <3> QED BY <2>3, <3>5, <3>6
  <2> QED BY <2>2, <2>3
<1>12. NoUseAfterFree'
  BY <1>5 DEF IInv, NoUseAfterFree
<1> QED BY <1>9, <1>10, <1>11, <1>12 DEF IInv

(* The cursor of cola_destruir is the first node of what is left. *)
LEMMA DestruirNodoIInv ==
  ASSUME IInv, LDestruirNodo
  PROVE  IInv'
<1> DEFINE c == dying
           s == list[c]
<1>1. c # NULL /\ rbx # NULL /\ fault = "none"
  BY DEF LDestruirNodo, DestruirNodo
<1>2. /\ c \in Addr /\ list \in [Addr -> Seq(Addr)] /\ s \in Seq(Addr)
      /\ mem \in [Addr -> Block] /\ colas \subseteq Addr
  BY <1>1 DEF IInv, TypeOK
<1>3. s # <<>> /\ rbx = s[1] /\ Chained(c)
  BY <1>1 DEF IInv, Linked
<1>4. Len(s) \in Nat \ {0} /\ DOMAIN s = 1 .. Len(s) /\ s[1] \in Addr
  BY <1>2, <1>3, SeqFacts
<1>5. s[1] \in allocated
  <2>1. 1 \in 1 .. Len(s)
    BY <1>4
  <2> QED BY <1>2, <2>1, NodesApart
<1>6. /\ rbx' = mem[s[1]].hi
      /\ allocated' = allocated \ {s[1]}
      /\ UNCHANGED <<mem, colas, dying, ret, fault>>
      /\ list' = [list EXCEPT ![c] = Tail(@)]
  BY <1>3, <1>5 DEF LDestruirNodo, DestruirNodo, OFFSET_NEXT
<1>7. /\ list' \in [Addr -> Seq(Addr)]
      /\ list'[c] = Tail(s)
      /\ \A d \in Addr : d # c => list'[d] = list[d]
      /\ HeapOwned'
      /\ \A d \in Addr : Chained(d) => Chained(d)'
  BY <1>2, <1>3, <1>6, RemoveFirst
<1>8. mem[s[1]].hi \in Word
  BY <1>2, <1>4 DEF Block
<1>9. TypeOK'
  BY <1>6, <1>7, <1>8 DEF IInv, TypeOK
<1>10. Linked'
  <2>1. \A d \in colas : list'[d] = list[d] /\ Chained(d)'
    BY <1>2, <1>7 DEF IInv, HeapOwned, Linked
  <2>2. rbx' = IF Tail(s) = <<>> THEN NULL ELSE Tail(s)[1]
    <3>1. /\ Len(Tail(s)) = Len(s) - 1
          /\ \A k \in 1 .. Len(s) - 1 : Tail(s)[k] = s[k + 1]
          /\ Tail(s) = <<>> <=> Len(s) = 1
      BY <1>2, <1>3, TailFacts
    <3>2. mem[s[1]].hi = IF 1 = Len(s) THEN NULL ELSE s[1 + 1]
      <4>1. 1 \in DOMAIN s
        BY <1>4
      <4> QED BY <1>3, <4>1 DEF Chained, OFFSET_NEXT
    <3>3. Len(s) # 1 => Tail(s)[1] = s[1 + 1]
      <4>1. Len(s) # 1 => 1 \in 1 .. Len(s) - 1
        BY <1>4
      <4> QED BY <3>1, <4>1
    <3> HIDE DEF s
    <3> QED BY <1>6, <3>1, <3>2, <3>3
  <2>3. \A k \in DOMAIN list'[c] :
          mem'[list'[c][k]].hi = IF k = Len(list'[c]) THEN NULL ELSE list'[c][k + 1]
    <3>1. PICK d \in Addr : d = c
      BY <1>2
    <3>2. Chained(d)'
      BY <1>3, <1>7, <3>1
    <3> QED BY <3>1, <3>2 DEF Chained, OFFSET_NEXT
  <2>4. \A d \in colas :
          IF list'[d] = <<>>
          THEN mem'[d].lo = NULL
          ELSE mem'[d].lo = list'[d][1] /\ mem'[d].hi = list'[d][Len(list'[d])]
    BY <1>6, <2>1 DEF IInv, Linked, OFFSET_HEAD, OFFSET_TAIL
  <2> HIDE DEF s
  <2>5. Chained(dying)' /\ list'[dying'] = Tail(s)
    BY <1>6, <1>7, <2>3 DEF Chained, OFFSET_NEXT
  <2>6. rbx' = IF list'[dying'] = <<>> THEN NULL ELSE list'[dying'][1]
    BY <2>2, <2>5
  <2> QED BY <1>6, <2>1, <2>4, <2>5, <2>6 DEF Linked, OFFSET_HEAD, OFFSET_TAIL
<1>11. NoUseAfterFree'
  BY <1>6 DEF IInv, NoUseAfterFree
<1> QED BY <1>7, <1>9, <1>10, <1>11 DEF IInv

(* cola_crear: the block is new, so no list and no next mentions it. *)
LEMMA CrearIInv ==
  ASSUME IInv, NEW a \in Addr, CrearOk(a), UNCHANGED list
  PROVE  IInv'
<1>1. /\ a \notin allocated /\ dying = NULL
      /\ allocated' = allocated \cup {a} /\ colas' = colas \cup {a} /\ ret' = a
      /\ mem' = [mem EXCEPT ![a] = Zero]
      /\ UNCHANGED <<dying, rbx, fault, list>>
  BY DEF CrearOk, Idle, Callocable
<1>2. /\ mem \in [Addr -> Block] /\ list \in [Addr -> Seq(Addr)]
      /\ colas \subseteq Addr /\ Zero \in Block
  BY DEF IInv, TypeOK, Zero, Block, Word
<1>3. /\ mem' \in [Addr -> Block] /\ mem'[a] = Zero
      /\ \A b \in Addr : b # a => mem'[b] = mem[b]
  BY <1>1, <1>2
<1>4. a \notin Owners /\ list[a] = <<>> /\ Nodes(a) = {}
  <2>1. a \notin Owners
    BY <1>1 DEF IInv, HeapOwned
  <2>2. list[a] = <<>>
    BY <2>1 DEF IInv, HeapOwned
  <2> QED BY <2>1, <2>2, <1>2, SeqFacts DEF Nodes
<1>5. TypeOK'
  BY <1>1, <1>3 DEF IInv, TypeOK, Word
<1>6. HeapOwned'
  <2>1. Owners' = Owners \cup {a} /\ Owners \subseteq Addr
    BY <1>1 DEF Owners, IInv, TypeOK
  <2>2. \A d \in Addr : a \notin Nodes(d)
    <3>1. \A d \in Addr : \A k \in DOMAIN list[d] : list[d][k] \in allocated
      <4>1. \A d \in Addr : DOMAIN list[d] = 1 .. Len(list[d])
        BY <1>2, SeqFacts
      <4>2. \A d \in Addr : \A k \in 1 .. Len(list[d]) : list[d][k] \in allocated
        BY NodesApart
      <4> QED BY <4>1, <4>2
    <3> QED BY <1>1, <3>1 DEF Nodes
  <2>3. \A b \in Addr :
          b \in allocated' <=> b \in Owners' \/ \E d \in Owners' : b \in Nodes(d)
    BY <1>1, <1>4, <2>1 DEF IInv, HeapOwned
  <2>4. \A d \in Addr : Nodes(d) \cap Owners' = {} /\ (d \notin Owners' => list[d] = <<>>)
    BY <2>1, <2>2 DEF IInv, HeapOwned
  <2>5. dying' \notin colas'
    BY <1>1, ColaAssumption DEF IInv, HeapOwned
  <2> QED BY <1>1, <2>3, <2>4, <2>5 DEF IInv, HeapOwned, Nodes
<1>7. Linked'
  <2> SUFFICES ASSUME NEW d \in colas'
               PROVE  /\ Chained(d)'
                      /\ list[d] = <<>> => mem'[d].lo = NULL
                      /\ list[d] # <<>> => /\ mem'[d].lo = list[d][1]
                                           /\ mem'[d].hi = list[d][Len(list[d])]
    BY <1>1 DEF Linked, OFFSET_HEAD, OFFSET_TAIL
  <2>1. CASE d = a
    <3>1. DOMAIN list[a] = {}
      BY <1>4 DEF Nodes
    <3> QED BY <1>1, <1>3, <1>4, <2>1, <3>1 DEF Chained, Zero
  <2>2. CASE d # a
    <3>1. /\ d \in colas /\ d \in Addr /\ Chained(d)
          /\ list[d] = <<>> => mem[d].lo = NULL
          /\ list[d] # <<>> => /\ mem[d].lo = list[d][1]
                               /\ mem[d].hi = list[d][Len(list[d])]
      BY <1>1, <1>2, <2>2 DEF IInv, Linked, OFFSET_HEAD, OFFSET_TAIL
    <3>2. \A k \in DOMAIN list[d] : list[d][k] \in Addr /\ list[d][k] # a
      <4>1. DOMAIN list[d] = 1 .. Len(list[d])
        BY <1>2, <3>1, SeqFacts
      <4>2. \A k \in 1 .. Len(list[d]) : list[d][k] \in allocated
        BY <3>1, NodesApart
      <4> QED BY <1>1, <4>1, <4>2 DEF IInv, TypeOK
    <3>3. \A k \in DOMAIN list[d] : mem'[list[d][k]] = mem[list[d][k]]
      BY <1>3, <3>2
    <3>4. Chained(d)'
      BY <1>1, <3>1, <3>3 DEF Chained, OFFSET_NEXT
    <3> QED BY <1>3, <2>2, <3>1, <3>4
  <2> QED BY <2>1, <2>2
<1>8. NoUseAfterFree'
  BY <1>1 DEF IInv, NoUseAfterFree
<1> QED BY <1>5, <1>6, <1>7, <1>8 DEF IInv

LEMMA DestruirIInv ==
  ASSUME IInv, NEW c \in Addr, Destruir(c), UNCHANGED list
  PROVE  IInv'
<1>1. /\ c \in colas /\ dying = NULL
      /\ colas' = colas \ {c} /\ dying' = c /\ rbx' = OFFSET_HEAD(c)
      /\ UNCHANGED <<allocated, mem, ret, fault, list>>
  BY DEF Destruir, Idle
<1>2. TypeOK'
  BY <1>1 DEF IInv, TypeOK, OFFSET_HEAD, Block
<1>3. Owners' = Owners
  BY <1>1, ColaAssumption DEF Owners
<1>4. HeapOwned'
  BY <1>1, <1>3 DEF IInv, HeapOwned, Nodes
<1>5. Chained(c) /\ rbx' = IF list[c] = <<>> THEN NULL ELSE list[c][1]
  BY <1>1 DEF IInv, Linked
<1>6. Linked'
  BY <1>1, <1>5 DEF IInv, Linked, Chained, OFFSET_HEAD, OFFSET_TAIL, OFFSET_NEXT
<1>7. NoUseAfterFree'
  BY <1>1 DEF IInv, NoUseAfterFree
<1> QED BY <1>2, <1>4, <1>6, <1>7 DEF IInv

(* When the cursor is NULL every node has gone, and only the queue is left. *)
LEMMA DestruirColaIInv ==
  ASSUME IInv, DestruirCola, UNCHANGED list
  PROVE  IInv'
<1>1. dying # NULL /\ rbx = NULL
  BY DEF DestruirCola
<1>2. dying \in Addr /\ dying \in Owners /\ list \in [Addr -> Seq(Addr)]
      /\ colas \subseteq Addr
  BY <1>1 DEF IInv, TypeOK, Owners
<1>3. dying \in allocated
  BY <1>2 DEF IInv, HeapOwned
<1>4. /\ allocated' = allocated \ {dying} /\ dying' = NULL
      /\ UNCHANGED <<mem, colas, rbx, ret, fault, list>>
  BY <1>3 DEF DestruirCola
<1>5. list[dying] = <<>>
  <2>1. list[dying] # <<>> => list[dying][1] \in Addr
    <3>1. list[dying] # <<>> => 1 \in 1 .. Len(list[dying])
      BY <1>2, SeqFacts
    <3> QED BY <1>2, <3>1, SeqFacts
  <2> QED BY <1>1, <2>1, ColaAssumption DEF IInv, Linked
<1>6. Nodes(dying) = {}
  BY <1>2, <1>5, SeqFacts DEF Nodes
<1>7. TypeOK'
  BY <1>4 DEF IInv, TypeOK
<1>8. HeapOwned'
  <2>1. Owners' = Owners \ {dying} /\ dying \notin colas /\ Owners \subseteq Addr
    BY <1>1, <1>4 DEF Owners, IInv, HeapOwned, TypeOK
  <2>2. \A d \in Addr : Nodes(d) \cap Owners = {} /\ (d \notin Owners => list[d] = <<>>)
    BY DEF IInv, HeapOwned
  <2>3. \A b \in Addr :
          b \in allocated' <=> b \in Owners' \/ \E d \in Owners' : b \in Nodes(d)
    <3> SUFFICES ASSUME NEW b \in Addr
                 PROVE  b \in allocated' <=> b \in Owners' \/ \E d \in Owners' : b \in Nodes(d)
      OBVIOUS
    <3>1. b \in allocated <=> b \in Owners \/ \E d \in Owners : b \in Nodes(d)
      BY DEF IInv, HeapOwned
    <3>2. (\E d \in Owners : b \in Nodes(d)) <=> \E d \in Owners \ {dying} : b \in Nodes(d)
      BY <1>6
    <3>3. \A d \in Owners : dying \notin Nodes(d)
      BY <1>2, <2>1, <2>2
    <3> QED BY <1>4, <2>1, <3>1, <3>2, <3>3
  <2>4. \A d \in Addr : Nodes(d) \cap Owners' = {} /\ (d \notin Owners' => list[d] = <<>>)
    BY <1>5, <2>1, <2>2
  <2>5. dying' \notin colas'
    BY <1>2, <1>4, ColaAssumption
  <2> QED BY <1>4, <2>3, <2>4, <2>5 DEF IInv, HeapOwned, Nodes
<1>9. Linked'
  BY <1>4 DEF IInv, Linked, Chained, OFFSET_HEAD, OFFSET_TAIL, OFFSET_NEXT
<1>10. NoUseAfterFree'
  BY <1>4 DEF IInv, NoUseAfterFree
<1> QED BY <1>7, <1>8, <1>9, <1>10 DEF IInv

(* The steps that leave the heap alone. *)
LEMMA ReadOnlyIInv ==
  ASSUME IInv, UNCHANGED <<allocated, mem, colas, dying, rbx, list>>,
         ret' \in Word \cup BOOLEAN, fault' \in {"none", "null"}
  PROVE  IInv'
<1>1. Owners' = Owners
  BY DEF Owners
<1>2. TypeOK' /\ NoUseAfterFree'
  BY DEF IInv, TypeOK, NoUseAfterFree
<1>3. HeapOwned'
  BY <1>1 DEF IInv, HeapOwned, Nodes
<1>4. Linked'
  BY DEF IInv, Linked, Chained, OFFSET_HEAD, OFFSET_TAIL, OFFSET_NEXT
<1> QED BY <1>2, <1>3, <1>4 DEF IInv

LEMMA OtherIInv ==
  ASSUME IInv, Other, UNCHANGED list
  PROVE  IInv'
<1>1. ret \in Word \cup BOOLEAN /\ mem \in [Addr -> Block] /\ fault \in {"none", "null"}
  BY DEF IInv, TypeOK, NoUseAfterFree
<1>2. CASE \E a \in Addr : CrearOk(a)
  BY <1>2, CrearIInv
<1>3. CASE CrearNull
  BY <1>1, <1>3, ReadOnlyIInv DEF CrearNull, Word
<1>4. ASSUME NEW c \in Addr, EstaVacia(c)  PROVE IInv'
  <2>1. ret' \in BOOLEAN /\ UNCHANGED <<allocated, mem, colas, dying, rbx, list, fault>>
    BY <1>4 DEF EstaVacia
  <2> QED BY <1>1, <2>1, ReadOnlyIInv
<1>5. ASSUME NEW c \in Addr, VerPrimero(c)  PROVE IInv'
  <2>1. c \in colas
    BY <1>5 DEF VerPrimero
  <2>2. OFFSET_HEAD(c) = NULL \/ OFFSET_HEAD(c) \in allocated
    <3>1. list[c] # <<>> => 1 \in 1 .. Len(list[c])
      BY <2>1, ClientQueue, SeqFacts
    <3> QED BY <2>1, <3>1, ClientQueue
  <2>3. /\ ret' = IF OFFSET_HEAD(c) = NULL THEN NULL ELSE OFFSET_DATA(OFFSET_HEAD(c))
        /\ UNCHANGED <<allocated, mem, colas, dying, rbx, list, fault>>
    BY <1>5, <2>2 DEF VerPrimero
  <2>4. OFFSET_HEAD(c) \in allocated => OFFSET_DATA(OFFSET_HEAD(c)) \in Word
    BY <1>1 DEF OFFSET_DATA, Block, IInv, TypeOK
  <2> QED BY <1>1, <2>2, <2>3, <2>4, ReadOnlyIInv DEF Word
<1>6. ASSUME NEW c \in Addr, EncolarNull(c)  PROVE IInv'
  BY <1>1, <1>6, ReadOnlyIInv DEF EncolarNull, BadAccess, Die
<1>7. ASSUME NEW c \in Addr, DesencolarVacia(c)  PROVE IInv'
  BY <1>1, <1>7, ReadOnlyIInv DEF DesencolarVacia, Word
<1>8. ASSUME NEW c \in Addr, Destruir(c)  PROVE IInv'
  BY <1>8, DestruirIInv
<1>9. CASE DestruirCola
  BY <1>9, DestruirColaIInv
<1> QED BY <1>2, <1>3, <1>4, <1>5, <1>6, <1>7, <1>8, <1>9 DEF Other

LEMMA NextIInv == IInv /\ [LNext]_lvars => IInv'
<1> SUFFICES ASSUME IInv, [LNext]_lvars  PROVE IInv'
  OBVIOUS
<1>1. ASSUME NEW c \in Addr, LDesencolar(c)  PROVE IInv'
  BY <1>1, DesencolarIInv
<1>2. ASSUME NEW c \in Addr, NEW v \in Values, NEW n \in Addr, LEncolarOk(c, v, n)
      PROVE  IInv'
  BY <1>2, EncolarIInv
<1>3. CASE LDestruirNodo
  BY <1>3, DestruirNodoIInv
<1>4. CASE Other /\ UNCHANGED list
  BY <1>4, OtherIInv
<1>5. CASE UNCHANGED lvars
  <2>1. ret \in Word \cup BOOLEAN /\ fault \in {"none", "null"}
    BY DEF IInv, TypeOK, NoUseAfterFree
  <2> QED BY <1>5, <2>1, ReadOnlyIInv DEF lvars
<1> QED BY <1>1, <1>2, <1>3, <1>4, <1>5 DEF LNext

LEMMA Invariance == LSpec => []IInv
BY InitIInv, NextIInv, PTL DEF LSpec

----------------------------------------------------------------------------
(* The heap, the handles and the cursor always have their types. *)
THEOREM TypeCorrect == LSpec => []TypeOK
<1>1. IInv => TypeOK
  BY DEF IInv
<1> QED BY <1>1, Invariance, PTL

(* Whatever the client calls and in whatever order, the blocks in use are  *)
(* exactly the queues and their nodes, each node in one queue: no leak, no *)
(* double free, no block shared by two queues.                             *)
THEOREM NoLeak == LSpec => []HeapOwned
<1>1. IInv => HeapOwned
  BY DEF IInv
<1> QED BY <1>1, Invariance, PTL

(* The words of the heap always spell the queue: head, every next, NULL at *)
(* the end and, unless the queue is empty, tail.                           *)
THEOREM WellLinked == LSpec => []Linked
<1>1. IInv => Linked
  BY DEF IInv
<1> QED BY <1>1, Invariance, PTL

(* No operation follows a pointer to a freed block, the tail that          *)
(* cola_desencolar leaves dangling included.                               *)
THEOREM MemorySafe == LSpec => []NoUseAfterFree
<1>1. IInv => NoUseAfterFree
  BY DEF IInv
<1> QED BY <1>1, Invariance, PTL

-----------------------------------------------------------------------------
(***************************************************************************)
(* The linked queue implements Fifo: every call on a heap of any size, with*)
(* any number of queues, does what the sequence of its queue says.         *)
(***************************************************************************)

(* The values of a queue the client holds, as the refinement reads them.   *)
Data(c) == [k \in DOMAIN list[c] |-> OFFSET_DATA(list[c][k])]

Queue == [c \in Addr |-> IF c \in colas THEN Data(c) ELSE <<>>]

----------------------------------------------------------------------------
LEMMA DataFacts ==
  ASSUME IInv, NEW c \in Addr
  PROVE  /\ Data(c) \in Seq(Word) /\ Len(Data(c)) = Len(list[c])
         /\ \A k \in 1 .. Len(list[c]) : Data(c)[k] = mem[list[c][k]].lo
         /\ Data(c) = <<>> <=> list[c] = <<>>
<1>1. /\ list[c] \in Seq(Addr) /\ mem \in [Addr -> Block]
      /\ DOMAIN list[c] = 1 .. Len(list[c]) /\ Len(list[c]) \in Nat
      /\ \A k \in 1 .. Len(list[c]) : list[c][k] \in Addr
      /\ list[c] = <<>> <=> Len(list[c]) = 0
  BY SeqFacts DEF IInv, TypeOK
<1>2. /\ DOMAIN Data(c) = 1 .. Len(list[c])
      /\ \A k \in 1 .. Len(list[c]) : Data(c)[k] = mem[list[c][k]].lo
  BY <1>1 DEF Data, OFFSET_DATA
<1>3. \A k \in 1 .. Len(list[c]) : mem[list[c][k]].lo \in Word
  BY <1>1 DEF Block
<1>4. Data(c) \in [1 .. Len(list[c]) -> Word]
  BY <1>1, <1>3 DEF Data, OFFSET_DATA
<1>5. Data(c) \in Seq(Word) /\ Len(Data(c)) = Len(list[c])
  BY <1>1, <1>4
<1>6. Data(c) = <<>> <=> Len(Data(c)) = 0
  BY <1>5, EmptySeq
<1> QED BY <1>1, <1>2, <1>5, <1>6

Spelled ==
  \A c \in Addr :
    /\ Data(c) \in Seq(Word) /\ Len(Data(c)) = Len(list[c])
    /\ \A k \in 1 .. Len(list[c]) : Data(c)[k] = mem[list[c][k]].lo
    /\ Data(c) = <<>> <=> list[c] = <<>>

LEMMA DataSpelled == IInv => Spelled
BY DataFacts DEF Spelled

LEMMA DataSpelledNext == IInv' => Spelled'
BY DataSpelled, PTL

(* A queue whose list and whose nodes' values stay has the same values.    *)
LEMMA DataKept ==
  ASSUME IInv, IInv', NEW c \in Addr, list'[c] = list[c],
         \A k \in 1 .. Len(list[c]) : mem'[list[c][k]].lo = mem[list[c][k]].lo
  PROVE  Data(c)' = Data(c)
<1>1. /\ Data(c) \in Seq(Word) /\ Len(Data(c)) = Len(list[c])
      /\ \A k \in 1 .. Len(list[c]) : Data(c)[k] = mem[list[c][k]].lo
  BY DataFacts
<1>2. /\ Data(c)' \in Seq(Word) /\ Len(Data(c)') = Len(list'[c])
      /\ \A k \in 1 .. Len(list'[c]) : Data(c)'[k] = mem'[list'[c][k]].lo
  BY DataSpelledNext DEF Spelled
<1> QED BY <1>1, <1>2, SeqEqual

----------------------------------------------------------------------------
(* What the queues become when only that of c does not stay as it is.      *)
LEMMA OthersKept ==
  ASSUME IInv, IInv', NEW c \in Addr, colas' \ {c} = colas \ {c},
         \A d \in Addr : d # c => list'[d] = list[d],
         \A d \in Addr : d \in colas /\ d # c =>
           \A k \in 1 .. Len(list[d]) : mem'[list[d][k]].lo = mem[list[d][k]].lo
  PROVE  Queue' = [Queue EXCEPT ![c] = IF c \in colas' THEN Data(c)' ELSE <<>>]
<1>1. ASSUME NEW d \in Addr, d # c
      PROVE  Queue'[d] = Queue[d]
  <2>1. d \in colas <=> d \in colas'
    BY <1>1
  <2>2. CASE d \in colas
    <3>1. Data(d)' = Data(d)
      BY <1>1, <2>2, DataKept
    <3> QED BY <2>1, <2>2, <3>1 DEF Queue
  <2>3. CASE d \notin colas
    BY <2>1, <2>3 DEF Queue
  <2> QED BY <2>2, <2>3
<1>2. Queue'[c] = IF c \in colas' THEN Data(c)' ELSE <<>>
  BY DEF Queue
<1>3. Queue' \in [Addr -> {Queue'[d] : d \in Addr}]
  BY DEF Queue
<1>4. DOMAIN Queue = Addr /\ DOMAIN Queue' = Addr /\ Queue = [d \in Addr |-> Queue[d]]
      /\ Queue' = [d \in Addr |-> Queue'[d]]
  BY DEF Queue
<1> DEFINE e == IF c \in colas' THEN Data(c)' ELSE <<>>
<1> HIDE DEF e
<1>5. Queue' = [Queue EXCEPT ![c] = e]
  BY <1>1, <1>2, <1>4 DEF e
<1> QED BY <1>5 DEF e

(* Nothing but ret changes.                                                *)
LEMMA QueuesKept ==
  ASSUME UNCHANGED <<mem, colas, list>>
  PROVE  Queue' = Queue
BY DEF Queue, Data, OFFSET_DATA

LEMMA EnqueueRefines ==
  ASSUME IInv, IInv', NEW c \in Addr, NEW v \in Values, NEW n \in Addr,
         LEncolarOk(c, v, n)
  PROVE  Fifos!Next
<1> DEFINE s == list[c]
<1>1. /\ c \in colas /\ n \notin allocated /\ n # c /\ ret' = TRUE
      /\ colas' = colas /\ Relinked(c, v, n)
      /\ list' = [list EXCEPT ![c] = Append(@, n)]
  BY EncolarShape DEF LEncolarOk
<1>2. /\ list \in [Addr -> Seq(Addr)] /\ s \in Seq(Addr)
      /\ mem \in [Addr -> Block] /\ colas \subseteq Addr
  BY DEF IInv, TypeOK
<1>3. /\ list'[c] = Append(s, n)
      /\ \A d \in Addr : d # c => list'[d] = list[d]
      /\ Len(list'[c]) = Len(s) + 1 /\ list'[c][Len(s) + 1] = n
      /\ \A k \in 1 .. Len(s) : list'[c][k] = s[k]
  BY <1>1, <1>2, AppendFacts
<1>4. \A a \in Addr : a # c /\ a # n => mem'[a].lo = mem[a].lo
  BY <1>1, <1>2 DEF Relinked, Block
<1>5. ASSUME NEW d \in Addr, d \in colas, NEW k \in 1 .. Len(list[d])
      PROVE  mem'[list[d][k]].lo = mem[list[d][k]].lo
  <2>1. list[d][k] \in allocated /\ list[d][k] \notin Owners /\ list[d][k] \in Addr
    BY <1>5, ClientQueue DEF IInv, TypeOK
  <2>2. c \in Owners
    BY <1>1 DEF Owners
  <2> QED BY <1>1, <1>4, <2>1, <2>2
<1>6. Queue' = [Queue EXCEPT ![c] = Data(c)']
  <2>1. Queue' = [Queue EXCEPT ![c] = IF c \in colas' THEN Data(c)' ELSE <<>>]
    BY <1>1, <1>3, <1>5, OthersKept
  <2> QED BY <1>1, <2>1
<1>7. Data(c)' = Append(Data(c), v)
  <2>1. /\ Data(c) \in Seq(Word) /\ Len(Data(c)) = Len(s) /\ Len(s) \in Nat
        /\ \A k \in 1 .. Len(s) : Data(c)[k] = mem[s[k]].lo
    BY <1>2, DataFacts, SeqFacts
  <2>2. /\ Data(c)' \in Seq(Word) /\ Len(Data(c)') = Len(s) + 1
        /\ \A k \in 1 .. Len(s) + 1 : Data(c)'[k] = mem'[list'[c][k]].lo
    BY <1>3, DataSpelledNext DEF Spelled
  <2>3. v \in Word
    BY DEF Word
  <2>4. /\ Append(Data(c), v) \in Seq(Word) /\ Len(Append(Data(c), v)) = Len(s) + 1
        /\ \A k \in 1 .. Len(s) : Append(Data(c), v)[k] = Data(c)[k]
        /\ Append(Data(c), v)[Len(s) + 1] = v
    BY <2>1, <2>3, AppendProperties
  <2>5. ASSUME NEW k \in 1 .. Len(s) + 1
        PROVE  Data(c)'[k] = Append(Data(c), v)[k]
    <3>1. CASE k = Len(s) + 1
      <4>1. mem'[n].lo = v
        BY <1>1 DEF Relinked
      <4> QED BY <1>3, <2>2, <2>4, <3>1, <4>1
    <3>2. CASE k # Len(s) + 1
      <4>1. k \in 1 .. Len(s)
        BY <2>1, <3>2
      <4>2. mem'[s[k]].lo = mem[s[k]].lo
        BY <1>1, <1>5, <4>1
      <4> QED BY <1>3, <2>1, <2>2, <2>4, <4>1, <4>2
    <3> QED BY <3>1, <3>2
  <2> HIDE DEF s
  <2> QED BY <2>2, <2>4, <2>5, SeqEqual
<1>8. Queue' = [Queue EXCEPT ![c] = Append(@, v)]
  BY <1>1, <1>2, <1>6, <1>7 DEF Queue
<1>9. Fifos!Enqueue(c, v)
  BY <1>1, <1>8 DEF Fifos!Enqueue, Queue, Data
<1> QED BY <1>9 DEF Fifos!Next

LEMMA DequeueRefines ==
  ASSUME IInv, IInv', NEW c \in Addr, LDesencolar(c)
  PROVE  Fifos!Next
<1> DEFINE s == list[c]
<1>1. c \in colas /\ OFFSET_HEAD(c) # NULL
  BY DEF LDesencolar, Desencolar
<1>2. s # <<>> /\ OFFSET_HEAD(c) = s[1]
  BY <1>1, ClientQueue
<1>3. /\ list \in [Addr -> Seq(Addr)] /\ s \in Seq(Addr)
      /\ mem \in [Addr -> Block] /\ colas \subseteq Addr
      /\ Len(s) \in Nat \ {0} /\ 1 \in 1 .. Len(s) /\ s[1] \in Addr
  BY <1>2, SeqFacts DEF IInv, TypeOK
<1>4. s[1] \in allocated
  BY <1>1, <1>3, ClientQueue
<1>5. /\ ret' = mem[s[1]].lo /\ colas' = colas
      /\ mem' = [mem EXCEPT ![c].lo = OFFSET_NEXT(s[1])]
      /\ list' = [list EXCEPT ![c] = Tail(@)]
  BY <1>2, <1>4 DEF LDesencolar, Desencolar, OFFSET_DATA
<1>6. /\ list'[c] = Tail(s)
      /\ \A d \in Addr : d # c => list'[d] = list[d]
      /\ \A a \in Addr : a # c => mem'[a] = mem[a]
  BY <1>3, <1>5
<1>7. ASSUME NEW d \in Addr, d \in colas, NEW k \in 1 .. Len(list[d])
      PROVE  mem'[list[d][k]].lo = mem[list[d][k]].lo
  <2>1. list[d][k] \in Addr /\ list[d][k] \notin Owners
    BY <1>7, ClientQueue DEF IInv, TypeOK
  <2>2. c \in Owners
    BY <1>1 DEF Owners
  <2> QED BY <1>6, <2>1, <2>2
<1>8. Queue' = [Queue EXCEPT ![c] = Data(c)']
  <2>1. Queue' = [Queue EXCEPT ![c] = IF c \in colas' THEN Data(c)' ELSE <<>>]
    BY <1>5, <1>6, <1>7, OthersKept
  <2> QED BY <1>1, <1>5, <2>1
<1>9. /\ Data(c) \in Seq(Word) /\ Len(Data(c)) = Len(s) /\ Data(c) # <<>>
      /\ \A k \in 1 .. Len(s) : Data(c)[k] = mem[s[k]].lo
  BY <1>2, DataFacts
<1>10. Data(c)' = Tail(Data(c))
  <2>1. /\ Len(Tail(s)) = Len(s) - 1
        /\ \A k \in 1 .. Len(s) - 1 : Tail(s)[k] = s[k + 1]
    BY <1>2, <1>3, TailFacts
  <2>2. /\ Data(c)' \in Seq(Word) /\ Len(Data(c)') = Len(s) - 1
        /\ \A k \in 1 .. Len(s) - 1 : Data(c)'[k] = mem'[list'[c][k]].lo
    <3>1. /\ Data(c)' \in Seq(Word) /\ Len(Data(c)') = Len(list'[c])
          /\ \A k \in 1 .. Len(list'[c]) : Data(c)'[k] = mem'[list'[c][k]].lo
      BY DataSpelledNext DEF Spelled
    <3>2. Len(list'[c]) = Len(s) - 1
      BY <1>6, <2>1
    <3> QED BY <3>1, <3>2
  <2>3. /\ Tail(Data(c)) \in Seq(Word) /\ Len(Tail(Data(c))) = Len(s) - 1
        /\ \A k \in 1 .. Len(s) - 1 : Tail(Data(c))[k] = Data(c)[k + 1]
    BY <1>9, HeadTailProperties
  <2>4. ASSUME NEW k \in 1 .. Len(s) - 1
        PROVE  Data(c)'[k] = Tail(Data(c))[k]
    <3>1. k + 1 \in 1 .. Len(s)
      BY <1>3
    <3>2. Data(c)'[k] = mem'[s[k + 1]].lo
      BY <1>6, <2>1, <2>2
    <3>3. mem'[s[k + 1]].lo = mem[s[k + 1]].lo
      BY <1>1, <1>7, <3>1
    <3> QED BY <1>9, <2>3, <3>1, <3>2, <3>3
  <2> HIDE DEF s
  <2> QED BY <2>2, <2>3, <2>4, SeqEqual
<1>11. ret' = Head(Data(c))
  <2>1. Head(Data(c)) = Data(c)[1]
    BY <1>9
  <2> QED BY <1>3, <1>5, <1>9, <2>1
<1>12. Queue' = [Queue EXCEPT ![c] = Tail(@)] /\ Queue[c] = Data(c)
  BY <1>1, <1>8, <1>10 DEF Queue
<1>13. Fifos!Dequeue(c)
  <2>1. /\ c \in colas /\ Queue[c] # <<>> /\ ret' = Head(Queue[c]) /\ colas' = colas
        /\ Queue' = [Queue EXCEPT ![c] = Tail(@)]
    BY <1>1, <1>5, <1>9, <1>11, <1>12
  <2> QED BY <2>1 DEF Fifos!Dequeue, Queue, Data
<1> QED BY <1>13 DEF Fifos!Next

(* Releasing the nodes of a queue the client no longer holds is a stutter. *)
LEMMA ReleaseRefines ==
  ASSUME IInv, IInv', LDestruirNodo
  PROVE  UNCHANGED Fifos!vars
<1>1. dying \in Addr /\ dying \notin colas /\ rbx # NULL
  BY DEF LDestruirNodo, DestruirNodo, IInv, TypeOK, HeapOwned
<1>2. /\ UNCHANGED <<mem, colas, ret>> /\ list' = [list EXCEPT ![dying] = Tail(@)]
  BY DEF LDestruirNodo, DestruirNodo, BadAccess, Die
<1>3. /\ list \in [Addr -> Seq(Addr)] /\ colas \subseteq Addr
  BY DEF IInv, TypeOK
<1>4. \A d \in Addr : d # dying => list'[d] = list[d]
  BY <1>2, <1>3
<1>5. Queue' = Queue
  <2>1. \A d \in Addr : d \in colas => Data(d)' = Data(d)
    BY <1>1, <1>2, <1>4 DEF Data, OFFSET_DATA
  <2> QED BY <1>2, <2>1 DEF Queue
<1> QED BY <1>2, <1>5 DEF Fifos!vars, Queue, Data

LEMMA CreateRefines ==
  ASSUME IInv, IInv', NEW a \in Addr, CrearOk(a), UNCHANGED list
  PROVE  Fifos!Next
<1>1. /\ a \notin allocated /\ ret' = a /\ colas' = colas \cup {a}
      /\ mem' = [mem EXCEPT ![a] = Zero]
  BY DEF CrearOk, Callocable
<1>2. a \notin Owners /\ a \notin colas /\ list[a] = <<>>
  BY <1>1 DEF IInv, HeapOwned, Owners
<1>3. mem \in [Addr -> Block] /\ \A d \in Addr : d # a => mem'[d] = mem[d]
  BY <1>1 DEF IInv, TypeOK
<1>4. ASSUME NEW d \in Addr, d \in colas, NEW k \in 1 .. Len(list[d])
      PROVE  mem'[list[d][k]].lo = mem[list[d][k]].lo
  <2>1. list[d][k] \in Addr /\ list[d][k] \in allocated
    BY <1>4, ClientQueue DEF IInv, TypeOK
  <2> QED BY <1>1, <1>3, <2>1
<1>5. Queue' = [Queue EXCEPT ![a] = IF a \in colas' THEN Data(a)' ELSE <<>>]
  BY <1>1, <1>4, OthersKept
<1>6. Data(a)' = <<>>
  BY <1>2, DataSpelledNext DEF Spelled
<1>7. Queue' = Queue
  BY <1>1, <1>2, <1>5, <1>6 DEF Queue
<1>8. Fifos!Create(a)
  BY <1>1, <1>2, <1>7 DEF Fifos!Create, Queue, Data
<1> QED BY <1>8 DEF Fifos!Next

LEMMA DestroyRefines ==
  ASSUME IInv, IInv', NEW c \in Addr, Destruir(c), UNCHANGED list
  PROVE  Fifos!Next
<1>1. c \in colas /\ colas' = colas \ {c} /\ mem' = mem /\ ret' = ret
  BY DEF Destruir
<1>2. Queue' = [Queue EXCEPT ![c] = IF c \in colas' THEN Data(c)' ELSE <<>>]
  BY <1>1, OthersKept
<1>3. Queue' = [Queue EXCEPT ![c] = <<>>]
  BY <1>1, <1>2
<1>4. Fifos!Destroy(c)
  BY <1>1, <1>3 DEF Fifos!Destroy, Queue, Data
<1> QED BY <1>4 DEF Fifos!Next

(* The calls that only look at a queue.                                    *)
LEMMA QueryRefines ==
  ASSUME IInv, IInv', NEW c \in Addr, UNCHANGED list,
         EstaVacia(c) \/ VerPrimero(c) \/ DesencolarVacia(c)
  PROVE  Fifos!Next
<1>1. c \in colas
  BY DEF EstaVacia, VerPrimero, DesencolarVacia
<1>2. /\ OFFSET_HEAD(c) = NULL <=> list[c] = <<>>
      /\ list[c] # <<>> => OFFSET_HEAD(c) = list[c][1] /\ list[c][1] \in allocated
  <2>1. list[c] # <<>> => 1 \in 1 .. Len(list[c])
    BY <1>1, ClientQueue, SeqFacts
  <2> QED BY <1>1, <2>1, ClientQueue
<1>3. /\ Queue[c] = Data(c)
      /\ Data(c) = <<>> <=> list[c] = <<>>
      /\ Data(c) \in Seq(Word)
      /\ \A k \in 1 .. Len(list[c]) : Data(c)[k] = mem[list[c][k]].lo
  BY <1>1, DataFacts DEF Queue
<1>4. CASE EstaVacia(c)
  <2>1. UNCHANGED <<mem, colas>> /\ ret' = (OFFSET_HEAD(c) = NULL)
    BY <1>4 DEF EstaVacia
  <2>2. (OFFSET_HEAD(c) = NULL) = (Queue[c] = <<>>)
    <3>1. OFFSET_HEAD(c) = NULL <=> Queue[c] = <<>>
      BY <1>2, <1>3
    <3> QED BY <3>1, Zenon
  <2>3. Queue' = Queue
    BY <2>1, QueuesKept
  <2>4. Fifos!IsEmpty(c)
    BY <1>1, <2>1, <2>2, <2>3 DEF Fifos!IsEmpty, Queue, Data
  <2> QED BY <2>4 DEF Fifos!Next
<1>5. CASE VerPrimero(c)
  <2>1. /\ UNCHANGED <<mem, colas>>
        /\ ret' = IF OFFSET_HEAD(c) = NULL THEN NULL ELSE mem[OFFSET_HEAD(c)].lo
    BY <1>2, <1>5 DEF VerPrimero, OFFSET_DATA
  <2>2. ret' = IF Queue[c] = <<>> THEN NULL ELSE Head(Queue[c])
    <3>1. CASE list[c] = <<>>
      BY <1>2, <1>3, <2>1, <3>1
    <3>2. CASE list[c] # <<>>
      <4>1. 1 \in 1 .. Len(list[c])
        BY <1>1, <3>2, ClientQueue, SeqFacts
      <4>2. Head(Data(c)) = mem[list[c][1]].lo
        BY <1>3, <3>2, <4>1
      <4>3. ret' = mem[list[c][1]].lo
        BY <1>2, <2>1, <3>2
      <4>4. Queue[c] # <<>> /\ Head(Queue[c]) = mem[list[c][1]].lo
        BY <1>3, <3>2, <4>2
      <4> QED BY <4>3, <4>4
    <3> QED BY <3>1, <3>2
  <2>3. Queue' = Queue
    BY <2>1, QueuesKept
  <2>4. Fifos!Front(c)
    BY <1>1, <2>1, <2>2, <2>3 DEF Fifos!Front, Queue, Data
  <2> QED BY <2>4 DEF Fifos!Next
<1>6. CASE DesencolarVacia(c)
  <2>1. UNCHANGED <<mem, colas>> /\ ret' = NULL /\ Queue[c] = <<>>
    BY <1>2, <1>3, <1>6 DEF DesencolarVacia
  <2>2. Queue' = Queue
    BY <2>1, QueuesKept
  <2>3. Fifos!DequeueNothing(c)
    BY <1>1, <2>1, <2>2 DEF Fifos!DequeueNothing, Queue, Data
  <2> QED BY <2>3 DEF Fifos!Next
<1> QED BY <1>4, <1>5, <1>6

----------------------------------------------------------------------------
LEMMA InitRefines == LInit => Fifos!Init
BY DEF LInit, Init, Fifos!Init

LEMMA NextRefines == IInv /\ IInv' /\ [LNext]_lvars => [Fifos!Next]_(Fifos!vars)
<1> SUFFICES ASSUME IInv, IInv', [LNext]_lvars
             PROVE  Fifos!Next \/ UNCHANGED Fifos!vars
  OBVIOUS
<1>1. CASE \E c \in Addr :
             LDesencolar(c) \/ \E v \in Values, n \in Addr : LEncolarOk(c, v, n)
  BY <1>1, DequeueRefines, EnqueueRefines
<1>2. CASE LDestruirNodo
  BY <1>2, ReleaseRefines
<1>3. CASE Other /\ UNCHANGED list
  <2>1. ASSUME NEW a \in Addr, CrearOk(a)  PROVE Fifos!Next
    BY <1>3, <2>1, CreateRefines
  <2>2. ASSUME CrearNull  PROVE Fifos!Next
    <3>1. Queue' = Queue /\ colas' = colas /\ ret' = NULL
      BY <1>3, <2>2, QueuesKept DEF CrearNull
    <3>2. Fifos!CreateFails
      BY <3>1 DEF Fifos!CreateFails, Queue, Data
    <3> QED BY <3>2 DEF Fifos!Next
  <2>3. ASSUME NEW c \in Addr, EstaVacia(c) \/ VerPrimero(c) \/ DesencolarVacia(c)
        PROVE  Fifos!Next
    BY <1>3, <2>3, QueryRefines
  <2>4. ASSUME NEW c \in Addr, EncolarNull(c)  PROVE UNCHANGED Fifos!vars
    <3>1. Queue' = Queue /\ colas' = colas /\ ret' = ret
      BY <1>3, <2>4, QueuesKept DEF EncolarNull, BadAccess, Die
    <3> QED BY <3>1 DEF Fifos!vars, Queue, Data
  <2>5. ASSUME NEW c \in Addr, Destruir(c)  PROVE Fifos!Next
    BY <1>3, <2>5, DestroyRefines
  <2>6. ASSUME DestruirCola  PROVE UNCHANGED Fifos!vars
    <3>1. Queue' = Queue /\ colas' = colas /\ ret' = ret
      BY <1>3, <2>6, QueuesKept DEF DestruirCola, BadAccess, Die
    <3> QED BY <3>1 DEF Fifos!vars, Queue, Data
  <2> QED BY <1>3, <2>1, <2>2, <2>3, <2>4, <2>5, <2>6 DEF Other
<1>4. CASE UNCHANGED lvars
  <2>1. Queue' = Queue /\ colas' = colas /\ ret' = ret
    BY <1>4, QueuesKept DEF lvars
  <2> QED BY <2>1 DEF Fifos!vars, Queue, Data
<1> QED BY <1>1, <1>2, <1>3, <1>4 DEF LNext

(* Every behaviour of the linked queues in the heap, whatever is called    *)
(* and whatever calloc reuses, is one of the FIFO queues of cola.h.        *)
THEOREM Refinement == LSpec => ImplementsFifo
BY InitRefines, NextRefines, Invariance, PTL DEF LSpec, ImplementsFifo, Fifos!Spec

=============================================================================
