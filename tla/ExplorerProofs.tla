--------------------------- MODULE ExplorerProofs ---------------------------
(***************************************************************************)
(* The walk of ghidra_explore, for every graph, naming, depth and limit:   *)
(* what it meets, in which order, and that nothing is left out.            *)
(*                                                                         *)
(* Three of the lemmas are inductions, over the number of steps or over    *)
(* the places in the queue.  Each names the set T of the numbers for which *)
(* its claim holds and cites Induction.                                    *)
(***************************************************************************)
EXTENDS Explorer, FiniteSetTheorems, SequenceTheorems, TLAPS

(* Induction, in a form without operators: a set of numbers that has 0 and *)
(* with each number the next one has them all.                             *)
LEMMA Induction ==
  ASSUME NEW T, 0 \in T, \A k \in Nat : k \in T => k + 1 \in T
  PROVE  Nat \subseteq T
<1> SUFFICES ASSUME Nat \ T # {} PROVE FALSE
  OBVIOUS
<1>1. PICK m \in Nat \ T : \A k \in Nat \ T : <<k, m>> \notin OpToRel(<, Nat)
  BY NatLessThanWellFounded, WFMin
<1>2. m # 0 /\ m - 1 \in Nat
  OBVIOUS
<1>3. m - 1 \notin T
  BY <1>2
<1>4. <<m - 1, m>> \in OpToRel(<, Nat)
  BY <1>2 DEF OpToRel
<1> QED
  BY <1>1, <1>2, <1>3, <1>4

LEMMA FnsAreFinite == IsFiniteSet(Fns) /\ Cardinality(Fns) \in Nat
BY GraphsAssumption, FS_CardinalityType DEF GraphsAssumption

(* Within is the function that its recursive definition describes.         *)
LEMMA WithinIs ==
  ASSUME NEW E, NEW start
  PROVE  /\ Within(E, start)[0] = {start}
         /\ \A n \in Steps : n # 0 =>
               Within(E, start)[n] = Within(E, start)[n - 1] \union {e[2] : e \in {d \in E : d[1] \in Within(E, start)[n - 1]}}
<1> DEFINE Wider(A) == A \union {e[2] : e \in {d \in E : d[1] \in A}}
           Fits(f, k) == f = [n \in 0 .. k |-> IF n = 0 THEN {start} ELSE Wider(f[n - 1])]
<1> HIDE DEF Wider
<1>1. \E f : Fits(f, 0)
  <2>1. Fits([n \in 0 .. 0 |-> {start}], 0)
    OBVIOUS
  <2> QED
    BY <2>1
<1>2. ASSUME NEW k \in Nat, NEW f, Fits(f, k) PROVE \E g : Fits(g, k + 1)
  <2> DEFINE g == [n \in 0 .. k + 1 |-> IF n = k + 1 THEN Wider(f[k]) ELSE f[n]]
  <2>1. \A n \in 0 .. k : g[n] = f[n]
    OBVIOUS
  <2>2. \A n \in 0 .. k : f[n] = IF n = 0 THEN {start} ELSE Wider(f[n - 1])
    BY <1>2
  <2>3. ASSUME NEW n \in 0 .. k + 1 PROVE g[n] = IF n = 0 THEN {start} ELSE Wider(g[n - 1])
    <3>1. g[k + 1] = Wider(f[k])
      OBVIOUS
    <3> HIDE DEF g
    <3>2. CASE n = k + 1
      <4>1. n - 1 = k /\ k \in 0 .. k
        BY <3>2
      <4>2. g[n - 1] = f[k] /\ g[n] = Wider(f[k])
        BY <2>1, <3>1, <3>2, <4>1
      <4> QED
        BY <3>2, <4>2
    <3>3. CASE n \in 0 .. k
      BY <2>1, <2>2, <3>3
    <3> QED
      BY <3>2, <3>3
  <2>4. Fits(g, k + 1)
    BY <2>3
  <2> QED
    BY <2>4
<1>3. \E f : Fits(f, Cardinality(Fns))
  <2> DEFINE T == {k \in Nat : \E f : Fits(f, k)}
  <2> HIDE DEF Fits
  <2>1. 0 \in T /\ \A k \in Nat : k \in T => k + 1 \in T
    BY <1>1, <1>2
  <2> HIDE DEF T
  <2>2. Nat \subseteq T
    BY <2>1, Induction
  <2> QED
    BY <2>2, FnsAreFinite DEF T
<1> DEFINE W == Within(E, start)
<1> HIDE DEF W
<1>4. W = [n \in Steps |-> IF n = 0 THEN {start} ELSE Wider(W[n - 1])]
  BY <1>3 DEF Steps, W, Within, Wider
<1>5. 0 \in Steps
  BY FnsAreFinite DEF Steps
<1>6. W[0] = {start} /\ \A n \in Steps : n # 0 => W[n] = Wider(W[n - 1])
  BY <1>4, <1>5
<1> QED
  BY <1>6 DEF W, Wider

(* What is at most n + 1 edges away.                                       *)
LEMMA WithinNext ==
  ASSUME NEW E, NEW start, NEW n \in Nat, n < Cardinality(Fns)
  PROVE  \A x : x \in Within(E, start)[n + 1] <=>
                   x \in Within(E, start)[n] \/ \E d \in E : d[1] \in Within(E, start)[n] /\ x = d[2]
<1>1. n + 1 \in Steps /\ n + 1 # 0 /\ (n + 1) - 1 = n
  BY FnsAreFinite DEF Steps
<1>2. Within(E, start)[n + 1] =
        Within(E, start)[n] \union {e[2] : e \in {d \in E : d[1] \in Within(E, start)[n]}}
  BY <1>1, WithinIs
<1> QED
  BY <1>2

LEMMA WithinGrows ==
  ASSUME NEW E, NEW start, NEW n \in Steps, NEW m \in 0 .. n
  PROVE  Within(E, start)[m] \subseteq Within(E, start)[n]
<1> DEFINE T == {k \in Nat : k \in Steps => \A j \in 0 .. k : Within(E, start)[j] \subseteq Within(E, start)[k]}
<1>1. 0 \in T
  OBVIOUS
<1>2. ASSUME NEW k \in Nat, k \in T PROVE k + 1 \in T
  <2> SUFFICES ASSUME k + 1 \in Steps, NEW j \in 0 .. k + 1
               PROVE  Within(E, start)[j] \subseteq Within(E, start)[k + 1]
    OBVIOUS
  <2>1. k \in Steps /\ k < Cardinality(Fns)
    BY FnsAreFinite DEF Steps
  <2>2. Within(E, start)[k] \subseteq Within(E, start)[k + 1]
    BY <2>1, WithinNext
  <2> QED
    BY <1>2, <2>1, <2>2
<1>3. Nat \subseteq T
  <2> HIDE DEF T
  <2> QED
    BY <1>1, <1>2, Induction
<1> QED
  BY <1>3, FnsAreFinite DEF Steps

(* What the edges lead to and what can be reached.                         *)
LEMMA WithinLedTo ==
  ASSUME NEW E, NEW start, NEW n \in Steps
  PROVE  Within(E, start)[n] \subseteq {start} \union LedTo(E)
<1> DEFINE T == {k \in Nat : k \in Steps => Within(E, start)[k] \subseteq {start} \union LedTo(E)}
<1>1. 0 \in T
  BY WithinIs
<1>2. ASSUME NEW k \in Nat, k \in T PROVE k + 1 \in T
  <2> SUFFICES ASSUME k + 1 \in Steps, NEW x \in Within(E, start)[k + 1]
               PROVE  x \in {start} \union LedTo(E)
    OBVIOUS
  <2>1. k \in Steps /\ k < Cardinality(Fns)
    BY FnsAreFinite DEF Steps
  <2> QED
    <3>1. x \in Within(E, start)[k] \/ \E d \in E : d[1] \in Within(E, start)[k] /\ x = d[2]
      BY <2>1, WithinNext
    <3>2. Within(E, start)[k] \subseteq {start} \union LedTo(E)
      BY <1>2, <2>1
    <3> QED
      BY <3>1, <3>2 DEF LedTo
<1>3. Nat \subseteq T
  <2> HIDE DEF T
  <2> QED
    BY <1>1, <1>2, Induction
<1> QED
  BY <1>3, FnsAreFinite DEF Steps

(* As many steps as there are functions reach everything: as long as a     *)
(* step adds a node there are more nodes than steps, and there is but one  *)
(* more than there are functions.                                          *)
LEMMA EverythingIsWithin ==
  ASSUME NEW E, NEW start, NEW V, IsFiniteSet(V), Cardinality(V) <= Cardinality(Fns) + 1,
         {start} \union LedTo(E) \subseteq V,
         NEW d \in E, d[1] \in Within(E, start)[Cardinality(Fns)]
  PROVE  d[2] \in Within(E, start)[Cardinality(Fns)]
<1> DEFINE W(n) == Within(E, start)[n]
           Closed(n) == \A e \in E : e[1] \in W(n) => e[2] \in W(n)
           T == {k \in Nat : k \in Steps => Closed(k) \/ Cardinality(W(k)) >= k + 1}
<1>0. Cardinality(Fns) \in Nat
  BY FnsAreFinite
<1>a. ASSUME NEW n \in Steps PROVE W(n) \subseteq V /\ IsFiniteSet(W(n)) /\ Cardinality(W(n)) \in Nat
  <2>1. W(n) \subseteq V
    BY WithinLedTo
  <2> HIDE DEF W
  <2> QED
    BY <2>1, FS_Subset, FS_CardinalityType
<1>1. 0 \in T
  <2>1. W(0) = {start}
    BY WithinIs
  <2>2. Cardinality(W(0)) = 1
    BY <2>1, FS_Singleton
  <2> QED
    BY <2>2
<1>2. ASSUME NEW k \in Nat, k \in T PROVE k + 1 \in T
  <2> SUFFICES ASSUME k + 1 \in Steps
               PROVE  Closed(k + 1) \/ Cardinality(W(k + 1)) >= (k + 1) + 1
    OBVIOUS
  <2>1. k \in Steps /\ k < Cardinality(Fns)
    BY <1>0 DEF Steps
  <2>2. \A x : x \in W(k + 1) <=> x \in W(k) \/ \E e \in E : e[1] \in W(k) /\ x = e[2]
    BY <2>1, WithinNext
  <2>3. CASE Closed(k)
    <3>1. \A x : x \in W(k + 1) <=> x \in W(k)
      BY <2>2, <2>3
    <3>2. W(k + 1) = W(k)
      <4> HIDE DEF W
      <4> QED
        BY <3>1
    <3> QED
      BY <2>3, <3>2
  <2>4. CASE ~Closed(k)
    <3>1. PICK e \in E : e[1] \in W(k) /\ e[2] \notin W(k)
      BY <2>4
    <3>2. W(k) \subseteq W(k + 1) /\ e[2] \in W(k + 1)
      BY <2>2, <3>1
    <3>3. Cardinality(W(k)) >= k + 1
      BY <1>2, <2>1, <2>4
    <3>4. Cardinality(W(k)) <= Cardinality(W(k + 1)) /\ Cardinality(W(k)) # Cardinality(W(k + 1))
      <4> HIDE DEF W
      <4> QED
        BY <1>a, <2>1, <3>1, <3>2, FS_Subset
    <3> QED
      BY <1>a, <2>1, <3>3, <3>4
  <2> QED
    BY <2>3, <2>4
<1>3. Nat \subseteq T
  <2> HIDE DEF T
  <2> QED
    BY <1>1, <1>2, Induction
<1>4. Cardinality(Fns) \in Steps
  BY <1>0 DEF Steps
<1>5. Closed(Cardinality(Fns)) \/ Cardinality(W(Cardinality(Fns))) >= Cardinality(Fns) + 1
  BY <1>0, <1>3, <1>4
<1>6. CASE Cardinality(W(Cardinality(Fns))) >= Cardinality(Fns) + 1
  <2>1. Cardinality(V) \in Nat
    BY FS_CardinalityType
  <2>2. W(Cardinality(Fns)) = V
    <3> HIDE DEF W
    <3> QED
      BY <1>0, <1>a, <1>4, <1>6, <2>1, FS_Subset
  <2> QED
    BY <2>2 DEF LedTo
<1> QED
  BY <1>5, <1>6

-----------------------------------------------------------------------------
(* The edges of a reply.                                                   *)

LEMMA EdgesLeadToFewNames ==
  ASSUME TypeOK, NEW E, E \subseteq Named(CallsBelow(arg.at, arg.depth))
  PROVE  /\ IsFiniteSet(LedTo(E)) /\ Cardinality(LedTo(E)) <= Cardinality(Fns)
         /\ E \subseteq Names \X Names
<1>1. calls \subseteq Fns \X Fns /\ name \in [Fns -> Names]
  BY GraphsAssumption DEF GraphsAssumption, TypeOK
<1>2. \A e \in E : \E f, g \in Fns : e = <<name[f], name[g]>>
  BY <1>1 DEF Named, CallsBelow
<1> DEFINE Given == {name[f] : f \in Fns}
           led   == LedTo(E)
<1>3. name \in Surjection(Fns, Given)
  BY <1>1 DEF Surjection
<1>4. IsFiniteSet(Given) /\ Cardinality(Given) <= Cardinality(Fns)
  <2> HIDE DEF Given
  <2> QED
    BY <1>3, FnsAreFinite, FS_Surjection
<1>5. led \subseteq Given
  BY <1>2 DEF LedTo
<1>6. IsFiniteSet(led) /\ Cardinality(led) <= Cardinality(Given) /\ Cardinality(led) \in Nat /\ Cardinality(Given) \in Nat
  <2> HIDE DEF led, Given
  <2> QED
    BY <1>4, <1>5, FS_Subset, FS_CardinalityType
<1> QED
  BY <1>1, <1>2, <1>4, <1>6, FnsAreFinite

-----------------------------------------------------------------------------
(* The queue.                                                              *)

(* What is near and not visited yet is in the queue, or something as near  *)
(* is.                                                                     *)
LEMMA QueueHoldsNear ==
  ASSUME TypeOK, QueueInv, order # <<>>,
         NEW n \in Steps, NEW x \in Near(n), \A k \in 1 .. i : order[k] # x
  PROVE  \E k \in i + 1 .. Len(order) : order[k] \in Near(n)
<1> DEFINE Visited(y) == \E k \in 1 .. i : order[k] = y
           Queued(m)  == \E k \in i + 1 .. Len(order) : order[k] \in Near(m)
           T == {m \in Nat : m \in Steps => (\A y \in Near(m) : Visited(y)) \/ Queued(m)}
<1>0. /\ order \in Seq(Names) /\ Len(order) \in Nat /\ Len(order) # 0
      /\ i \in 0 .. Len(order) /\ edges \subseteq Names \X Names
  BY DEF TypeOK
<1>1. 0 \in T
  <2>1. Near(0) = {root} /\ order[1] = root
    BY WithinIs DEF Near, QueueInv
  <2>2. CASE i = 0
    <3>1. 1 \in i + 1 .. Len(order) /\ order[1] \in Near(0)
      BY <1>0, <2>1, <2>2
    <3> QED
      BY <3>1
  <2>3. CASE i # 0
    <3>1. 1 \in 1 .. i
      BY <1>0, <2>3
    <3> QED
      BY <2>1, <3>1
  <2> QED
    BY <2>2, <2>3
<1>2. ASSUME NEW m \in Nat, m \in T PROVE m + 1 \in T
  <2> SUFFICES ASSUME m + 1 \in Steps, NEW y \in Near(m + 1), ~Visited(y)
               PROVE  Queued(m + 1)
    OBVIOUS
  <2>1. m \in Steps /\ m < Cardinality(Fns)
    BY FnsAreFinite DEF Steps
  <2>2. \A z : z \in Near(m + 1) <=> z \in Near(m) \/ \E e \in edges : e[1] \in Near(m) /\ z = e[2]
    BY <2>1, WithinNext DEF Near
  <2>3. CASE Queued(m)
    BY <2>2, <2>3
  <2>4. CASE \A z \in Near(m) : Visited(z)
    <3>1. PICK e \in edges : e[1] \in Near(m) /\ y = e[2]
      BY <2>2, <2>4
    <3>2. PICK k \in 1 .. i : order[k] = e[1]
      BY <2>4, <3>1
    <3>3. Leads(order[k], y) /\ y \in Names
      BY <1>0, <3>1, <3>2 DEF Leads
    <3>4. y \in ToSet(order)
      BY <3>2, <3>3 DEF QueueInv
    <3>5. PICK j \in 1 .. Len(order) : order[j] = y
      BY <1>0, <3>4 DEF ToSet
    <3>6. j \in i + 1 .. Len(order)
      BY <1>0, <3>5
    <3> QED
      BY <3>5, <3>6
  <2> QED
    BY <1>2, <2>1, <2>3, <2>4
<1>3. Nat \subseteq T
  <2> HIDE DEF T
  <2> QED
    BY <1>1, <1>2, Induction
<1> QED
  BY <1>3, FnsAreFinite DEF Steps

(* A name that is met only now is no nearer than what is in the queue, and *)
(* no nearer than what else the same node leads to.                        *)
LEMMA NewIsNoNearer ==
  ASSUME TypeOK, QueueInv, NearestFirst, i < Len(order),
         NEW c \in Unseen(order[i + 1]), NEW n \in Steps, c \in Near(n)
  PROVE  /\ \A k \in 1 .. Len(order) : order[k] \in Near(n)
         /\ Unseen(order[i + 1]) \subseteq Near(n)
<1>0. /\ order \in Seq(Names) /\ Len(order) \in Nat
      /\ i \in 0 .. Len(order) /\ edges \subseteq Names \X Names
  BY DEF TypeOK
<1>1. order # <<>> /\ order[1] = root
  BY <1>0 DEF QueueInv
<1>2. c \in Names /\ Leads(order[i + 1], c) /\ \A k \in 1 .. Len(order) : order[k] # c
  BY <1>0 DEF Unseen, Leads, ToSet
<1>3. n # 0
  <2>1. Near(0) = {root}
    BY WithinIs DEF Near
  <2> QED
    BY <1>0, <1>1, <1>2, <2>1
<1>4. n - 1 \in Steps /\ n - 1 \in Nat /\ n - 1 < Cardinality(Fns) /\ (n - 1) + 1 = n
  BY <1>3, FnsAreFinite DEF Steps
<1>5. \A z : z \in Near(n) <=> z \in Near(n - 1) \/ \E e \in edges : e[1] \in Near(n - 1) /\ z = e[2]
  BY <1>4, WithinNext DEF Near
<1>6. \E x \in Near(n - 1) : \A k \in 1 .. i : order[k] # x
  <2>1. CASE c \in Near(n - 1)
    BY <1>0, <1>2, <2>1
  <2>2. ASSUME NEW e \in edges, e[1] \in Near(n - 1), c = e[2]
        PROVE  \A k \in 1 .. i : order[k] # e[1]
    <3> SUFFICES ASSUME NEW k \in 1 .. i, order[k] = e[1] PROVE FALSE
      OBVIOUS
    <3>1. Leads(order[k], c)
      BY <1>0, <2>2 DEF Leads
    <3>2. c \in ToSet(order)
      BY <1>1, <1>2, <3>1 DEF QueueInv
    <3> QED
      BY <1>0, <1>2, <3>2 DEF ToSet
  <2> QED
    BY <1>5, <2>1, <2>2
<1>7. PICK k \in i + 1 .. Len(order) : order[k] \in Near(n - 1)
  BY <1>1, <1>4, <1>6, QueueHoldsNear
<1>8. \A j \in 1 .. i + 1 : order[j] \in Near(n - 1)
  BY <1>0, <1>4, <1>7 DEF NearestFirst
<1>9. ASSUME NEW j \in 1 .. Len(order) PROVE order[j] \in Near(n)
  <2>1. CASE j = 1
    BY <1>0, <1>5, <1>8, <2>1
  <2>2. CASE j # 1
    <3>1. PICK p \in 1 .. i : Leads(order[p], order[j])
      BY <1>0, <1>1, <2>2 DEF QueueInv
    <3> QED
      BY <1>0, <1>5, <1>8, <3>1 DEF Leads
  <2> QED
    BY <2>1, <2>2
<1>10. ASSUME NEW d \in Unseen(order[i + 1]) PROVE d \in Near(n)
  BY <1>0, <1>5, <1>8 DEF Unseen
<1> QED
  BY <1>9, <1>10

(* A sequence of a set has each of its elements once.                      *)
LEMMA SequencesOfSet ==
  ASSUME NEW U, IsFiniteSet(U), NEW s \in SetToSeqs(U)
  PROVE  /\ s \in Seq(U) /\ Len(s) \in Nat
         /\ \A j, k \in 1 .. Len(s) : j # k => s[j] # s[k]
         /\ \A x \in U : \E k \in 1 .. Len(s) : s[k] = x
<1> DEFINE c == Cardinality(U)
<1>1. c \in Nat
  BY FS_CardinalityType
<1>2. s \in [1 .. c -> U] /\ \A j, k \in 1 .. c : j # k => s[j] # s[k]
  BY DEF SetToSeqs
<1>3. s \in Seq(U) /\ Len(s) = c
  BY <1>1, <1>2
<1>4. s \in Injection(1 .. c, U)
  BY <1>2 DEF Injection, IsInjective
<1>5. Cardinality(1 .. c) = c
  BY <1>1, FS_Interval
<1>6. s \in Surjection(1 .. c, U)
  BY <1>4, <1>5, FS_Injection
<1> QED
  BY <1>1, <1>2, <1>3, <1>6 DEF Surjection

(* A queue without repetitions that is led to from the root is not longer  *)
(* than there are names that are led to.                                   *)
LEMMA QueueIsShort ==
  ASSUME TypeOK, EdgesInv, NEW q \in Seq(Names), NEW r,
         \A j, k \in 1 .. Len(q) : j # k => q[j] # q[k],
         \A k \in 1 .. Len(q) : q[k] \in {r} \union LedTo(edges)
  PROVE  Len(q) <= Cardinality(Fns) + 1
<1> DEFINE led == LedTo(edges)
           V   == led \union {r}
<1>1. IsFiniteSet(led) /\ Cardinality(led) <= Cardinality(Fns)
  BY DEF EdgesInv
<1>2. IsFiniteSet(V) /\ Cardinality(V) <= Cardinality(Fns) + 1 /\ Cardinality(V) \in Nat
  <2> HIDE DEF led
  <2>1. Cardinality(led) \in Nat
    BY <1>1, FS_CardinalityType
  <2>2. IsFiniteSet(V) /\ Cardinality(V) = IF r \in led THEN Cardinality(led) ELSE Cardinality(led) + 1
    BY <1>1, FS_AddElement
  <2> QED
    BY <1>1, <2>1, <2>2, FnsAreFinite
<1>3. Len(q) \in Nat /\ Cardinality(1 .. Len(q)) = Len(q)
  <2>1. Len(q) \in Nat
    OBVIOUS
  <2>2. Cardinality(1 .. Len(q)) = IF 1 > Len(q) THEN 0 ELSE Len(q) - 1 + 1
    BY <2>1, FS_Interval
  <2> QED
    BY <2>1, <2>2
<1>4. q \in Injection(1 .. Len(q), V)
  <2>1. q \in [1 .. Len(q) -> V]
    OBVIOUS
  <2> QED
    BY <2>1 DEF Injection, IsInjective
<1> QED
  <2> HIDE DEF V
  <2> QED
    BY <1>2, <1>3, <1>4, FS_Injection, FnsAreFinite

\* p is q and then s.
Joined(p, q, s) == p = q \o s

\* The elements of p are those of q, then those of s.
Parts(p, q, s) ==
  /\ Len(p) = Len(q) + Len(s) /\ Len(q) \in Nat /\ Len(s) \in Nat
  /\ \A k \in 1 .. Len(q) : k \in 1 .. Len(p) /\ p[k] = q[k]
  /\ \A k \in 1 .. Len(s) : Len(q) + k \in 1 .. Len(p) /\ p[Len(q) + k] = s[k]
  /\ \A k \in 1 .. Len(p) : k \in 1 .. Len(q) \/ \E j \in 1 .. Len(s) : k = Len(q) + j

\* Two places of p are both in q, or in q and in s, or both in s.
TwoOf(p, q, s, j, k) ==
  \/ j \in 1 .. Len(q) /\ k \in 1 .. Len(q) /\ p[j] = q[j] /\ p[k] = q[k]
  \/ \E l \in 1 .. Len(s) : j \in 1 .. Len(q) /\ p[j] = q[j] /\ p[k] = s[l]
  \/ \E m, l \in 1 .. Len(s) : m # l /\ p[j] = s[m] /\ p[k] = s[l]

(* Where the elements of two sequences are in the two put together.        *)
LEMMA Appending ==
  ASSUME NEW S, NEW q \in Seq(S), NEW s \in Seq(S), NEW p, Joined(p, q, s)
  PROVE  p \in Seq(S) /\ Parts(p, q, s)
<1>0. p = q \o s
  BY DEF Joined
<1>1. Len(q) \in Nat /\ Len(s) \in Nat
  OBVIOUS
<1>2. /\ q \o s \in Seq(S) /\ Len(q \o s) = Len(q) + Len(s)
      /\ \A k \in 1 .. Len(q) + Len(s) : (q \o s)[k] = IF k <= Len(q) THEN q[k] ELSE s[k - Len(q)]
  BY ConcatProperties
<1>3. ASSUME NEW k \in 1 .. Len(s) PROVE Len(q) + k \in 1 .. Len(q \o s) /\ (q \o s)[Len(q) + k] = s[k]
  <2>1. Len(q) + k \in 1 .. Len(q) + Len(s) /\ ~(Len(q) + k <= Len(q)) /\ (Len(q) + k) - Len(q) = k
    BY <1>1
  <2> QED
    BY <1>2, <2>1
<1>4. ASSUME NEW k \in 1 .. Len(q \o s) PROVE k \in 1 .. Len(q) \/ \E j \in 1 .. Len(s) : k = Len(q) + j
  <2>1. k \in 1 .. Len(q) \/ (k - Len(q) \in 1 .. Len(s) /\ k = Len(q) + (k - Len(q)))
    BY <1>1, <1>2
  <2> QED
    BY <2>1
<1> QED
  BY <1>0, <1>1, <1>2, <1>3, <1>4 DEF Parts

(* Two places in two sequences put together.                               *)
LEMMA TwoPlaces ==
  ASSUME NEW S, NEW q \in Seq(S), NEW s \in Seq(S), NEW p, Joined(p, q, s),
         NEW j \in 1 .. Len(p), NEW k \in 1 .. Len(p), j < k
  PROVE  TwoOf(p, q, s, j, k)
<1>1. Parts(p, q, s)
  BY Appending
<1> DEFINE n == Len(q)
           w == Len(s)
           z == Len(p)
<1>2. n \in Nat /\ w \in Nat /\ z = n + w /\ j \in 1 .. z /\ k \in 1 .. z /\ j < k
  BY <1>1 DEF Parts
<1>3. (\A x \in 1 .. n : p[x] = q[x]) /\ (\A x \in 1 .. w : p[n + x] = s[x])
  BY <1>1 DEF Parts
<1> SUFFICES \/ j \in 1 .. n /\ k \in 1 .. n /\ p[j] = q[j] /\ p[k] = q[k]
             \/ \E l \in 1 .. w : j \in 1 .. n /\ p[j] = q[j] /\ p[k] = s[l]
             \/ \E m, l \in 1 .. w : m # l /\ p[j] = s[m] /\ p[k] = s[l]
  BY DEF TwoOf
<1> HIDE DEF n, w, z
<1>4. CASE k \in 1 .. n
  <2>1. j \in 1 .. n
    BY <1>2, <1>4
  <2> QED
    BY <1>3, <1>4, <2>1
<1>5. CASE k \notin 1 .. n
  <2>1. k - n \in 1 .. w /\ n + (k - n) = k
    BY <1>2, <1>5
  <2>2. p[k] = s[k - n]
    BY <1>3, <2>1
  <2>3. CASE j \in 1 .. n
    BY <1>3, <2>1, <2>2, <2>3
  <2>4. CASE j \notin 1 .. n
    <3>1. j - n \in 1 .. w /\ n + (j - n) = j /\ j - n # k - n
      BY <1>2, <2>4
    <3>2. p[j] = s[j - n]
      BY <1>3, <3>1
    <3> QED
      BY <2>1, <2>2, <3>1, <3>2
  <2> QED
    BY <2>3, <2>4
<1> QED
  BY <1>4, <1>5

\* The first v of the queue q are visited, s is what the next one leads to.
LedOn(R, S, q, s, v) ==
  /\ q \in Seq(S) /\ s \in Seq(S) /\ v \in Nat /\ v + 1 \in 1 .. Len(q)
  /\ \A k \in 2 .. Len(q) : \E h \in 1 .. v : h < k /\ <<q[h], q[k]>> \in R
  /\ \A k \in 1 .. Len(s) : <<q[v + 1], s[k]>> \in R
  /\ \A k \in 1 .. v : \A x \in S : <<q[k], x>> \in R => \E j \in 1 .. Len(q) : q[j] = x
  /\ \A x \in S : <<q[v + 1], x>> \in R =>
         (\E j \in 1 .. Len(q) : q[j] = x) \/ (\E j \in 1 .. Len(s) : s[j] = x)

(* The queue with the new names behind it: each but the first is led to by *)
(* one before it, and what the visited ones lead to is in it.              *)
LEMMA LedToStays ==
  ASSUME NEW R, NEW S, NEW q, NEW s, NEW p, NEW v, Joined(p, q, s), LedOn(R, S, q, s, v)
  PROVE  /\ \A k \in 2 .. Len(p) : \E h \in 1 .. v + 1 : h < k /\ <<p[h], p[k]>> \in R
         /\ \A k \in 1 .. v + 1 : \A x \in S : <<p[k], x>> \in R => \E j \in 1 .. Len(p) : p[j] = x
<1> USE DEF LedOn
<1> DEFINE n == Len(q)
           w == Len(s)
           z == Len(p)
<1>1. /\ z = n + w /\ n \in Nat /\ w \in Nat /\ v + 1 \in 1 .. n /\ v \in Nat
      /\ \A x \in 1 .. n : x \in 1 .. z /\ p[x] = q[x]
      /\ \A x \in 1 .. w : n + x \in 1 .. z /\ p[n + x] = s[x]
      /\ \A x \in 1 .. z : x \in 1 .. n \/ \E j \in 1 .. w : x = n + j
  <2>1. q \in Seq(S) /\ s \in Seq(S) /\ v + 1 \in 1 .. n /\ v \in Nat
    OBVIOUS
  <2>2. Parts(p, q, s)
    BY <2>1, Appending
  <2> QED
    BY <2>1, <2>2 DEF Parts
<1>2. /\ \A k \in 2 .. n : \E h \in 1 .. v : h < k /\ <<q[h], q[k]>> \in R
      /\ \A k \in 1 .. w : <<q[v + 1], s[k]>> \in R
  OBVIOUS
<1>3. /\ \A k \in 1 .. v : \A x \in S : <<q[k], x>> \in R => \E j \in 1 .. n : q[j] = x
      /\ \A x \in S : <<q[v + 1], x>> \in R => (\E j \in 1 .. n : q[j] = x) \/ (\E j \in 1 .. w : s[j] = x)
  OBVIOUS
<1> SUFFICES /\ \A k \in 2 .. z : \E h \in 1 .. v + 1 : h < k /\ <<p[h], p[k]>> \in R
             /\ \A k \in 1 .. v + 1 : \A x \in S : <<p[k], x>> \in R => \E j \in 1 .. z : p[j] = x
  OBVIOUS
<1> HIDE DEF n, w, z, LedOn
<1>4. ASSUME NEW k \in 2 .. z PROVE \E h \in 1 .. v + 1 : h < k /\ <<p[h], p[k]>> \in R
  <2>0. k \in 1 .. z
    BY <1>1
  <2>1. CASE k \in 1 .. n
    <3>1. PICK h \in 1 .. v : h < k /\ <<q[h], q[k]>> \in R
      BY <1>2, <2>1
    <3>2. h \in 1 .. v + 1 /\ h \in 1 .. n
      BY <1>1
    <3>3. p[h] = q[h] /\ p[k] = q[k]
      BY <1>1, <2>1, <3>2
    <3> QED
      BY <3>1, <3>2, <3>3
  <2>2. ASSUME NEW l \in 1 .. w, k = n + l PROVE \E h \in 1 .. v + 1 : h < k /\ <<p[h], p[k]>> \in R
    <3>1. v + 1 \in 1 .. v + 1 /\ v + 1 < k
      BY <1>1, <2>2
    <3>2. p[v + 1] = q[v + 1] /\ p[k] = s[l]
      BY <1>1, <2>2
    <3>3. <<q[v + 1], s[l]>> \in R
      BY <1>2
    <3> QED
      BY <3>1, <3>2, <3>3
  <2> QED
    BY <1>1, <2>0, <2>1, <2>2
<1>5. ASSUME NEW k \in 1 .. v + 1, NEW x \in S, <<p[k], x>> \in R PROVE \E j \in 1 .. z : p[j] = x
  <2>1. k \in 1 .. n /\ (k \in 1 .. v \/ k = v + 1)
    BY <1>1
  <2>2. p[k] = q[k]
    BY <1>1, <2>1
  <2>3. (\E j \in 1 .. n : q[j] = x) \/ (\E j \in 1 .. w : s[j] = x)
    BY <1>3, <1>5, <2>1, <2>2
  <2>4. ASSUME NEW j \in 1 .. n, q[j] = x PROVE \E h \in 1 .. z : p[h] = x
    BY <1>1, <2>4
  <2>5. ASSUME NEW j \in 1 .. w, s[j] = x PROVE \E h \in 1 .. z : p[h] = x
    <3>1. n + j \in 1 .. z /\ p[n + j] = x
      BY <1>1, <2>5
    <3> QED
      BY <3>1
  <2> QED
    BY <2>3, <2>4, <2>5
<1> QED
  BY <1>4, <1>5

(* A visit keeps the queue what it is.                                     *)
LEMMA VisitKeepsQueue ==
  ASSUME ExplorerInv, Visit
  PROVE  /\ order' \in Seq(Names) /\ Len(order') <= Cardinality(Fns) + 1 /\ i' \in 0 .. Len(order')
         /\ order' # <<>> /\ QueueInv' /\ NearestFirst'
<1> DEFINE U == Unseen(order[i + 1])
<1>0. /\ TypeOK /\ QueueInv /\ EdgesInv /\ NearestFirst /\ UNCHANGED <<edges, root>>
      /\ order \in Seq(Names) /\ i \in Nat /\ i + 1 \in 1 .. Len(order) /\ i < Len(order) /\ Len(order) \in Nat
      /\ edges \subseteq Names \X Names /\ order # <<>> /\ order[1] = root
  BY DEF ExplorerInv, TypeOK, StageInv, QueueInv, Visit
<1>1. U \subseteq LedTo(edges) /\ U \subseteq Names
  BY DEF Unseen, LedTo
<1>2. /\ \A x \in U : <<order[i + 1], x>> \in edges /\ \A k \in 1 .. Len(order) : order[k] # x
      /\ \A x \in Names : <<order[i + 1], x>> \in edges => x \in U \/ \E k \in 1 .. Len(order) : order[k] = x
  BY <1>0 DEF Unseen, ToSet
<1>3. \E new \in SetToSeqs(U) : order' = order \o new /\ i' = i + 1
  BY DEF Visit, Appended, NextOf
<1>4. \A c \in U, m \in Steps : c \in Near(m) => (\A k \in 1 .. Len(order) : order[k] \in Near(m)) /\ U \subseteq Near(m)
  BY <1>0, NewIsNoNearer
<1>5. /\ \A k \in 1 .. i : \A x \in Names : <<order[k], x>> \in edges => \E j \in 1 .. Len(order) : order[j] = x
      /\ \A k \in 2 .. Len(order) : \E p \in 1 .. i : p < k /\ <<order[p], order[k]>> \in edges
  BY <1>0 DEF QueueInv, ToSet, Leads
<1>6. /\ \A j, k \in 1 .. Len(order) : j < k => order[j] # order[k]
      /\ \A j, k \in 1 .. Len(order) : \A m \in Steps : j < k /\ order[k] \in Near(m) => order[j] \in Near(m)
  BY <1>0 DEF NearestFirst
<1> HIDE DEF U
<1>7. IsFiniteSet(U)
  BY <1>0, <1>1, FS_Subset DEF EdgesInv
<1>8. PICK new \in SetToSeqs(U) : order' = order \o new /\ i' = i + 1
  BY <1>3
<1>9. /\ new \in Seq(U) /\ Len(new) \in Nat
      /\ \A j, k \in 1 .. Len(new) : j # k => new[j] # new[k]
      /\ \A x \in U : \E k \in 1 .. Len(new) : new[k] = x
  BY <1>7, SequencesOfSet
<1>10. new \in Seq(Names) /\ \A k \in 1 .. Len(new) : new[k] \in U
  BY <1>1, <1>9
<1>11. PICK p : p = order' /\ Joined(p, order, new)
  BY <1>8 DEF Joined
<1> HIDE <1>11
<1>20. Joined(p, order, new)
  BY <1>11
<1>12. /\ p \in Seq(Names) /\ Len(p) = Len(order) + Len(new) /\ p[1] = order[1]
       /\ Len(p) \in Nat /\ i + 1 \in 0 .. Len(p) /\ p # <<>>
  <2>1. p \in Seq(Names) /\ Parts(p, order, new)
    <3>1. order \in Seq(Names) /\ new \in Seq(Names)
      BY <1>0, <1>10
    <3> QED
      BY <1>20, <3>1, Appending
  <2>2. Len(order) # 0
    BY <1>0
  <2> QED
    BY <1>0, <2>1, <2>2 DEF Parts
<1>13. \A j, k \in 1 .. Len(p) : j < k => p[j] # p[k]
  <2> SUFFICES ASSUME NEW j \in 1 .. Len(p), NEW k \in 1 .. Len(p), j < k PROVE p[j] # p[k]
    OBVIOUS
  <2>1. \/ j \in 1 .. Len(order) /\ k \in 1 .. Len(order) /\ p[j] = order[j] /\ p[k] = order[k]
        \/ \E l \in 1 .. Len(new) : j \in 1 .. Len(order) /\ p[j] = order[j] /\ p[k] = new[l]
        \/ \E m, l \in 1 .. Len(new) : m # l /\ p[j] = new[m] /\ p[k] = new[l]
    <3>1. order \in Seq(Names) /\ new \in Seq(Names)
      BY <1>0, <1>10
    <3>2. TwoOf(p, order, new, j, k)
      BY <1>20, <3>1, TwoPlaces
    <3> QED
      BY <3>2 DEF TwoOf
  <2>2. CASE j \in 1 .. Len(order) /\ k \in 1 .. Len(order) /\ p[j] = order[j] /\ p[k] = order[k]
    BY <1>6, <2>2
  <2>3. ASSUME NEW l \in 1 .. Len(new), j \in 1 .. Len(order), p[j] = order[j], p[k] = new[l] PROVE p[j] # p[k]
    BY <1>2, <1>10, <2>3
  <2>4. ASSUME NEW m \in 1 .. Len(new), NEW l \in 1 .. Len(new), m # l, p[j] = new[m], p[k] = new[l] PROVE p[j] # p[k]
    BY <1>9, <2>4
  <2> QED
    BY <2>1, <2>2, <2>3, <2>4
<1>14. /\ \A k \in 2 .. Len(p) : \E h \in 1 .. i + 1 : h < k /\ <<p[h], p[k]>> \in edges
       /\ \A k \in 1 .. i + 1 : \A x \in Names : <<p[k], x>> \in edges => \E j \in 1 .. Len(p) : p[j] = x
  <2>1. /\ order \in Seq(Names) /\ new \in Seq(Names) /\ i \in Nat /\ i + 1 \in 1 .. Len(order)
        /\ \A k \in 1 .. Len(new) : <<order[i + 1], new[k]>> \in edges
    BY <1>0, <1>2, <1>10
  <2>2. \A x \in Names : <<order[i + 1], x>> \in edges =>
            (\E j \in 1 .. Len(order) : order[j] = x) \/ (\E j \in 1 .. Len(new) : new[j] = x)
    BY <1>2, <1>9
  <2>3. LedOn(edges, Names, order, new, i)
    BY <1>5, <2>1, <2>2 DEF LedOn
  <2> QED
    BY <1>20, <2>3, LedToStays
<1>15. Len(p) <= Cardinality(Fns) + 1
  <2>1. \A j, k \in 1 .. Len(p) : j # k => p[j] # p[k]
    <3> SUFFICES ASSUME NEW j \in 1 .. Len(p), NEW k \in 1 .. Len(p), j # k PROVE p[j] # p[k]
      OBVIOUS
    <3>1. j < k \/ k < j
      BY <1>12
    <3> QED
      BY <1>13, <3>1
  <2>2. ASSUME NEW k \in 1 .. Len(p) PROVE p[k] \in {root} \union LedTo(edges)
    <3>1. CASE k = 1
      BY <1>0, <1>12, <3>1
    <3>2. CASE k # 1
      <4>1. k \in 2 .. Len(p)
        BY <1>12, <3>2
      <4>2. PICK h : <<p[h], p[k]>> \in edges
        BY <1>14, <4>1
      <4>3. <<p[h], p[k]>>[2] = p[k]
        OBVIOUS
      <4> QED
        BY <4>2, <4>3 DEF LedTo
    <3> QED
      BY <3>1, <3>2
  <2> QED
    BY <1>0, <1>12, <2>1, <2>2, QueueIsShort
<1>16. \A j, k \in 1 .. Len(p) : \A m \in Steps : j < k /\ p[k] \in Near(m) => p[j] \in Near(m)
  <2> SUFFICES ASSUME NEW j \in 1 .. Len(p), NEW k \in 1 .. Len(p), j < k, NEW m \in Steps, p[k] \in Near(m)
               PROVE  p[j] \in Near(m)
    OBVIOUS
  <2>1. \/ j \in 1 .. Len(order) /\ k \in 1 .. Len(order) /\ p[j] = order[j] /\ p[k] = order[k]
        \/ \E l \in 1 .. Len(new) : j \in 1 .. Len(order) /\ p[j] = order[j] /\ p[k] = new[l]
        \/ \E h, l \in 1 .. Len(new) : h # l /\ p[j] = new[h] /\ p[k] = new[l]
    <3>1. order \in Seq(Names) /\ new \in Seq(Names)
      BY <1>0, <1>10
    <3>2. TwoOf(p, order, new, j, k)
      BY <1>20, <3>1, TwoPlaces
    <3> QED
      BY <3>2 DEF TwoOf
  <2> DEFINE N == Near(m)
  <2>2. /\ \A c \in U : c \in N => (\A x \in 1 .. Len(order) : order[x] \in N) /\ U \subseteq N
        /\ \A x, y \in 1 .. Len(order) : x < y /\ order[y] \in N => order[x] \in N
        /\ p[k] \in N
    BY <1>4, <1>6
  <2> SUFFICES p[j] \in N
    OBVIOUS
  <2> HIDE DEF N
  <2> QED
    BY <1>10, <2>1, <2>2
<1>17. order' = p /\ i' = i + 1 /\ edges' = edges /\ root' = root /\ order[1] = root
  BY <1>0, <1>8, <1>11
<1>18. QueueInv'
  <2>1. ASSUME NEW k \in 1 .. i + 1, NEW x \in Names, <<p[k], x>> \in edges PROVE x \in ToSet(p)
    <3>1. PICK j \in 1 .. Len(p) : p[j] = x
      BY <1>14, <2>1
    <3> QED
      BY <1>12, <3>1 DEF ToSet
  <2>2. \A m, y : Leads(m, y)' <=> <<m, y>> \in edges
    BY <1>17 DEF Leads
  <2> QED
    BY <1>12, <1>14, <1>17, <2>1, <2>2 DEF QueueInv
<1>19. NearestFirst'
  BY <1>13, <1>16, <1>17 DEF NearestFirst, Near
<1> QED
  BY <1>12, <1>15, <1>17, <1>18, <1>19

-----------------------------------------------------------------------------
(* The inductive invariant.                                                *)

LEMMA EmptyQueue ==
  /\ <<>> \in Seq(Names) /\ Len(<<>>) = 0 /\ Nothing \in [leaf : BOOLEAN, code : Seq(Names), skipped : Seq(Names)]
  /\ Nothing.code = <<>> /\ Nothing.skipped = <<>> /\ IsFiniteSet({}) /\ Cardinality({}) = 0
BY FS_EmptySet DEF Nothing

LEMMA InitExplorer == Init => ExplorerInv
<1> SUFFICES ASSUME Init PROVE ExplorerInv
  OBVIOUS
<1> USE DEF Init
<1>1. TypeOK
  BY EmptyQueue, GraphsAssumption, NumbersAssumption, FnsAreFinite
     DEF GraphsAssumption, NumbersAssumption, TypeOK, NoArg
<1>2. LedTo(edges) = {}
  BY DEF LedTo
<1>3. EdgesInv
  <2>1. IsFiniteSet(LedTo(edges)) /\ Cardinality(LedTo(edges)) = 0
    BY <1>2, EmptyQueue
  <2> QED
    BY <2>1, FnsAreFinite DEF EdgesInv
<1>4. QueueInv /\ StageInv /\ WholeInv /\ NearestFirst
  BY EmptyQueue DEF QueueInv, StageInv, WholeInv, NearestFirst
<1> QED
  BY <1>1, <1>3, <1>4 DEF ExplorerInv

(* A call begins with nothing.                                             *)
LEMMA ExploreKeeps == ExplorerInv /\ Explore => ExplorerInv'
<1> SUFFICES ASSUME ExplorerInv, Explore PROVE ExplorerInv'
  OBVIOUS
<1> USE DEF ExplorerInv, Explore, ghidraVars
<1>1. TypeOK'
  BY EmptyQueue, FnsAreFinite DEF TypeOK
<1>2. LedTo(edges') = {}
  BY DEF LedTo
<1>3. EdgesInv'
  <2>1. IsFiniteSet(LedTo(edges')) /\ Cardinality(LedTo(edges')) = 0
    BY <1>2, EmptyQueue
  <2> QED
    BY <2>1, FnsAreFinite DEF EdgesInv
<1>4. QueueInv' /\ StageInv' /\ WholeInv' /\ NearestFirst'
  BY EmptyQueue DEF QueueInv, StageInv, WholeInv, NearestFirst
<1> QED
  BY <1>1, <1>3, <1>4

(* What the queue is depends on it, the root and the edges alone.          *)
LEMMA SameQueue ==
  ASSUME ExplorerInv, UNCHANGED <<root, edges, order, i>>
  PROVE  QueueInv' /\ EdgesInv' /\ NearestFirst'
<1>1. \A m, n : Leads(m, n)' = Leads(m, n)
  BY DEF Leads
<1>2. QueueInv'
  BY <1>1 DEF ExplorerInv, QueueInv
<1>3. EdgesInv'
  BY DEF ExplorerInv, EdgesInv
<1>4. NearestFirst'
  BY DEF ExplorerInv, NearestFirst, Near
<1> QED
  BY <1>2, <1>3, <1>4

(* The reads of the root.                                                  *)
LEMMA RootKeeps ==
  ExplorerInv /\ (RootFound \/ RootNotFound \/ Contained \/ NotContained) => ExplorerInv'
<1> SUFFICES ASSUME ExplorerInv, RootFound \/ RootNotFound \/ Contained \/ NotContained
             PROVE  ExplorerInv'
  OBVIOUS
<1> USE DEF ghidraVars, walkVars
<1>1. order = <<>> /\ UNCHANGED <<calls, name, renames, arg, edges, order, i, report>>
  BY DEF ExplorerInv, StageInv, RootFound, RootNotFound, Contained, NotContained
<1>2. /\ pc' \in {"edges", "contain", "done"} /\ root' \in Names \union {NoFn} /\ whole' \in BOOLEAN
      /\ pc' = "edges" => arg.at \in Fns /\ root' = name[arg.at] /\ root' \in Names
      /\ pc' = "done" => ~whole'
  BY DEF ExplorerInv, TypeOK, RootFound, RootNotFound, Contained, NotContained, Rooted
<1>3. TypeOK'
  BY <1>1, <1>2 DEF ExplorerInv, TypeOK
<1>4. QueueInv' /\ NearestFirst'
  BY <1>1, EmptyQueue DEF QueueInv, NearestFirst
<1>5. EdgesInv'
  BY <1>1 DEF ExplorerInv, EdgesInv
<1>6. report.code = <<>> /\ report.skipped = <<>> /\ i = 0
  BY <1>1, EmptyQueue DEF ExplorerInv, StageInv, TypeOK, RootFound, RootNotFound, Contained, NotContained
<1>7. StageInv' /\ WholeInv'
  BY <1>1, <1>2, <1>6, EmptyQueue DEF StageInv, WholeInv
<1> QED
  BY <1>3, <1>4, <1>5, <1>7 DEF ExplorerInv

(* The edges are read, and the root is queued.                             *)
LEMMA EdgesReadKeeps == ExplorerInv /\ EdgesRead => ExplorerInv'
<1> SUFFICES ASSUME ExplorerInv, EdgesRead PROVE ExplorerInv'
  OBVIOUS
<1> USE DEF ghidraVars
<1> DEFINE all == Named(CallsBelow(arg.at, arg.depth))
<1>1. /\ UNCHANGED <<calls, name, renames, arg, root>> /\ order' = <<root>> /\ i' = 0 /\ pc' = "walk"
      /\ report' = [report EXCEPT !.leaf = (edges' = {})] /\ edges' \subseteq all
      /\ whole' = (whole /\ edges' = all)
  BY DEF EdgesRead
<1>2. arg.at \in Fns /\ root \in Names /\ report.code = <<>> /\ report.skipped = <<>> /\ TypeOK
      /\ (whole => root = name[arg.at])
  BY DEF EdgesRead, ExplorerInv, StageInv, WholeInv
<1>3. /\ IsFiniteSet(LedTo(edges')) /\ Cardinality(LedTo(edges')) <= Cardinality(Fns)
      /\ edges' \subseteq Names \X Names
  <2> HIDE DEF all
  <2>1. edges' \subseteq all /\ TypeOK
    BY <1>1, <1>2
  <2>2. \A E : E \subseteq all =>
          IsFiniteSet(LedTo(E)) /\ Cardinality(LedTo(E)) <= Cardinality(Fns) /\ E \subseteq Names \X Names
    BY <2>1, EdgesLeadToFewNames DEF all
  <2> QED
    BY <2>1, <2>2
<1>4. order' \in Seq(Names) /\ Len(order') = 1 /\ order'[1] = root /\ order' # <<>>
  <2>1. root \in Names /\ order' = <<root>>
    BY <1>1, <1>2
  <2>2. <<root>> \in Seq(Names) /\ Len(<<root>>) = 1 /\ <<root>>[1] = root /\ <<root>> # <<>>
    BY <2>1
  <2> QED
    BY <2>1, <2>2
<1>5. /\ report' \in [leaf : BOOLEAN, code : Seq(Names), skipped : Seq(Names)]
      /\ report'.code = <<>> /\ report'.skipped = <<>>
  <2>1. /\ report \in [leaf : BOOLEAN, code : Seq(Names), skipped : Seq(Names)]
        /\ report.code = <<>> /\ report.skipped = <<>>
    BY <1>2 DEF TypeOK
  <2>2. (edges' = {}) \in BOOLEAN /\ report' = [report EXCEPT !.leaf = (edges' = {})]
    BY <1>1
  <2> QED
    BY <2>1, <2>2
<1>6. TypeOK'
  BY <1>1, <1>2, <1>3, <1>4, <1>5, FnsAreFinite DEF TypeOK
<1>7. EdgesInv'
  BY <1>3 DEF EdgesInv
<1>8. QueueInv' /\ NearestFirst'
  BY <1>1, <1>4 DEF QueueInv, NearestFirst
<1>9. StageInv'
  BY <1>1, <1>4, <1>5 DEF StageInv
<1>10. WholeInv'
  <2>1. all' = all
    BY <1>1 DEF Named, CallsBelow
  <2> QED
    BY <1>1, <1>2, <1>4, <2>1 DEF WholeInv
<1> QED
  BY <1>6, <1>7, <1>8, <1>9, <1>10 DEF ExplorerInv

LEMMA VisitKeeps == ExplorerInv /\ Visit => ExplorerInv'
<1> SUFFICES ASSUME ExplorerInv, Visit PROVE ExplorerInv'
  OBVIOUS
<1> USE DEF ghidraVars
<1>1. UNCHANGED <<calls, name, renames, pc, arg, root, edges, report, whole>> /\ pc = "walk"
  BY DEF Visit
<1>2. /\ order' \in Seq(Names) /\ Len(order') <= Cardinality(Fns) + 1 /\ i' \in 0 .. Len(order')
      /\ order' # <<>> /\ QueueInv' /\ NearestFirst'
  BY VisitKeepsQueue
<1>3. TypeOK'
  BY <1>1, <1>2 DEF ExplorerInv, TypeOK
<1>4. EdgesInv' /\ StageInv'
  BY <1>1, <1>2 DEF ExplorerInv, EdgesInv, StageInv
<1>5. WholeInv'
  <2>1. Named(CallsBelow(arg.at, arg.depth))' = Named(CallsBelow(arg.at, arg.depth))
    BY <1>1 DEF Named, CallsBelow
  <2> QED
    BY <1>1, <1>2, <2>1 DEF ExplorerInv, WholeInv
<1> QED
  BY <1>2, <1>3, <1>4, <1>5 DEF ExplorerInv

(* Wherever the walk is cut, the two parts are the walk.                   *)
LEMMA CutParts ==
  ASSUME order \in Seq(Names), NEW max \in Int
  PROVE  Wanted(max) \in Seq(Names) /\ Rest(max) \in Seq(Names) /\ Wanted(max) \o Rest(max) = order
<1>1. CutAt(max) \in 0 .. Len(order)
  BY DEF CutAt
<1> DEFINE c == CutAt(max)
<1> HIDE DEF c
<1>2. c \in 0 .. Len(order) /\ Len(order) \in Nat
  BY <1>1 DEF c
<1>3. SubSeq(order, 1, c) \in Seq(Names) /\ SubSeq(order, c + 1, Len(order)) \in Seq(Names)
  BY <1>2, SubSeqProperties
<1>4. SubSeq(order, 1, c) \o SubSeq(order, c + 1, Len(order)) = SubSeq(order, 1, Len(order))
  <2>1. 1 \in 1 .. Len(order) + 1 /\ c \in 1 - 1 .. Len(order) /\ Len(order) \in c .. Len(order)
    BY <1>2
  <2> QED
    BY <2>1, ConcatAdjacentSubSeq
<1> QED
  BY <1>2, <1>3, <1>4, SubSeqFull DEF Wanted, Rest, c

LEMMA WalkedKeeps == ExplorerInv /\ Walked => ExplorerInv'
<1> SUFFICES ASSUME ExplorerInv, Walked PROVE ExplorerInv'
  OBVIOUS
<1> USE DEF ghidraVars, walkVars
<1>1. /\ UNCHANGED <<calls, name, renames, arg, root, edges, order, i, whole>>
      /\ pc = "walk" /\ i = Len(order) /\ pc' = "done"
  BY DEF Walked
<1>2. /\ order \in Seq(Names) /\ report \in [leaf : BOOLEAN, code : Seq(Names), skipped : Seq(Names)]
      /\ report.code = <<>> /\ report.skipped = <<>> /\ order # <<>>
  BY <1>1 DEF ExplorerInv, TypeOK, StageInv
<1>3. /\ report' \in [leaf : BOOLEAN, code : Seq(Names), skipped : Seq(Names)]
      /\ report'.code \o report'.skipped \in {<<>>, order}
  <2>1. CASE report' = report
    BY <1>2, <2>1, EmptyQueue, ConcatEmptySeq
  <2>2. ASSUME NEW max \in Limits, report' = [report EXCEPT !.code = Wanted(max), !.skipped = Rest(max)]
        PROVE  /\ report' \in [leaf : BOOLEAN, code : Seq(Names), skipped : Seq(Names)]
               /\ report'.code \o report'.skipped \in {<<>>, order}
    <3>1. Wanted(max) \in Seq(Names) /\ Rest(max) \in Seq(Names) /\ Wanted(max) \o Rest(max) = order
      BY <1>2, NumbersAssumption, CutParts DEF NumbersAssumption
    <3>2. report'.code = Wanted(max) /\ report'.skipped = Rest(max)
      BY <1>2, <2>2
    <3> QED
      BY <1>2, <2>2, <3>1, <3>2
  <2> QED
    BY <2>1, <2>2 DEF Walked
<1>4. TypeOK'
  BY <1>1, <1>3 DEF ExplorerInv, TypeOK
<1>5. QueueInv' /\ EdgesInv' /\ NearestFirst'
  BY <1>1, SameQueue
<1>6. StageInv'
  BY <1>1, <1>3 DEF StageInv
<1>7. WholeInv'
  <2>1. Named(CallsBelow(arg.at, arg.depth))' = Named(CallsBelow(arg.at, arg.depth))
    BY <1>1 DEF Named, CallsBelow
  <2> QED
    BY <1>1, <1>2, <2>1 DEF ExplorerInv, WholeInv
<1> QED
  BY <1>4, <1>5, <1>6, <1>7 DEF ExplorerInv

(* A rename in Ghidra changes nothing that was read, and it is noticed.    *)
LEMMA RenameKeeps == ExplorerInv /\ Rename => ExplorerInv'
<1> SUFFICES ASSUME ExplorerInv, Rename PROVE ExplorerInv'
  OBVIOUS
<1> USE DEF walkVars
<1>1. /\ UNCHANGED <<calls, pc, arg, root, edges, order, i, report>>
      /\ renames' = renames + 1 /\ renames < MaxRenames /\ whole' = (whole /\ pc = "idle")
  BY DEF Rename
<1>2. name' \in [Fns -> Names]
  BY DEF Rename, ExplorerInv, TypeOK
<1>3. TypeOK'
  BY <1>1, <1>2, NumbersAssumption DEF NumbersAssumption, ExplorerInv, TypeOK
<1>4. QueueInv' /\ EdgesInv' /\ NearestFirst'
  BY <1>1, SameQueue
<1>5. StageInv' /\ WholeInv'
  BY <1>1 DEF ExplorerInv, StageInv, WholeInv
<1> QED
  BY <1>3, <1>4, <1>5 DEF ExplorerInv

LEMMA NextExplorer == ExplorerInv /\ [Next]_vars => ExplorerInv'
<1> SUFFICES ASSUME ExplorerInv, [Next]_vars PROVE ExplorerInv'
  OBVIOUS
<1>1. CASE UNCHANGED vars
  <2>1. UNCHANGED <<calls, name, renames, pc, arg, root, edges, order, i, report, whole>>
    BY <1>1 DEF vars, ghidraVars, walkVars
  <2>2. QueueInv' /\ EdgesInv' /\ NearestFirst'
    BY <2>1, SameQueue
  <2>3. TypeOK' /\ StageInv'
    BY <2>1 DEF ExplorerInv, TypeOK, StageInv
  <2>4. WholeInv'
    BY <2>1 DEF ExplorerInv, WholeInv, Named, CallsBelow
  <2> QED
    BY <2>2, <2>3, <2>4 DEF ExplorerInv
<1> QED
  BY <1>1, ExploreKeeps, RootKeeps, EdgesReadKeeps, VisitKeeps, WalkedKeeps, RenameKeeps DEF Next, Bridge

(* The walk stays one, whatever fails or is renamed meanwhile.             *)
THEOREM ExplorerInvHolds == Spec => []ExplorerInv
BY InitExplorer, NextExplorer, PTL DEF Spec

THEOREM TypeCorrect == Spec => []TypeOK
BY ExplorerInvHolds, PTL DEF ExplorerInv

(* The walk meets no name twice, and nearer ones first.                    *)
THEOREM WalkIsNearestFirst == Spec => []NearestFirst
BY ExplorerInvHolds, PTL DEF ExplorerInv

-----------------------------------------------------------------------------
(* What a walk that is over has met.                                       *)

(* A walk that has no name left to visit has met what there is to be       *)
(* reached: what is near and not visited would be queued, and what is      *)
(* queued was led to by something before it.                               *)
LEMMA WalkedAll ==
  ASSUME ExplorerInv, order # <<>>, i = Len(order)
  PROVE  ToSet(order) = Near(Cardinality(Fns))
<1> DEFINE N == Cardinality(Fns)
<1>0. /\ TypeOK /\ QueueInv /\ EdgesInv /\ order \in Seq(Names) /\ Len(order) \in Nat
      /\ order[1] = root /\ N \in Nat /\ N \in Steps
  BY FnsAreFinite DEF ExplorerInv, TypeOK, QueueInv, Steps
<1>1. ASSUME NEW x \in Near(N) PROVE x \in ToSet(order)
  <2> SUFFICES ASSUME x \notin ToSet(order) PROVE FALSE
    OBVIOUS
  <2>1. \A k \in 1 .. i : order[k] # x
    BY <1>0 DEF ToSet
  <2>2. \E k \in i + 1 .. Len(order) : order[k] \in Near(N)
    <3> HIDE DEF N
    <3> QED
      BY <1>0, <1>1, <2>1, QueueHoldsNear
  <2> QED
    BY <1>0, <2>2
<1> DEFINE V == {root} \union LedTo(edges)
<1>2. IsFiniteSet(V) /\ Cardinality(V) <= N + 1
  <2>1. IsFiniteSet(LedTo(edges)) /\ Cardinality(LedTo(edges)) <= N /\ Cardinality(LedTo(edges)) \in Nat
    BY <1>0, FS_CardinalityType DEF EdgesInv
  <2> DEFINE L == LedTo(edges)
  <2>2. V = L \union {root}
    OBVIOUS
  <2> HIDE DEF L, V
  <2>3. IsFiniteSet(V) /\ Cardinality(V) = IF root \in L THEN Cardinality(L) ELSE Cardinality(L) + 1
    BY <2>1, <2>2, FS_AddElement DEF L
  <2> QED
    BY <1>0, <2>1, <2>3 DEF L
<1> DEFINE T == {k \in Nat : \A j \in 1 .. k : j <= Len(order) => order[j] \in Near(N)}
<1>3. 0 \in T
  OBVIOUS
<1>4. ASSUME NEW k \in Nat, k \in T PROVE k + 1 \in T
  <2> SUFFICES ASSUME k + 1 <= Len(order) PROVE order[k + 1] \in Near(N)
    BY <1>4
  <2>1. CASE k = 0
    <3>1. Near(0) = {root} /\ Near(0) \subseteq Near(N)
      BY <1>0, WithinIs, WithinGrows DEF Near
    <3> QED
      BY <1>0, <2>1, <3>1
  <2>2. CASE k # 0
    <3>1. PICK p \in 1 .. i : p < k + 1 /\ Leads(order[p], order[k + 1])
      BY <1>0, <2>2 DEF QueueInv
    <3>2. p \in 1 .. k /\ p <= Len(order)
      BY <1>0, <3>1
    <3>3. order[p] \in Near(N)
      BY <1>4, <3>2
    <3> DEFINE d == <<order[p], order[k + 1]>>
    <3>4. d \in edges /\ d[1] \in Within(edges, root)[N] /\ d[2] = order[k + 1]
      BY <3>1, <3>3 DEF Leads, Near
    <3> HIDE DEF d
    <3>5. d[2] \in Within(edges, root)[N]
      BY <1>2, <3>4, EverythingIsWithin
    <3> QED
      BY <3>4, <3>5 DEF Near
  <2> QED
    BY <2>1, <2>2
<1>5. Nat \subseteq T
  <2> HIDE DEF T
  <2> QED
    BY <1>3, <1>4, Induction
<1>6. ASSUME NEW x \in ToSet(order) PROVE x \in Near(N)
  <2>1. PICK k \in 1 .. Len(order) : order[k] = x
    BY <1>0 DEF ToSet
  <2>2. k \in Nat /\ k \in T
    BY <1>0, <1>5
  <2> QED
    BY <2>1, <2>2
<1> QED
  BY <1>1, <1>6

LEMMA WalkIsAsLong ==
  ASSUME ExplorerInv
  PROVE  Len(order) = Cardinality(ToSet(order))
<1>1. order \in Seq(Names) /\ Len(order) \in Nat /\ DOMAIN order = 1 .. Len(order)
  BY DEF ExplorerInv, TypeOK
<1>2. ASSUME NEW j \in 1 .. Len(order), NEW k \in 1 .. Len(order), order[j] = order[k] PROVE j = k
  BY <1>1, <1>2 DEF ExplorerInv, NearestFirst
<1> DEFINE n == Len(order)
           A == 1 .. n
           B == ToSet(order)
<1>3. order \in Injection(A, B)
  BY <1>1, <1>2 DEF Injection, IsInjective, ToSet
<1>4. order \in Surjection(A, B)
  BY <1>1 DEF Surjection, ToSet
<1>5. IsFiniteSet(A) /\ Cardinality(A) = n
  <2>1. 1 \in Int /\ n \in Int
    BY <1>1
  <2> HIDE DEF n
  <2>2. IsFiniteSet(A) /\ Cardinality(A) = IF 1 > n THEN 0 ELSE n - 1 + 1
    BY <2>1, FS_Interval
  <2>3. n >= 0
    BY <1>1 DEF n
  <2> QED
    BY <2>1, <2>2, <2>3
<1> HIDE DEF A, B
<1>6. IsFiniteSet(B)
  BY <1>4, <1>5, FS_Surjection
<1>7. Cardinality(A) = Cardinality(B)
  BY <1>3, <1>4, <1>5, FS_Surjection
<1> QED
  BY <1>5, <1>7 DEF B

LEMMA NothingIsLeftOut == ExplorerInv => NothingLeftOut
<1> SUFFICES ASSUME ExplorerInv, report.code # <<>> \/ report.skipped # <<>>
             PROVE  /\ ToSet(report.code \o report.skipped) = Near(Cardinality(Fns))
                    /\ Len(report.code \o report.skipped) = Cardinality(Near(Cardinality(Fns)))
  BY DEF NothingLeftOut
<1>1. /\ report.code \in Seq(Names) /\ report.skipped \in Seq(Names) /\ i = Len(order)
      /\ report.code \o report.skipped \in {<<>>, order}
  BY DEF ExplorerInv, TypeOK, StageInv
<1>2. report.code \o report.skipped = order /\ order # <<>>
  <2>1. report.code \o report.skipped # <<>>
    BY <1>1, ConcatEmptySeq, ConcatProperties, EmptySeq
  <2> QED
    BY <1>1, <2>1
<1> QED
  BY <1>1, <1>2, WalkedAll, WalkIsAsLong

(* A name is walked if and only if it is that of a function at most depth  *)
(* calls away: a name leads on as any function of that name does.          *)
LEMMA SubtreeIsCovered == ExplorerInv => WalkCoversSubtree
<1> SUFFICES ASSUME ExplorerInv, pc = "done", whole, NEW n \in Names
             PROVE  n \in ToSet(order) <=>
                      \E f \in Fns, d \in Steps :
                         n = name[f] /\ d <= arg.depth /\ f \in Within(calls, arg.at)[d]
  BY DEF WalkCoversSubtree
<1> DEFINE at == arg.at
           W(m) == Within(calls, at)[m]
           N == Cardinality(Fns)
<1>1. /\ TypeOK /\ QueueInv /\ order \in Seq(Names) /\ Len(order) \in Nat /\ order # <<>> /\ i = Len(order)
      /\ at \in Fns /\ root = name[at] /\ edges = Named(CallsBelow(at, arg.depth)) /\ order[1] = root
      /\ name \in [Fns -> Names] /\ calls \subseteq Fns \X Fns /\ arg.depth \in Nat /\ N \in Nat /\ 0 \in Steps
  <2>1. TypeOK /\ QueueInv /\ StageInv /\ WholeInv
    BY DEF ExplorerInv
  <2>2. order # <<>> /\ i = Len(order) /\ at \in Fns /\ root = name[at] /\ edges = Named(CallsBelow(at, arg.depth))
    BY <2>1 DEF StageInv, WholeInv
  <2>3. order[1] = root
    BY <2>1, <2>2 DEF QueueInv
  <2>4. /\ order \in Seq(Names) /\ Len(order) \in Nat /\ name \in [Fns -> Names] /\ calls \in Graphs
        /\ arg.depth \in Depths \union {0}
    BY <2>1 DEF TypeOK
  <2>5. calls \subseteq Fns \X Fns /\ arg.depth \in Nat /\ N \in Nat /\ 0 \in Steps
    <3>1. calls \subseteq Fns \X Fns
      BY <2>4, GraphsAssumption DEF GraphsAssumption
    <3>2. arg.depth \in Nat
      <4>1. Depths \subseteq Nat
        BY NumbersAssumption DEF NumbersAssumption
      <4>2. Depths \union {0} \subseteq Nat
        BY <4>1
      <4>3. arg.depth \in Depths \union {0}
        BY <2>4
      <4> QED
        BY <4>2, <4>3
    <3> QED
      BY <3>1, <3>2, FnsAreFinite DEF Steps
  <2> QED
    BY <2>1, <2>2, <2>3, <2>4, <2>5
<1>2. /\ \A e \in calls, m \in Steps : m < arg.depth /\ e[1] \in W(m) => <<name[e[1]], name[e[2]]>> \in edges
      /\ \A d \in edges : \E e \in calls, m \in Steps :
             m < arg.depth /\ e[1] \in W(m) /\ d = <<name[e[1]], name[e[2]]>>
  BY <1>1 DEF Named, CallsBelow
<1>3. W(0) = {at}
  BY WithinIs
<1>4. \A m \in Nat : m < N =>
          \A x : x \in W(m + 1) <=> x \in W(m) \/ \E e \in calls : e[1] \in W(m) /\ x = e[2]
  BY WithinNext
<1>5. \A e \in calls : e[1] \in W(N) => e[2] \in W(N)
  <2>1. {at} \union LedTo(calls) \subseteq Fns
    BY <1>1 DEF LedTo
  <2>2. IsFiniteSet(Fns) /\ Cardinality(Fns) <= Cardinality(Fns) + 1
    BY FnsAreFinite
  <2> HIDE DEF at
  <2> QED
    BY <2>1, <2>2, EverythingIsWithin
<1> HIDE DEF W, N, at
<1>6. ASSUME n \in ToSet(order) PROVE \E f \in Fns, d \in Steps : n = name[f] /\ d <= arg.depth /\ f \in W(d)
  <2>1. PICK k \in 1 .. Len(order) : order[k] = n
    BY <1>1, <1>6 DEF ToSet
  <2>2. CASE k = 1
    BY <1>1, <1>3, <2>1, <2>2
  <2>3. CASE k # 1
    <3>1. k \in 2 .. Len(order)
      BY <1>1, <2>3
    <3>2. PICK p : <<order[p], order[k]>> \in edges
      BY <1>1, <3>1 DEF QueueInv, Leads
    <3>3. PICK e \in calls, m \in Steps :
              m < arg.depth /\ e[1] \in W(m) /\ <<order[p], order[k]>> = <<name[e[1]], name[e[2]]>>
      BY <1>2, <3>2
    <3>4. n = name[e[2]] /\ e[2] \in Fns
      BY <1>1, <2>1, <3>3
    <3>5. m \in Nat /\ m <= N
      BY <1>1 DEF Steps, N
    <3>6. CASE m < N
      <4>1. m + 1 \in Steps /\ m + 1 <= arg.depth /\ e[2] \in W(m + 1)
        <5>1. e[2] \in W(m + 1)
          BY <1>4, <3>3, <3>5, <3>6
        <5>2. m + 1 \in Steps
          BY <1>1, <3>5, <3>6 DEF Steps, N
        <5> QED
          BY <1>1, <3>3, <3>5, <5>1, <5>2
      <4> QED
        BY <3>4, <4>1
    <3>7. CASE m = N
      <4>1. e[2] \in W(m) /\ m <= arg.depth
        BY <1>1, <1>5, <3>3, <3>5, <3>7
      <4> QED
        BY <3>4, <4>1
    <3> QED
      BY <3>5, <3>6, <3>7, <1>1
  <2> QED
    BY <2>2, <2>3
<1> DEFINE T == {d \in Nat : d \in Steps /\ d <= arg.depth => \A f \in W(d) : name[f] \in ToSet(order)}
<1>7. 0 \in T
  <2>1. root \in ToSet(order)
    BY <1>1 DEF ToSet
  <2> QED
    BY <1>1, <1>3, <2>1
<1>8. ASSUME NEW d \in Nat, d \in T PROVE d + 1 \in T
  <2> SUFFICES ASSUME d + 1 \in Steps, d + 1 <= arg.depth, NEW f \in W(d + 1) PROVE name[f] \in ToSet(order)
    OBVIOUS
  <2>1. d \in Steps /\ d < arg.depth /\ d < N
    BY <1>1 DEF Steps, N
  <2>2. \A g \in W(d) : name[g] \in ToSet(order)
    BY <1>1, <1>8, <2>1
  <2>3. f \in W(d) \/ \E e \in calls : e[1] \in W(d) /\ f = e[2]
    BY <1>4, <2>1
  <2>4. ASSUME NEW e \in calls, e[1] \in W(d), f = e[2] PROVE name[f] \in ToSet(order)
    <3>1. <<name[e[1]], name[f]>> \in edges /\ name[f] \in Names
      BY <1>1, <1>2, <2>1, <2>4
    <3>2. PICK k \in 1 .. Len(order) : order[k] = name[e[1]]
      BY <1>1, <2>2, <2>4 DEF ToSet
    <3> QED
      BY <1>1, <3>1, <3>2 DEF QueueInv, Leads
  <2> QED
    BY <2>2, <2>3, <2>4
<1>9. Nat \subseteq T
  <2> HIDE DEF T
  <2> QED
    BY <1>7, <1>8, Induction
<1>10. ASSUME NEW f \in Fns, NEW d \in Steps, n = name[f], d <= arg.depth, f \in W(d) PROVE n \in ToSet(order)
  <2>1. d \in Nat /\ d \in T
    BY <1>1, <1>9 DEF Steps, N
  <2> QED
    BY <1>10, <2>1
<1> QED
  BY <1>6, <1>10 DEF W, at

(* For every graph, every limit and every way the reads can fail: what is  *)
(* decompiled and what is skipped are together what the edges lead to.     *)
THEOREM NothingLeftOutHolds == Spec => []NothingLeftOut
BY ExplorerInvHolds, NothingIsLeftOut, PTL

(* For every depth and every naming, names shared by several functions     *)
(* included.                                                               *)
THEOREM WalkCoversSubtreeHolds == Spec => []WalkCoversSubtree
BY ExplorerInvHolds, SubtreeIsCovered, PTL
=============================================================================
