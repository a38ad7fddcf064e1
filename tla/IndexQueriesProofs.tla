------------------------- MODULE IndexQueriesProofs -------------------------
(***************************************************************************)
(* Proofs about IndexQueries, for any programs, entries, names, call       *)
(* graphs, blocks and queries: the counts that queries go by, what         *)
(* ghidra_find replies and what ghidra_where says.  What is proved of the  *)
(* index itself is taken from FunctionIndexProofs.                         *)
(***************************************************************************)
EXTENDS IndexQueries, FunctionIndexProofs, FiniteSetTheorems, NaturalsInduction

-----------------------------------------------------------------------------
(* Finite sets of numbers and ranks.                                       *)

(* Some number of a set is the least.                                      *)
LEMMA LeastOf ==
  ASSUME NEW S, S \subseteq Nat, S # {}
  PROVE  \E m \in S : \A n \in S : m <= n
<1>1. PICK m \in S : \A n \in S : <<n, m>> \notin OpToRel(<, Nat)
  BY NatLessThanWellFounded, WFMin
<1>2. ASSUME NEW n \in S PROVE m <= n
  <2>1. n \in Nat /\ m \in Nat
    OBVIOUS
  <2>2. n < m => <<n, m>> \in OpToRel(<, Nat)
    BY <2>1 DEF OpToRel
  <2>3. ~(n < m)
    BY <1>1, <2>2
  <2> QED
    BY <2>1, <2>3
<1> QED
  BY <1>2

(* Some number of a bounded set is the greatest.                           *)
LEMMA GreatestOf ==
  ASSUME NEW S, NEW b \in Nat, S \subseteq 0 .. b, S # {}
  PROVE  \E m \in S : \A n \in S : n <= m
<1> DEFINE T == {n \in Nat : n <= b /\ b - n \in S}
<1>1. T \subseteq Nat /\ T # {}
  <2>1. PICK s \in S : TRUE
    OBVIOUS
  <2>2. b - s \in Nat /\ b - s <= b /\ b - (b - s) = s
    BY <2>1
  <2> QED
    BY <2>1, <2>2
<1>2. PICK k \in T : \A n \in T : k <= n
  <2> HIDE DEF T
  <2> QED
    BY <1>1, LeastOf
<1>3. b - k \in S /\ k \in Nat /\ k <= b
  OBVIOUS
<1>4. ASSUME NEW n \in S PROVE n <= b - k
  <2>1. b - n \in T
    OBVIOUS
  <2> QED
    BY <1>2, <1>3, <2>1
<1> QED
  BY <1>3, <1>4

\* R puts the elements of M in a row, and the first k of them.
Below(R, M, e)   == {d \in M : <<d, e>> \in R}
InARow(R, M)     ==
  /\ \A d, e \in M : d = e \/ <<d, e>> \in R \/ <<e, d>> \in R
  /\ \A d \in M : <<d, d>> \notin R
  /\ \A c, d, e \in M : <<c, d>> \in R /\ <<d, e>> \in R => <<c, e>> \in R
FirstOf(R, M, k) == {e \in M : Cardinality(Below(R, M, e)) < k}

LEMMA RankGrows ==
  ASSUME NEW R, NEW M, IsFiniteSet(M), InARow(R, M), NEW d \in M, NEW e \in M, <<d, e>> \in R
  PROVE  /\ Cardinality(Below(R, M, d)) \in Nat /\ Cardinality(Below(R, M, e)) \in Nat
         /\ Cardinality(Below(R, M, d)) < Cardinality(Below(R, M, e))
<1> DEFINE A == Below(R, M, d)
           B == Below(R, M, e)
<1>1. A \subseteq B /\ d \in B /\ d \notin A /\ A \subseteq M /\ B \subseteq M
  BY DEF Below, InARow
<1> HIDE DEF A, B
<1>2. IsFiniteSet(A) /\ IsFiniteSet(B) /\ Cardinality(A) \in Nat /\ Cardinality(B) \in Nat
  BY <1>1, FS_Subset, FS_CardinalityType
<1>3. Cardinality(A) <= Cardinality(B) /\ (Cardinality(A) = Cardinality(B) => A = B)
  BY <1>1, <1>2, FS_Subset
<1>4. Cardinality(A) < Cardinality(B)
  BY <1>1, <1>2, <1>3
<1> QED
  BY <1>2, <1>4 DEF A, B

(* If the first k are not all there are, there are k of them.              *)
LEMMA FirstAreMany ==
  ASSUME NEW R, NEW M, IsFiniteSet(M), InARow(R, M), NEW k \in Nat, FirstOf(R, M, k) # M
  PROVE  Cardinality(FirstOf(R, M, k)) = k
<1> DEFINE rank(e) == Cardinality(Below(R, M, e))
           S == FirstOf(R, M, k)
<1>0. \A e \in M : rank(e) \in Nat /\ IsFiniteSet(Below(R, M, e)) /\ Below(R, M, e) \subseteq M
  <2> SUFFICES ASSUME NEW e \in M PROVE rank(e) \in Nat /\ IsFiniteSet(Below(R, M, e)) /\ Below(R, M, e) \subseteq M
    OBVIOUS
  <2>1. Below(R, M, e) \subseteq M
    BY DEF Below
  <2> QED
    BY <2>1, FS_Subset, FS_CardinalityType
<1>1. \A d, e \in M : <<d, e>> \in R => rank(d) < rank(e)
  BY RankGrows
<1>2. \A e \in M : e \in S <=> rank(e) < k
  BY DEF FirstOf
<1>3. S \subseteq M /\ S # M
  BY DEF FirstOf
<1>4. /\ \A d, e \in M : d \in Below(R, M, e) <=> <<d, e>> \in R
      /\ \A d, e \in M : d = e \/ <<d, e>> \in R \/ <<e, d>> \in R
  BY DEF Below, InARow
<1> HIDE DEF rank, S
<1>5. IsFiniteSet(S) /\ Cardinality(S) \in Nat
  BY <1>3, FS_Subset, FS_CardinalityType
<1>6. Cardinality(S) >= k
  <2> DEFINE ranks == {rank(e) : e \in M \ S}
  <2>1. ranks \subseteq Nat /\ ranks # {}
    BY <1>0, <1>3
  <2>2. PICK m \in ranks : \A n \in ranks : m <= n
    <3> HIDE DEF ranks
    <3> QED
      BY <2>1, LeastOf
  <2>3. PICK e \in M \ S : m = rank(e)
    OBVIOUS
  <2>4. rank(e) >= k /\ rank(e) \in Nat
    BY <1>0, <1>2, <2>3
  <2>5. ASSUME NEW d \in Below(R, M, e) PROVE d \in S
    <3> SUFFICES ASSUME d \notin S PROVE FALSE
      OBVIOUS
    <3>1. d \in M /\ <<d, e>> \in R
      BY <1>0, <1>4, <2>3, <2>5
    <3>2. rank(d) < rank(e) /\ rank(d) \in Nat
      BY <1>0, <1>1, <2>3, <3>1
    <3>3. rank(d) \in ranks
      BY <3>1
    <3>4. m <= rank(d)
      <4> HIDE DEF ranks
      <4> QED
        BY <2>2, <3>3
    <3> QED
      BY <2>3, <2>4, <3>2, <3>4
  <2>6. Below(R, M, e) \subseteq S
    BY <2>5
  <2>7. Cardinality(Below(R, M, e)) <= Cardinality(S)
    BY <1>5, <2>6, FS_Subset
  <2> QED
    BY <1>5, <2>4, <2>7 DEF rank
<1>7. Cardinality(S) <= k
  <2>1. CASE S = {}
    BY <2>1, FS_EmptySet
  <2>2. CASE S # {}
    <3> DEFINE ranks == {rank(e) : e \in S}
    <3>1. ranks \subseteq 0 .. k /\ ranks # {}
      <4>1. \A e \in S : rank(e) \in 0 .. k
        BY <1>0, <1>2, <1>3
      <4> QED
        BY <2>2, <4>1
    <3>2. PICK m \in ranks : \A n \in ranks : n <= m
      <4> HIDE DEF ranks
      <4> QED
        BY <3>1, GreatestOf
    <3>3. PICK s \in S : m = rank(s)
      OBVIOUS
    <3>4. s \in M /\ rank(s) \in Nat /\ rank(s) < k
      BY <1>0, <1>2, <1>3
    <3>5. ASSUME NEW t \in S, t # s PROVE t \in Below(R, M, s)
      <4>1. t \in M /\ rank(t) \in Nat /\ rank(t) \in ranks
        BY <1>0, <1>3
      <4>2. rank(t) <= rank(s)
        <5> HIDE DEF ranks
        <5> QED
          BY <3>2, <3>3, <4>1
      <4>3. <<s, t>> \notin R
        BY <1>1, <3>4, <4>1, <4>2
      <4> QED
        BY <1>4, <3>4, <3>5, <4>1, <4>3
    <3>6. S \subseteq Below(R, M, s) \union {s} /\ IsFiniteSet(Below(R, M, s)) /\ s \notin Below(R, M, s)
      BY <1>0, <3>4, <3>5 DEF Below, InARow
    <3> DEFINE B == Below(R, M, s)
               C == B \union {s}
    <3>7. S \subseteq C /\ IsFiniteSet(B) /\ s \notin B /\ C = B \union {s} /\ Cardinality(B) = rank(s)
      BY <3>6 DEF rank
    <3> HIDE DEF B, C
    <3>8. IsFiniteSet(C) /\ Cardinality(C) = Cardinality(B) + 1
      BY <3>7, FS_AddElement
    <3>9. Cardinality(S) <= Cardinality(C)
      BY <3>7, <3>8, FS_Subset
    <3> QED
      BY <1>5, <3>4, <3>7, <3>8, <3>9
  <2> QED
    BY <2>1, <2>2
<1> QED
  BY <1>5, <1>6, <1>7 DEF S

-----------------------------------------------------------------------------
(* The index under the queries.                                            *)

(* Most steps are those of FunctionIndex; a blind move makes the index one *)
(* that something went past, and a reconnect brings a true one.            *)
LEMMA QStepIndexInv == IndexInv /\ QTypeOK /\ [QNext]_allVars => IndexInv'
<1> SUFFICES ASSUME IndexInv, QTypeOK, [QNext]_allVars PROVE IndexInv'
  OBVIOUS
<1>a. [Next]_vars => IndexInv'
  BY StepFrameInv, StepTruthInv DEF IndexInv
<1>1. CASE UNCHANGED allVars
  BY <1>1, <1>a DEF allVars
<1>2. CASE QRefresh
  BY <1>2, <1>a DEF QRefresh, Next, Refresh
<1>3. CASE Edit
  <2>1. CASE SendRename \/ SendDryRun \/ SendFails
    BY <2>1, <1>a DEF Next, Rename
  <2>2. CASE RenameComponents
    BY <2>2, <1>a DEF Next, OtherCall
  <2>3. ASSUME NEW e \in Entries, Delete(active, e) \/ \E n \in Names : Create(active, e, n) PROVE IndexInv'
    <3>1. active \in Programs
      BY DEF IndexInv, FrameInv, TypeOK
    <3>2. OtherCall
      BY <2>3, <3>1 DEF OtherCall
    <3> QED
      BY <1>a, <3>2 DEF Next
  <2>4. ASSUME NEW e \in Entries, NEW n \in Names, AskByAddress(NoProgram, e, n) PROVE IndexInv'
    <3>1. Ask
      BY <2>4 DEF Ask, Selectors
    <3> QED
      BY <1>a, <3>1 DEF Next
  <2> QED
    BY <1>3, <2>1, <2>2, <2>3, <2>4 DEF Edit
<1>4. ASSUME NEW p \in Programs, Move(p) PROVE IndexInv'
  <2>1. OtherCall
    BY <1>4 DEF Move, OtherCall
  <2> QED
    BY <1>a, <2>1 DEF Next
<1>5. ASSUME NEW p \in Programs, MoveBlind(p) PROVE IndexInv'
  <2>1. active' = p /\ stale' \in BOOLEAN /\ ~sure' /\ sure' \in BOOLEAN /\ UNCHANGED <<fns, rows, dupes, pc, job>>
    BY <1>5 DEF MoveBlind, callVars, IndexInv, FrameInv, TypeOK
  <2>2. FrameInv'
    BY <2>1 DEF IndexInv, FrameInv, TypeOK, JobInv, ThunksAgree
  <2> QED
    BY <2>1, <2>2, UnsureKeepsTruth DEF IndexInv
<1>6. CASE World
  BY <1>6, <1>a DEF World, Next
<1>7. ASSUME NEW q \in Queries, AskFind(q) PROVE IndexInv'
  <2>1. CASE stale
    <3>1. Find
      BY <1>7, <2>1 DEF AskFind, RebuiltIfStale, Idle, Find
    <3>2. OtherCall
      BY <3>1 DEF OtherCall
    <3> QED
      BY <1>a, <3>2 DEF Next
  <2>2. CASE ~stale
    BY <1>7, <1>a, <2>2 DEF AskFind, RebuiltIfStale, vars, callVars
  <2> QED
    BY <2>1, <2>2
<1>8. CASE LoadAnswered \/ LoadRefused \/ LoadRaises \/ Answer
  BY <1>8, <1>a DEF LoadAnswered, LoadRefused, LoadRaises, Answer
<1>9. ASSUME NEW a \in Addrs, AskWhere(a) PROVE IndexInv'
  BY <1>9, <1>a DEF AskWhere
<1>10. ASSUME NEW p \in Programs, LoadReconnects(p) PROVE IndexInv'
  <2>1. /\ active' = p /\ rows' = fns[p] /\ dupes' = Duplicates(fns[p]) /\ stale' = FALSE /\ sure' = TRUE
        /\ pc = "idle" /\ UNCHANGED <<fns, pc, job>>
    BY <1>10 DEF LoadReconnects, Loading, callVars
  <2>2. fns[p] \in Rows /\ ThunksAgree(fns[p]) /\ dupes' \in SUBSET Names
    BY <2>1 DEF IndexInv, FrameInv, TypeOK, Duplicates
  <2>3. FrameInv'
    BY <2>1, <2>2 DEF IndexInv, FrameInv, TypeOK, JobInv, ThunksAgree
  <2>4. PresenceInv' /\ IndexIsTrue'
    BY <2>1 DEF PresenceInv, IndexIsTrue
  <2>5. SharedInv'
    <3> SUFFICES ASSUME NEW d \in Entries, NEW e \in Entries, Group[d] = Group[e], d # e,
                        rows'[d] # NoFn, rows'[e] # NoFn
                 PROVE  rows'[d] \in dupes'
      BY DEF SharedInv
    <3>1. fns[p][d] = fns[p][e] /\ fns[p][d] \in Names
      BY <2>1, <2>2 DEF ThunksAgree, Rows
    <3> QED
      BY <2>1, <3>1 DEF Duplicates
  <2> QED
    BY <2>1, <2>3, <2>4, <2>5 DEF IndexInv, TruthInv, NoArbitraryRename
<1> QED
  BY <1>1, <1>2, <1>3, <1>4, <1>5, <1>6, <1>7, <1>8, <1>9, <1>10 DEF QNext, Load

-----------------------------------------------------------------------------
(* Types and control.                                                      *)

LEMMA CallsAreFinite ==
  ASSUME NEW p \in Programs, NEW E, E \subseteq Edges(p)
  PROVE  IsFiniteSet(E) /\ Cardinality(E) \in Nat
<1>1. IsFiniteSet(Entries)
  BY QueriesAssumption DEF QueriesAssumption
<1>2. E \subseteq Entries \X Entries
  BY QueriesAssumption DEF QueriesAssumption, Edges
<1>3. IsFiniteSet(Entries \X Entries)
  BY <1>1, FS_Product
<1> QED
  BY <1>2, <1>3, FS_Subset, FS_CardinalityType

LEMMA CountsAreNumbers == (\A p \in Programs : CountsBy(p) \in Counts) /\ NoEdges \in Counts
<1>1. ASSUME NEW p \in Programs PROVE CountsBy(p) \in Counts
  <2> DEFINE Outgoing(e) == {c \in Edges(p) : e \in OfName(fns[p][c[1]])}
             Incoming(e) == {c \in Edges(p) : e \in OfName(fns[p][c[2]])}
  <2>1. \A e \in Entries : Cardinality(Outgoing(e)) \in Nat /\ Cardinality(Incoming(e)) \in Nat
    <3> SUFFICES ASSUME NEW e \in Entries
                 PROVE  Cardinality(Outgoing(e)) \in Nat /\ Cardinality(Incoming(e)) \in Nat
      OBVIOUS
    <3>1. Outgoing(e) \subseteq Edges(p) /\ Incoming(e) \subseteq Edges(p)
      OBVIOUS
    <3> QED
      BY <3>1, CallsAreFinite
  <2>2. CountsBy(p) = [callees |-> [e \in Entries |-> Cardinality(Outgoing(e))],
                       callers |-> [e \in Entries |-> Cardinality(Incoming(e))]]
    BY DEF CountsBy
  <2> HIDE DEF Outgoing, Incoming
  <2> QED
    BY <2>1, <2>2 DEF Counts
<1>2. NoEdges \in Counts
  BY DEF NoEdges, Zero, Counts
<1> QED
  BY <1>1, <1>2

LEMMA QStepQueryInv == IndexInv /\ QueryInv /\ [QNext]_allVars => QueryInv'
<1> SUFFICES ASSUME IndexInv, QueryInv, [QNext]_allVars PROVE QueryInv'
  OBVIOUS
<1> USE DEF ghidraVars, indexVars, callVars, vars
<1>0. JobInv /\ active \in Programs
  BY DEF IndexInv, FrameInv, TypeOK
<1>1. CASE UNCHANGED allVars
  BY <1>1 DEF allVars, queryVars, QueryInv
<1>2. CASE QRefresh
  BY <1>2 DEF QRefresh, Rebuild, RebuildRefused, RebuildRaises, AfterRefresh, QueryInv
<1>3. CASE Edit
  <2>1. query = None /\ found' = None /\ where' = None /\ UNCHANGED <<query, placed, blocks, active>>
    BY <1>3 DEF Edit, Forget, SendRename, SendDryRun, SendFails, RenameComponents, Delete, Create, AskByAddress, Start
  <2>2. pc' \in {"idle", "byaddr", "refresh"} /\ (pc' = "refresh" => job' = NoJob)
    BY <1>0, <1>3 DEF Edit, Finish, SendRename, SendDryRun, SendFails, RenameComponents, Delete, Create, AskByAddress,
                      Start, QueryInv, JobInv
  <2> QED
    BY <2>1, <2>2 DEF QueryInv
<1>4. ASSUME NEW p \in Programs, Move(p) PROVE QueryInv'
  <2>1. query' = None /\ found' = None /\ where' = None /\ pc = "idle" /\ pc' = "refresh" /\ job' = job /\ active' = p
    BY <1>4 DEF Move, Switch, Connect, Forget
  <2>2. placed' = (blocks' = p)
    BY <1>4 DEF Move
  <2> QED
    BY <1>0, <2>1, <2>2 DEF QueryInv, JobInv
<1>5. ASSUME NEW p \in Programs, MoveBlind(p) PROVE QueryInv'
  BY <1>5 DEF MoveBlind, Idle, Forget, QueryInv
<1>6. CASE World
  <2>1. UNCHANGED <<rows, dupes, stale, pc, job, blocks, query>> /\ found' = None /\ where' = None
        /\ placed' = (placed /\ active' = active)
    BY <1>6 DEF World, Outside, OutsideSwitch, OutsideRename, OutsideCreate, OutsideDelete, Unheard, Forget
  <2> QED
    BY <2>1 DEF QueryInv
<1>7. ASSUME NEW q \in Queries, AskFind(q) PROVE QueryInv'
  <2>1. /\ pc = "idle" /\ found' = None /\ where' = None /\ UNCHANGED <<active, stale, job, blocks, placed>>
        /\ pc' = (IF stale THEN "refresh" ELSE pc)
    BY <1>7 DEF AskFind, Idle, RebuiltIfStale, Forget
  <2> QED
    BY <1>0, <2>1 DEF QueryInv, JobInv
<1>8. CASE LoadAnswered \/ LoadRefused \/ LoadRaises
  BY <1>8 DEF LoadAnswered, LoadRefused, LoadRaises, Loading, QueryInv
<1>9. CASE Answer
  BY <1>9 DEF Answer, QueryInv
<1>10. ASSUME NEW a \in Addrs, AskWhere(a) PROVE QueryInv'
  BY <1>10 DEF AskWhere, Idle, QueryInv
<1>11. ASSUME NEW p \in Programs, LoadReconnects(p) PROVE QueryInv'
  BY <1>11 DEF LoadReconnects, Loading, QueryInv
<1> QED
  BY <1>1, <1>2, <1>3, <1>4, <1>5, <1>6, <1>7, <1>8, <1>9, <1>10, <1>11 DEF QNext, Load

\* A reply is of a moment: in the next step there is a new one or none.
LEMMA RepliesPass ==
  ASSUME QueryInv, QNext
  PROVE  /\ found' # None => Answer
         /\ where' # None => \E a \in Addrs : AskWhere(a)
<1>1. CASE QRefresh
  BY <1>1 DEF QRefresh, Rebuild, RebuildRefused, RebuildRaises, QueryInv
<1>2. CASE Edit
  BY <1>2 DEF Edit, Forget
<1>3. ASSUME NEW p \in Programs, Move(p) \/ MoveBlind(p) PROVE found' = None /\ where' = None
  BY <1>3 DEF Move, MoveBlind, Forget
<1>4. CASE World
  BY <1>4 DEF World, Forget
<1>5. ASSUME NEW q \in Queries, AskFind(q) PROVE found' = None /\ where' = None
  BY <1>5 DEF AskFind, Forget
<1>6. CASE LoadAnswered \/ LoadRefused \/ LoadRaises
  BY <1>6 DEF LoadAnswered, LoadRefused, LoadRaises, Loading, QueryInv
<1>7. CASE Answer
  BY <1>7 DEF Answer, QueryInv
<1>8. ASSUME NEW a \in Addrs, AskWhere(a) PROVE found' = None
  BY <1>8 DEF AskWhere
<1>9. ASSUME NEW p \in Programs, LoadReconnects(p) PROVE found' = None /\ where' = None
  BY <1>9 DEF LoadReconnects, Loading, QueryInv
<1> QED
  BY <1>1, <1>2, <1>3, <1>4, <1>5, <1>6, <1>7, <1>8, <1>9 DEF QNext, Load

-----------------------------------------------------------------------------
(* The counts.                                                             *)

(* By the names of any index the edges of a function that it has under the *)
(* name it has in the program, and nobody else in either, are counted for  *)
(* it.                                                                     *)
LEMMA CountedByName ==
  ASSUME TypeOK, NEW p \in Programs, NEW e \in KnownIn(p)
  PROVE  /\ CountsBy(p).callees[e] = Cardinality({c \in Edges(p) : c[1] = e})
         /\ CountsBy(p).callers[e] = Cardinality({c \in Edges(p) : c[2] = e})
<1>1. /\ e \in Entries /\ rows[e] = fns[p][e]
      /\ \A d \in Entries : d # e => rows[d] # rows[e] /\ fns[p][d] # fns[p][e]
  BY DEF KnownIn
<1>2. \A d \in Entries : e \in OfName(fns[p][d]) <=> d = e
  <2>1. \A d \in Entries : e \in OfName(fns[p][d]) => d = e
    BY <1>1 DEF OfName, Named
  <2>2. e \in OfName(fns[p][e])
    BY <1>1, EntriesAssumption DEF EntriesAssumption, OfName, Named
  <2> QED
    BY <2>1, <2>2
<1>3. \A c \in Edges(p) : c[1] \in Entries /\ c[2] \in Entries
  BY QueriesAssumption DEF QueriesAssumption, Edges, TypeOK
<1>4. /\ {c \in Edges(p) : e \in OfName(fns[p][c[1]])} = {c \in Edges(p) : c[1] = e}
      /\ {c \in Edges(p) : e \in OfName(fns[p][c[2]])} = {c \in Edges(p) : c[2] = e}
  BY <1>2, <1>3
<1> QED
  BY <1>1, <1>4 DEF CountsBy

(* A rename leaves every function where it is.                             *)
LEMMA RenamedIsPresent ==
  ASSUME TypeOK, NEW p \in Programs, NEW e \in Entries, NEW n \in Names, RenameIn(p, e, n)
  PROVE  \A d \in Entries, q \in Programs : fns'[q][d] = NoFn <=> fns[q][d] = NoFn
<1>1. fns' = [fns EXCEPT ![p] = Renamed(fns[p], e, n)] /\ n # NoFn
  BY ConstantsAssumption DEF ConstantsAssumption, RenameIn
<1>2. \A d \in Entries : Renamed(fns[p], e, n)[d] = NoFn <=> fns[p][d] = NoFn
  BY <1>1 DEF Renamed
<1> QED
  BY <1>1, <1>2 DEF TypeOK

(* Whatever keeps the functions where they are keeps the true counts.      *)
LEMMA SameFunctionsSameCounts ==
  ASSUME active' = active, active \in Programs,
         \A d \in Entries : fns'[active][d] = NoFn <=> fns[active][d] = NoFn,
         CountsAreOfRows, Settled, sure, UNCHANGED <<counts, known, refused>>
  PROVE  CountsAreOfRows'
<1>1. Calls[active] \subseteq Entries \X Entries
  BY QueriesAssumption DEF QueriesAssumption
<1>2. Edges(active)' = Edges(active)
  BY <1>1 DEF Edges
<1>3. \A e : Callees(e)' = Callees(e) /\ Callers(e)' = Callers(e)
  BY <1>2 DEF Callees, Callers
<1> QED
  BY <1>3 DEF CountsAreOfRows

LEMMA QStepCounts == IndexInv /\ QueryInv /\ CountsAreOfRows /\ [QNext]_allVars => CountsAreOfRows'
<1> SUFFICES ASSUME IndexInv, QueryInv, CountsAreOfRows, [QNext]_allVars, counts' # None, Settled', sure'
             PROVE  CountsAreOfRows'
  BY DEF CountsAreOfRows
<1> USE DEF ghidraVars, indexVars, callVars, vars
<1>0. TypeOK /\ JobInv /\ active \in Programs /\ fns[active] \in Rows
  BY DEF IndexInv, FrameInv, TypeOK
<1>g. GhostsOfCounts => UNCHANGED <<known, refused>>
  BY DEF GhostsOfCounts
<1>a. UNCHANGED <<fns, active, counts, known, refused>> /\ Settled /\ sure => CountsAreOfRows'
  BY <1>0, SameFunctionsSameCounts
<1>1. CASE UNCHANGED allVars
  BY <1>1, <1>a DEF allVars, queryVars, Settled
<1>2. CASE QRefresh
  BY <1>2 DEF QRefresh, CountsDropped, RebuildRaises
<1>3. CASE Edit
  <2>1. UNCHANGED <<active, counts, known, refused>> /\ Settled
    BY <1>3, <1>g DEF Edit, Settled, Sending, SendRename, SendDryRun, SendFails, RenameComponents, Delete, Create,
                AskByAddress, Start
  <2>2. CASE SendRename
    <3>1. sure /\ Target(job) = active
      BY <2>2 DEF SendRename
    <3>2. job # NoJob
      BY <1>0, <2>2, ConstantsAssumption DEF ConstantsAssumption, SendRename, Sending, JobInv, NoJob
    <3>3. Candidates \subseteq Entries /\ job.new \in Names
      BY <1>0, <3>2 DEF Candidates, JobInv, Named
    <3>4. PICK e \in Entries : RenameIn(active, e, job.new)
      BY <2>2, <3>1, <3>3 DEF SendRename
    <3> QED
      BY <1>0, <2>1, <3>1, <3>3, <3>4, RenamedIsPresent, SameFunctionsSameCounts
  <2>3. CASE SendDryRun \/ SendFails \/ RenameComponents
    BY <1>a, <2>1, <2>3 DEF SendDryRun, SendFails, RenameComponents
  <2>4. ASSUME NEW e \in Entries, Delete(active, e) \/ \E n \in Names : Create(active, e, n) PROVE FALSE
    BY <2>4 DEF Delete, Create, Settled
  <2>5. ASSUME NEW e \in Entries, NEW n \in Names, AskByAddress(NoProgram, e, n) PROVE CountsAreOfRows'
    BY <1>a, <2>1, <2>5 DEF AskByAddress, Start
  <2> QED
    BY <1>3, <2>2, <2>3, <2>4, <2>5 DEF Edit
<1>4. ASSUME NEW p \in Programs, Move(p) \/ MoveBlind(p) PROVE FALSE
  BY <1>4 DEF Move, MoveBlind, Switch, Connect, Settled
<1>5. CASE World
  <2>1. UNCHANGED <<counts, known, refused, pc>> /\ sure
    BY <1>5, <1>g DEF World, Outside, OutsideSwitch, OutsideRename, OutsideCreate, OutsideDelete, Unheard
  <2>2. active' = active /\ fns'[active] = fns[active]
    BY <1>0, <1>5 DEF World, Outside, OutsideSwitch, OutsideRename, OutsideCreate, OutsideDelete, Unheard,
                      RenameIn, CreateIn, DeleteIn, TypeOK
  <2> QED
    BY <1>0, <2>1, <2>2, SameFunctionsSameCounts DEF Settled
<1>6. ASSUME NEW q \in Queries, AskFind(q) PROVE CountsAreOfRows'
  BY <1>6, <1>a DEF AskFind, Idle, Settled
<1>7. CASE LoadAnswered
  <2>1. counts' = CountsBy(active) /\ known' = KnownIn(active) /\ UNCHANGED <<fns, active>>
    BY <1>7 DEF LoadAnswered
  <2>2. \A e : Callees(e)' = Callees(e) /\ Callers(e)' = Callers(e)
    BY <2>1 DEF Callees, Callers, Edges
  <2>3. \A e \in KnownIn(active) :
           CountsBy(active).callees[e] = Callees(e) /\ CountsBy(active).callers[e] = Callers(e)
    BY <1>0, CountedByName DEF Callees, Callers
  <2> QED
    BY <2>1, <2>2, <2>3 DEF CountsAreOfRows
<1>8. CASE LoadRefused
  BY <1>8 DEF LoadRefused, CountsAreOfRows
<1>9. CASE LoadRaises \/ Answer
  BY <1>9, <1>a DEF LoadRaises, Loading, Answer, Settled
<1>10. ASSUME NEW a \in Addrs, AskWhere(a) PROVE CountsAreOfRows'
  BY <1>10, <1>a DEF AskWhere, Settled
<1>11. ASSUME NEW p \in Programs, LoadReconnects(p) PROVE CountsAreOfRows'
  <2>1. counts' = CountsBy(p) /\ known' = KnownIn(p) /\ active' = p /\ fns' = fns
    BY <1>11 DEF LoadReconnects
  <2>2. \A e : /\ Callees(e)' = Cardinality({c \in Edges(p) : c[1] = e})
              /\ Callers(e)' = Cardinality({c \in Edges(p) : c[2] = e})
    BY <2>1 DEF Callees, Callers, Edges
  <2>3. \A e \in KnownIn(p) : /\ CountsBy(p).callees[e] = Cardinality({c \in Edges(p) : c[1] = e})
                             /\ CountsBy(p).callers[e] = Cardinality({c \in Edges(p) : c[2] = e})
    BY <1>0, CountedByName
  <2> QED
    BY <2>1, <2>2, <2>3 DEF CountsAreOfRows
<1> QED
  BY <1>1, <1>2, <1>3, <1>4, <1>5, <1>6, <1>7, <1>8, <1>9, <1>10, <1>11 DEF QNext, Load

-----------------------------------------------------------------------------
(* The reply of ghidra_find.                                               *)

\* The order of the rows, as a set of pairs.
Order(q) == {c \in Entries \X Entries : Before(q, c[1], c[2])}

LEMMA RowsAreInOrder ==
  ASSUME NEW q, q.sort => counts \in Counts
  PROVE  /\ InARow(Order(q), Matching(q)) /\ IsFiniteSet(Matching(q))
         /\ \A k : FirstOf(Order(q), Matching(q), k) = {e \in Matching(q) : Cardinality({d \in Matching(q) : Before(q, d, e)}) < k}
<1>1. Matching(q) \subseteq Entries
  BY DEF Matching, Region
<1>2. IsFiniteSet(Matching(q))
  BY <1>1, QueriesAssumption, FS_Subset DEF QueriesAssumption
<1>3. \A d, e \in Matching(q) : <<d, e>> \in Order(q) <=> Before(q, d, e)
  BY <1>1 DEF Order
<1>4. \A d, e \in Entries : d \in Nat /\ e \in Nat /\ (q.sort => counts.callers[d] \in Nat /\ counts.callers[e] \in Nat)
  BY EntriesAssumption DEF EntriesAssumption, Counts
<1>5. \A d, e \in Entries : d = e \/ Before(q, d, e) \/ Before(q, e, d)
  BY <1>4 DEF Before
<1>6. \A d \in Entries : ~Before(q, d, d)
  BY <1>4 DEF Before
<1>7. \A c, d, e \in Entries : Before(q, c, d) /\ Before(q, d, e) => Before(q, c, e)
  BY <1>4 DEF Before
<1>8. InARow(Order(q), Matching(q))
  BY <1>1, <1>3, <1>5, <1>6, <1>7 DEF InARow
<1>9. \A e \in Matching(q) : Below(Order(q), Matching(q), e) = {d \in Matching(q) : Before(q, d, e)}
  BY <1>3 DEF Below
<1> QED
  BY <1>2, <1>8, <1>9 DEF FirstOf

(* What is not shown comes after what is.                                  *)
LEMMA ShownComeFirst ==
  ASSUME NEW R, NEW M, IsFiniteSet(M), InARow(R, M), NEW k \in Nat,
         NEW e \in FirstOf(R, M, k), NEW d \in M \ FirstOf(R, M, k)
  PROVE  <<d, e>> \notin R
<1> SUFFICES ASSUME <<d, e>> \in R PROVE FALSE
  OBVIOUS
<1>1. e \in M /\ Cardinality(Below(R, M, e)) < k
  BY DEF FirstOf
<1>2. ~(Cardinality(Below(R, M, d)) < k)
  BY DEF FirstOf
<1>3. /\ Cardinality(Below(R, M, d)) \in Nat /\ Cardinality(Below(R, M, e)) \in Nat
      /\ Cardinality(Below(R, M, d)) < Cardinality(Below(R, M, e))
  BY <1>1, RankGrows
<1> QED
  BY <1>1, <1>2, <1>3

(* A match satisfies the query, if the index and the blocks are true.      *)
LEMMA MatchesSatisfy ==
  ASSUME IndexInv, QTypeOK, QueryInv, CountsAreOfRows, pc = "idle", query # None, ~Loading, sure,
         query.region = "block" => placed, query.counted => ~refused,
         NEW e \in IF query.counted THEN known ELSE Entries
  PROVE  e \in Matching(query) <=> Satisfies(query, e)
<1>1. rows = fns[active]
  BY DEF QueryInv, IndexInv, TruthInv, IndexIsTrue, Settled
<1>2. query \in Queries /\ query.region \in {"all", "block"} /\ query.counted \in BOOLEAN
  BY QueriesAssumption DEF QueriesAssumption, QTypeOK
<1>3. e \in Entries /\ (query.counted => e \in known)
  BY <1>2 DEF QTypeOK
<1>4. e \in Region(query) <=> (query.region = "block" => e \in Mapped[active])
  <2>1. CASE query.region = "all"
    BY <1>3, <2>1 DEF Region
  <2>2. CASE query.region = "block"
    <3>1. blocks = active /\ blocks # NoProgram
      BY <2>2, ConstantsAssumption DEF ConstantsAssumption, QueryInv, IndexInv, FrameInv, TypeOK
    <3> QED
      BY <1>3, <2>2, <3>1 DEF Region
  <2> QED
    BY <1>2, <2>1, <2>2
<1>5. query.counted => counts.callees[e] = Callees(e) /\ counts.callers[e] = Callers(e)
  BY <1>3 DEF Loading, CountsAreOfRows, Settled
<1> QED
  BY <1>1, <1>3, <1>4, <1>5 DEF Matching, Satisfies

LEMMA AnswerIsExact ==
  ASSUME IndexInv, QTypeOK, QueryInv, CountsAreOfRows, Answer
  PROVE  FindIsExact'
<1>1. PICK q : q = query
  OBVIOUS
<1>2. PICK M : M = Matching(query)
  OBVIOUS
<1>3. PICK S : S = Shown(query)
  OBVIOUS
<1>4. /\ pc = "idle" /\ query # None /\ ~Loading /\ found' = [query |-> q, matches |-> M, shown |-> S]
      /\ UNCHANGED <<fns, active, sure, counts, placed, known, refused>>
  BY <1>1, <1>2, <1>3 DEF Answer, vars, ghidraVars, indexVars, callVars
<1>5. /\ q \in Queries /\ q.limit \in Nat /\ q.sort \in BOOLEAN /\ q.counted \in BOOLEAN
      /\ q.sort => q.counted
  BY <1>1, <1>4, QueriesAssumption DEF QueriesAssumption, QTypeOK
<1>6. q.sort => counts \in Counts
  BY <1>1, <1>4, <1>5 DEF Loading, QTypeOK
<1>7. /\ InARow(Order(q), M) /\ IsFiniteSet(M)
      /\ S = FirstOf(Order(q), M, q.limit)
  <2>1. /\ InARow(Order(q), Matching(q)) /\ IsFiniteSet(Matching(q))
        /\ FirstOf(Order(q), Matching(q), q.limit) =
             {e \in Matching(q) : Cardinality({d \in Matching(q) : Before(q, d, e)}) < q.limit}
    BY <1>6, RowsAreInOrder
  <2> QED
    BY <1>1, <1>2, <1>3, <2>1 DEF Shown
<1>8. ASSUME NEW e PROVE Satisfies(q, e)' <=> Satisfies(q, e)
  <2>1. Edges(active)' = Edges(active)
    BY <1>4 DEF Edges
  <2>2. Callees(e)' = Callees(e) /\ Callers(e)' = Callers(e)
    BY <2>1 DEF Callees, Callers
  <2> QED
    BY <1>4, <2>2 DEF Satisfies
<1>9. sure /\ (q.region = "block" => placed) /\ (q.counted => ~refused) =>
        \A e \in IF q.counted THEN known ELSE Entries : e \in M <=> Satisfies(q, e)
  BY <1>1, <1>2, <1>4, MatchesSatisfy
<1>10. S # M => Cardinality(S) = q.limit
  BY <1>5, <1>7, FirstAreMany
<1>11. ASSUME q.counted, q.sort, NEW e \in S, NEW d \in M \ S
       PROVE  counts.callers[d] <= counts.callers[e]
  <2>1. <<d, e>> \notin Order(q)
    BY <1>5, <1>7, <1>11, ShownComeFirst
  <2>2. d \in Entries /\ e \in Entries
    BY <1>2, <1>7, <1>11 DEF FirstOf, Matching, Region
  <2>3. ~Before(q, d, e)
    BY <2>1, <2>2 DEF Order
  <2>4. counts.callers[d] \in Nat /\ counts.callers[e] \in Nat
    BY <1>6, <1>11, <2>2 DEF Counts
  <2> QED
    BY <1>11, <2>3, <2>4 DEF Before
<1>12. /\ found'.query = q /\ found'.matches = M /\ found'.shown = S
       /\ sure' = sure /\ placed' = placed /\ known' = known /\ refused' = refused /\ counts' = counts
  BY <1>4
<1> HIDE <1>1, <1>2, <1>3, <1>4
<1> QED
  BY <1>8, <1>9, <1>10, <1>11, <1>12 DEF FindIsExact

-----------------------------------------------------------------------------
(* The reply of ghidra_where.                                              *)

(* Where there are rows at or before an address, the last of them is named. *)
LEMMA PreviousIsLast ==
  ASSUME NEW a \in Addrs, NEW c \in Entries, c <= a, rows[c] # NoFn
  PROVE  Previous(a) # {}
<1> DEFINE S == {e \in Entries : e <= a /\ rows[e] # NoFn}
<1>1. a \in Nat
  BY QueriesAssumption DEF QueriesAssumption, Addrs
<1>2. S \subseteq 0 .. a /\ S # {}
  <2>1. c \in S
    OBVIOUS
  <2>2. \A e \in S : e \in Nat /\ e <= a
    BY EntriesAssumption DEF EntriesAssumption
  <2>3. \A e \in S : e \in 0 .. a
    BY <1>1, <2>2
  <2> HIDE DEF S
  <2> QED
    BY <2>1, <2>3
<1>3. PICK m \in S : \A n \in S : n <= m
  BY <1>1, <1>2, GreatestOf
<1>4. m \in Previous(a)
  BY <1>3 DEF Previous
<1> QED
  BY <1>4

(* What describe says is true if it is known where the functions are and   *)
(* the blocks are those of the program.                                    *)
LEMMA DescribedIsTrue ==
  ASSUME TypeOK, blocks = active, \A e \in Entries : rows[e] = NoFn <=> fns[active][e] = NoFn,
         NEW a \in Addrs
  PROVE  /\ Described(a).at = a
         /\ Described(a).mapped <=> a \in Mapped[active]
         /\ Described(a).mapped /\ ~Described(a).function =>
               \A e \in Entries : e <= a /\ fns[active][e] # NoFn =>
                   Described(a).previous # NoFn /\ e <= Described(a).previous
         /\ Described(a).previous # NoFn =>
               /\ Described(a).previous <= a /\ fns[active][Described(a).previous] # NoFn
               /\ Described(a).name = rows[Described(a).previous]
<1> DEFINE inBlock == a \in Mapped[blocks]
           here    == a \in Entries /\ fns[active][a] # NoFn
           chosen  == IF inBlock /\ ~here /\ Previous(a) # {} THEN CHOOSE e \in Previous(a) : TRUE ELSE NoFn
           called  == IF chosen = NoFn THEN NoFn ELSE rows[chosen]
<1>1. Described(a) = [at |-> a, mapped |-> inBlock, function |-> here, previous |-> chosen, name |-> called]
  BY DEF Described
<1>2. inBlock /\ ~here /\ Previous(a) # {} => chosen \in Previous(a)
  OBVIOUS
<1>3. chosen # NoFn => chosen \in Previous(a)
  OBVIOUS
<1>4. NoFn \notin Entries
  BY ConstantsAssumption DEF ConstantsAssumption
<1>d. chosen # NoFn => called = rows[chosen]
  OBVIOUS
<1> HIDE DEF chosen, called
<1>a. PICK y \in BOOLEAN : y = (a \in Mapped[blocks])
  <2>1. (a \in Mapped[blocks]) \in BOOLEAN
    OBVIOUS
  <2> QED
    BY <2>1, Zenon
<1>b. PICK z \in BOOLEAN : z = (a \in Entries /\ fns[active][a] # NoFn)
  OBVIOUS
<1>c. Described(a) = [at |-> a, mapped |-> y, function |-> z, previous |-> chosen, name |-> called]
  BY <1>1, <1>a, <1>b, Zenon
<1>0. Described(a).mapped = y /\ Described(a).function = z
  BY <1>c
<1>7. Described(a).previous # NoFn =>
         /\ Described(a).previous <= a /\ fns[active][Described(a).previous] # NoFn
         /\ Described(a).name = rows[Described(a).previous]
  <2>1. Described(a).previous = chosen /\ Described(a).name = called
    BY <1>c
  <2>2. chosen # NoFn => chosen \in Previous(a)
    BY <1>3
  <2> QED
    BY <1>d, <2>1, <2>2 DEF Previous
<1>8. ASSUME Described(a).mapped, ~Described(a).function, NEW e \in Entries, e <= a, fns[active][e] # NoFn
      PROVE  Described(a).previous # NoFn /\ e <= Described(a).previous
  <2>1. rows[e] # NoFn
    BY <1>8
  <2>2. Previous(a) # {}
    BY <1>8, <2>1, PreviousIsLast
  <2>3. chosen \in Previous(a)
    <3>1. a \in Mapped[blocks] /\ ~(a \in Entries /\ fns[active][a] # NoFn)
      BY <1>a, <1>b, <1>0, <1>8, Zenon
    <3> QED
      BY <1>2, <2>2, <3>1
  <2> QED
    BY <1>1, <1>4, <1>8, <2>1, <2>3 DEF Previous
<1>9. Described(a).at = a
  BY <1>1
<1>10. Described(a).mapped <=> a \in Mapped[active]
  BY <1>a, <1>0, Zenon
<1> QED
  BY <1>7, <1>8, <1>9, <1>10

LEMMA WhereTypes ==
  ASSUME TypeOK, NEW a \in Addrs
  PROVE  /\ Described(a).at \in Addrs /\ Described(a).previous \in Entries \union {NoFn}
         /\ Described(a).name \in Names \union {NoFn}
<1>1. Previous(a) \subseteq Entries
  BY DEF Previous
<1>2. \A e \in Entries : rows[e] \in Names \union {NoFn}
  BY DEF TypeOK, Rows
<1> QED
  BY <1>1, <1>2 DEF Described

LEMMA AskWhereIsTrue ==
  ASSUME IndexInv, QueryInv, NEW a \in Addrs, AskWhere(a)
  PROVE  WhereIsTrue'
<1>1. PICK w : w = Described(a)
  OBVIOUS
<1>2. /\ pc = "idle" /\ where' = w
      /\ UNCHANGED <<fns, active, stale, sure, placed>>
  BY <1>1 DEF AskWhere, Idle, vars, ghidraVars, indexVars
<1> SUFFICES ASSUME sure, placed
    PROVE /\ w.mapped <=> w.at \in Mapped[active]
          /\ w.mapped /\ ~w.function =>
               \A e \in Entries : e <= w.at /\ fns[active][e] # NoFn =>
                   w.previous # NoFn /\ e <= w.previous
          /\ w.previous # NoFn => w.previous <= w.at /\ fns[active][w.previous] # NoFn
          /\ w.previous # NoFn /\ ~stale => w.name = fns[active][w.previous]
  <2> DEFINE U == w.mapped <=> w.at \in Mapped[active]
             V == w.mapped /\ ~w.function =>
                     \A e \in Entries : e <= w.at /\ fns[active][e] # NoFn =>
                         w.previous # NoFn /\ e <= w.previous
             X == w.previous # NoFn => w.previous <= w.at /\ fns[active][w.previous] # NoFn
             Y == w.previous # NoFn /\ ~stale => w.name = fns[active][w.previous]
  <2>1. U /\ V /\ X /\ Y =>
        /\ where'.mapped <=> where'.at \in Mapped[active']
        /\ where'.mapped /\ ~where'.function =>
               \A e \in Entries : e <= where'.at /\ fns'[active'][e] # NoFn =>
                   where'.previous # NoFn /\ e <= where'.previous
        /\ where'.previous # NoFn =>
               /\ where'.previous <= where'.at /\ fns'[active'][where'.previous] # NoFn
               /\ ~stale' => where'.name = fns'[active'][where'.previous]
    BY <1>2
  <2> HIDE DEF U, V, X, Y
  <2>2. sure /\ placed => U /\ V /\ X /\ Y
    BY DEF U, V, X, Y
  <2>3. sure' = sure /\ placed' = placed
    BY <1>2
  <2> QED
    BY <2>1, <2>2, <2>3, Zenon DEF WhereIsTrue
<1>3. \A e \in Entries : rows[e] = NoFn <=> fns[active][e] = NoFn
  BY <1>2 DEF IndexInv, TruthInv, PresenceInv, Settled
<1>4. TypeOK /\ blocks = active
  BY DEF IndexInv, FrameInv, QueryInv
<1>5. ~stale => rows = fns[active]
  BY <1>2 DEF IndexInv, TruthInv, IndexIsTrue, Settled
<1> QED
  BY <1>1, <1>3, <1>4, <1>5, DescribedIsTrue

-----------------------------------------------------------------------------
(* The invariant.                                                          *)

LEMMA QStepTypes == QueriesInv /\ IndexInv' /\ [QNext]_allVars => QTypeOK'
<1> SUFFICES ASSUME QueriesInv, IndexInv', [QNext]_allVars PROVE QTypeOK'
  OBVIOUS
<1> USE DEF vars, ghidraVars, indexVars, callVars
<1>0. TypeOK' /\ TypeOK /\ QTypeOK /\ QueryInv
  BY DEF QueriesInv, IndexInv, FrameInv
<1>1. counts' \in Counts \union {counts, None}
  BY <1>0, CountsAreNumbers DEF QNext, allVars, queryVars, QRefresh, CountsDropped, RebuildRaises, Edit, Move, MoveBlind,
     World, AskFind, Load, LoadAnswered, LoadRefused, LoadRaises, LoadReconnects, Answer, AskWhere, TypeOK
<1>2. query' \in Queries \union {query, None}
  BY DEF QNext, allVars, queryVars, QRefresh, CountsDropped, RebuildRaises, Edit, Move, MoveBlind,
     World, AskFind, Load, LoadAnswered, LoadRefused, LoadRaises, LoadReconnects, Answer, AskWhere
<1>3. blocks' \in Programs \union {blocks, NoProgram}
  BY DEF QNext, allVars, queryVars, QRefresh, CountsDropped, RebuildRaises, Edit, Move, MoveBlind,
     World, AskFind, Load, LoadAnswered, LoadRefused, LoadRaises, LoadReconnects, Answer, AskWhere
<1>4. known' \subseteq Entries /\ refused' \in BOOLEAN
  <2>1. known \subseteq Entries /\ refused \in BOOLEAN
    BY <1>0 DEF QTypeOK
  <2>2. \A p : KnownIn(p) \subseteq Entries
    BY DEF KnownIn
  <2>3. GhostsOfCounts => known' \in {known, {}} /\ refused' \in {refused, FALSE}
    BY DEF GhostsOfCounts
  <2>4. CASE LoadAnswered \/ LoadRefused \/ \E p \in Programs : LoadReconnects(p)
    BY <2>2, <2>4 DEF LoadAnswered, LoadRefused, LoadReconnects
  <2>5. GhostsOfCounts \/ UNCHANGED <<known, refused>> \/ LoadAnswered \/ LoadRefused
          \/ \E p \in Programs : LoadReconnects(p)
    BY DEF QNext, allVars, queryVars, QRefresh, Edit, Move, MoveBlind, World, AskFind, Load, LoadRaises, Answer, AskWhere
  <2> QED
    BY <2>1, <2>3, <2>4, <2>5
<1>5. placed' \in BOOLEAN
  <2>1. ASSUME NEW p \in Programs, Move(p) PROVE placed' \in BOOLEAN
    BY <2>1, Zenon DEF Move
  <2>2. CASE World
    BY <2>2, Zenon DEF World
  <2>3. placed' \in {placed, TRUE, FALSE} \/ World \/ \E p \in Programs : Move(p)
    BY DEF QNext, allVars, queryVars, QRefresh, CountsDropped, RebuildRaises, Edit, MoveBlind,
     AskFind, Load, LoadAnswered, LoadRefused, LoadRaises, LoadReconnects, Answer, AskWhere
  <2>4. placed \in BOOLEAN
    BY <1>0 DEF QTypeOK
  <2> QED
    BY <2>1, <2>2, <2>3, <2>4
<1>6. found' = None \/ (found'.matches \subseteq Entries /\ found'.shown \subseteq found'.matches)
  <2>1. CASE Answer
    <3>1. PICK q, M, S : q = query /\ M = Matching(query) /\ S = Shown(query)
      OBVIOUS
    <3>2. M \subseteq Entries /\ S \subseteq M
      BY <3>1 DEF Matching, Region, Shown
    <3>3. found' = [query |-> q, matches |-> M, shown |-> S]
      BY <2>1, <3>1 DEF Answer
    <3> QED
      BY <3>2, <3>3
  <2>2. CASE UNCHANGED allVars
    BY <1>0, <2>2 DEF allVars, queryVars, QTypeOK
  <2> QED
    BY <1>0, <2>1, <2>2, RepliesPass
<1>7. where' = None \/ (/\ where'.at \in Addrs /\ where'.previous \in Entries \union {NoFn}
                        /\ where'.name \in Names \union {NoFn})
  <2>1. ASSUME NEW a \in Addrs, AskWhere(a)
        PROVE  where'.at \in Addrs /\ where'.previous \in Entries \union {NoFn} /\ where'.name \in Names \union {NoFn}
    BY <1>0, <2>1, WhereTypes DEF AskWhere
  <2>2. CASE UNCHANGED allVars
    BY <1>0, <2>2 DEF allVars, queryVars, QTypeOK
  <2> QED
    BY <1>0, <2>1, <2>2, RepliesPass
<1> QED
  BY <1>0, <1>1, <1>2, <1>3, <1>4, <1>5, <1>6, <1>7 DEF QTypeOK

LEMMA QStepReplies == QueriesInv /\ [QNext]_allVars => FindIsExact' /\ WhereIsTrue'
<1> SUFFICES ASSUME QueriesInv, [QNext]_allVars PROVE FindIsExact' /\ WhereIsTrue'
  OBVIOUS
<1> USE DEF QueriesInv
<1>1. CASE UNCHANGED allVars
  <2>1. UNCHANGED <<fns, active, stale, sure, counts, found, where, placed, known, refused>>
    BY <1>1 DEF allVars, queryVars, vars, ghidraVars, indexVars
  <2>2. Edges(active)' = Edges(active)
    BY <2>1 DEF Edges
  <2>3. \A e : Callees(e)' = Callees(e) /\ Callers(e)' = Callers(e)
    BY <2>1, <2>2 DEF Callees, Callers
  <2>4. \A q, e : Satisfies(q, e)' <=> Satisfies(q, e)
    BY <2>1, <2>3 DEF Satisfies
  <2>5. FindIsExact'
    BY <2>1, <2>4 DEF FindIsExact
  <2> QED
    BY <2>1, <2>5 DEF WhereIsTrue
<1>2. CASE QNext
  <2>1. found' # None => FindIsExact'
    BY <1>2, RepliesPass, AnswerIsExact
  <2>2. where' # None => WhereIsTrue'
    BY <1>2, RepliesPass, AskWhereIsTrue
  <2> QED
    BY <2>1, <2>2 DEF FindIsExact, WhereIsTrue
<1> QED
  BY <1>1, <1>2

LEMMA QInitInv == QInit => QueriesInv
<1> SUFFICES ASSUME QInit PROVE QueriesInv
  OBVIOUS
<1>1. IndexInv
  BY InitIndexInv DEF QInit
<1>2. TypeOK
  BY <1>1 DEF IndexInv, FrameInv
<1>3. QTypeOK
  BY <1>2 DEF QInit, QTypeOK, TypeOK
<1>4. QueryInv
  BY DEF QInit, Init, QueryInv
<1>5. CountsAreOfRows /\ FindIsExact /\ WhereIsTrue
  BY DEF QInit, CountsAreOfRows, FindIsExact, WhereIsTrue
<1> QED
  BY <1>1, <1>3, <1>4, <1>5 DEF QueriesInv

-----------------------------------------------------------------------------
(* The invariant behind the properties holds in every state: the index's   *)
(* own, with what the counts, the blocks and the query in progress add.    *)
THEOREM QueriesInvHolds == QSpec => []QueriesInv
<1>1. QueriesInv /\ [QNext]_allVars => QueriesInv'
  <2> SUFFICES ASSUME QueriesInv, [QNext]_allVars PROVE QueriesInv'
    OBVIOUS
  <2>1. IndexInv'
    BY QStepIndexInv DEF QueriesInv
  <2>2. QTypeOK'
    BY <2>1, QStepTypes
  <2>3. QueryInv'
    BY QStepQueryInv DEF QueriesInv
  <2>4. CountsAreOfRows'
    BY QStepCounts DEF QueriesInv
  <2>5. FindIsExact' /\ WhereIsTrue'
    BY QStepReplies
  <2> QED
    BY <2>1, <2>2, <2>3, <2>4, <2>5 DEF QueriesInv
<1> QED
  BY <1>1, QInitInv, PTL DEF QSpec

(* Every variable keeps its type, and every reply lists what is there.     *)
THEOREM QTypeCorrect == QSpec => []QTypeOK
<1>1. QueriesInv => QTypeOK
  BY DEF QueriesInv
<1> QED
  BY <1>1, QueriesInvHolds, PTL

(* Counts that were answered stay those of the functions that the index    *)
(* knew by name, as the only one, when they were counted, until dropped.   *)
THEOREM CountsStayTrue == QSpec => []CountsAreOfRows
<1>1. QueriesInv => CountsAreOfRows
  BY DEF QueriesInv
<1> QED
  BY <1>1, QueriesInvHolds, PTL

(* A reply of ghidra_find lists what satisfies the query and nothing else, *)
(* by counts: if they were answered, of the functions that the index knew; *)
(* a cut reply is full, and shows the most called of these.                *)
THEOREM FindStaysExact == QSpec => []FindIsExact
<1>1. QueriesInv => FindIsExact
  BY DEF QueriesInv
<1> QED
  BY <1>1, QueriesInvHolds, PTL

(* What ghidra_where says of an address is true, stale index or not, but   *)
(* for the name of the previous function, which is true of a fresh one.    *)
THEOREM WhereStaysTrue == QSpec => []WhereIsTrue
<1>1. QueriesInv => WhereIsTrue
  BY DEF QueriesInv
<1> QED
  BY <1>1, QueriesInvHolds, PTL
=============================================================================
