-------------------------- MODULE ActionCallProofs --------------------------
(***************************************************************************)
(* Proofs about ActionCall, Catalog and Shaper, for any plugin, schemas,   *)
(* section table, arguments, answers and cap.                              *)
(*                                                                         *)
(* CatalogInv: every endpoint has a name and a section, whatever names     *)
(* collide.  CallInv: what the caller asked for survives the way to the    *)
(* request, also if the catalog is replaced on the way.  ReplyInv: the     *)
(* reply is made of the rows or the object that were answered, so that a   *)
(* cut is marked and nothing is lost.  With the types they are ActionInv,  *)
(* which is inductive.                                                     *)
(***************************************************************************)
EXTENDS ActionCall, SequenceTheorems, FiniteSetTheorems, WellFoundedInduction, TLAPS

-----------------------------------------------------------------------------
(* Numbers and finite sets.                                                *)

(* Induction: a set of numbers that has 0 and with each number the next    *)
(* one has them all.                                                       *)
LEMMA Induction ==
  ASSUME NEW T, 0 \in T, \A k \in Nat : k \in T => k + 1 \in T
  PROVE  Nat \subseteq T
<1> SUFFICES ASSUME Nat \ T # {} PROVE FALSE
  OBVIOUS
<1>1. PICK m \in Nat \ T : \A k \in Nat \ T : <<k, m>> \notin OpToRel(<, Nat)
  BY NatLessThanWellFounded, WFMin
<1>2. m # 0 /\ m - 1 \in Nat
  OBVIOUS
<1>3. m - 1 \notin T
  BY <1>2
<1>4. <<m - 1, m>> \in OpToRel(<, Nat)
  BY <1>2 DEF OpToRel
<1> QED
  BY <1>1, <1>2, <1>3, <1>4

(* Some number of a set is the least.                                      *)
LEMMA LeastOf ==
  ASSUME NEW S, S \subseteq Nat, S # {}
  PROVE  \E m \in S : \A n \in S : m <= n
<1>1. PICK m \in S : \A n \in S : <<n, m>> \notin OpToRel(<, Nat)
  BY NatLessThanWellFounded, WFMin
<1>2. ASSUME NEW n \in S PROVE m <= n
  <2>1. n \in Nat /\ m \in Nat
    OBVIOUS
  <2>2. n < m => <<n, m>> \in OpToRel(<, Nat)
    BY <2>1 DEF OpToRel
  <2>3. ~(n < m)
    BY <1>1, <2>2
  <2> QED
    BY <2>1, <2>3
<1> QED
  BY <1>2

(* A property of 0 that does not hold up to b ends somewhere.              *)
LEMMA LastOf ==
  ASSUME NEW S, NEW b \in Nat, 0 \in S
  PROVE  \E m \in 0 .. b : m \in S /\ (m = b \/ m + 1 \notin S)
<1> SUFFICES ASSUME \A m \in 0 .. b : m \in S => m # b /\ m + 1 \in S PROVE FALSE
  OBVIOUS
<1> DEFINE T == {k \in Nat : k <= b => k \in S}
<1>1. 0 \in T
  OBVIOUS
<1>2. ASSUME NEW k \in Nat, k \in T PROVE k + 1 \in T
  <2> SUFFICES ASSUME k + 1 <= b PROVE k + 1 \in S
    OBVIOUS
  <2>0. k <= b
    OBVIOUS
  <2>1. k \in 0 .. b /\ k \in S
    BY <1>2, <2>0
  <2> QED
    BY <2>1
<1> HIDE DEF T
<1>3. b \in T
  BY <1>1, <1>2, Induction
<1>4. b \in S /\ b \in 0 .. b
  BY <1>3 DEF T
<1> QED
  BY <1>4

(* A family of finite sets over a finite set has a finite union.           *)
LEMMA FiniteUnion ==
  ASSUME NEW I, IsFiniteSet(I), NEW f, DOMAIN f = I, \A i \in I : IsFiniteSet(f[i])
  PROVE  IsFiniteSet(UNION {f[i] : i \in I})
<1> DEFINE T == {f[i] : i \in I}
           g == [i \in I |-> f[i]]
<1>1. g \in Surjection(I, T)
  <2>1. g \in [I -> T]
    OBVIOUS
  <2>2. \A t \in T : \E i \in I : g[i] = t
    OBVIOUS
  <2> QED
    BY <2>1, <2>2 DEF Surjection
<1>2. IsFiniteSet(T)
  BY <1>1, FS_Surjection
<1>3. \A t \in T : IsFiniteSet(t)
  OBVIOUS
<1> QED
  BY <1>2, <1>3, FS_UNION

-----------------------------------------------------------------------------
(* The length of a reply.                                                  *)

LEMMA TextFacts ==
  ASSUME NEW s \in Texts
  PROVE  /\ s \in Seq(SUBSET Fact) /\ Len(s) \in Nat /\ DOMAIN s = 1 .. Len(s)
         /\ \A n \in 1 .. Len(s) : s[n] \subseteq Fact /\ IsFiniteSet(s[n])
<1>1. s \in Seq(SUBSET Fact) /\ \A n \in DOMAIN s : IsFiniteSet(s[n])
  BY DEF Texts
<1> QED
  BY <1>1, LenProperties, ElementOfSeq

LEMMA CellsAreFinite == ASSUME NEW s \in Texts PROVE IsFiniteSet(Cells(s)) /\ Length(s) \in Nat
<1> DEFINE I == 1 .. Len(s)
           f == [n \in I |-> {n} \X s[n]]
<1>1. IsFiniteSet(I)
  BY TextFacts, FS_Interval
<1>2. \A n \in I : IsFiniteSet(f[n])
  BY TextFacts, FS_Singleton, FS_Product
<1>3. IsFiniteSet(UNION {f[n] : n \in I})
  <2>1. DOMAIN f = I
    OBVIOUS
  <2> HIDE DEF f, I
  <2> QED
    BY <1>1, <1>2, <2>1, FiniteUnion
<1>4. Cells(s) = UNION {f[n] : n \in I}
  BY TextFacts DEF Cells
<1>5. IsFiniteSet(Cells(s))
  BY <1>3, <1>4
<1> QED
  BY <1>5, FS_CardinalityType DEF Length

LEMMA NotesAreLines ==
  \A what \in Words : Note(what) \subseteq Fact /\ IsFiniteSet(Note(what)) /\ ToSet(<<Note(what)>>) = {Note(what)}
<1> SUFFICES ASSUME NEW what \in Words
             PROVE  Note(what) \subseteq Fact /\ IsFiniteSet(Note(what)) /\ ToSet(<<Note(what)>>) = {Note(what)}
  OBVIOUS
<1>1. Note(what) = {<<what, 0>>}
  BY DEF Note
<1>2. IsFiniteSet(Note(what))
  BY <1>1, FS_Singleton
<1>3. Note(what) \subseteq Fact
  BY <1>1 DEF Fact
<1>4. ToSet(<<Note(what)>>) = {Note(what)}
  BY DEF ToSet
<1> QED
  BY <1>2, <1>3, <1>4

(* Texts put together of texts.                                            *)
LEMMA TextsAppend ==
  ASSUME NEW s \in Texts, NEW l, l \subseteq Fact, IsFiniteSet(l)
  PROVE  /\ Append(s, l) \in Texts /\ Len(Append(s, l)) = Len(s) + 1
         /\ \A n \in 1 .. Len(s) : Append(s, l)[n] = s[n]
         /\ Append(s, l)[Len(s) + 1] = l
         /\ s \o <<l>> = Append(s, l)
         /\ l \in ToSet(Append(s, l)) /\ ToSet(s) \subseteq ToSet(Append(s, l))
<1>1. s \in Seq(SUBSET Fact) /\ l \in SUBSET Fact /\ Len(s) \in Nat
  BY TextFacts
<1>2. /\ Append(s, l) \in Seq(SUBSET Fact) /\ Len(Append(s, l)) = Len(s) + 1
      /\ \A n \in 1 .. Len(s) : Append(s, l)[n] = s[n]
      /\ Append(s, l)[Len(s) + 1] = l
  BY <1>1, AppendProperties
<1>3. DOMAIN Append(s, l) = 1 .. Len(s) + 1 /\ DOMAIN s = 1 .. Len(s)
  BY <1>1, <1>2, LenProperties
<1>4. Append(s, l) \in Texts
  <2>1. ASSUME NEW n \in 1 .. Len(s) + 1 PROVE IsFiniteSet(Append(s, l)[n])
    <3>1. CASE n \in 1 .. Len(s)
      BY <1>2, <3>1, TextFacts
    <3>2. CASE n = Len(s) + 1
      BY <1>2, <3>2
    <3> QED
      BY <1>1, <3>1, <3>2
  <2> QED
    BY <1>2, <1>3, <2>1 DEF Texts
<1>5. s \o <<l>> = Append(s, l)
  BY <1>1, AppendIsConcat
<1>6. l \in ToSet(Append(s, l)) /\ ToSet(s) \subseteq ToSet(Append(s, l))
  BY <1>1, <1>2, <1>3 DEF ToSet
<1> QED
  BY <1>2, <1>4, <1>5, <1>6

(* The first lines of a text.                                              *)
LEMMA TextsFirst ==
  ASSUME NEW s \in Texts, NEW n \in 0 .. Len(s)
  PROVE  /\ SubSeq(s, 1, n) \in Texts /\ Len(SubSeq(s, 1, n)) = n
         /\ \A i \in 1 .. n : SubSeq(s, 1, n)[i] = s[i]
<1>1. s \in Seq(SUBSET Fact) /\ Len(s) \in Nat /\ \A i \in 1 .. n : s[i] \in SUBSET Fact /\ IsFiniteSet(s[i])
  BY TextFacts
<1>2. /\ SubSeq(s, 1, n) \in Seq(SUBSET Fact)
      /\ Len(SubSeq(s, 1, n)) = IF 1 <= n THEN n - 1 + 1 ELSE 0
      /\ \A i \in 1 .. n - 1 + 1 : SubSeq(s, 1, n)[i] = s[1 + i - 1]
  <2>1. 1 \in Int /\ n \in Int /\ \A i \in 1 .. n : s[i] \in SUBSET Fact
    BY <1>1
  <2> QED
    BY <2>1, SubSeqProperties
<1>3. n \in Nat
  BY <1>1
<1>4. Len(SubSeq(s, 1, n)) = n /\ \A i \in 1 .. n : SubSeq(s, 1, n)[i] = s[i]
  BY <1>2, <1>3
<1>5. DOMAIN SubSeq(s, 1, n) = 1 .. n
  BY <1>2, <1>4, LenProperties
<1> QED
  BY <1>1, <1>2, <1>4, <1>5 DEF Texts

(* What is kept of the lines of an answer that is too long.                *)
LEMMA WholeFits ==
  ASSUME NEW s \in Texts
  PROVE  /\ Whole(s) \in Texts /\ Length(Whole(s)) <= Cap
         /\ Len(Whole(s)) <= Len(s) /\ (Len(Whole(s)) = Len(s) => Whole(s) = s)
<1> DEFINE fits(n) == /\ Length(SubSeq(s, 1, n)) <= Cap
                      /\ n = Len(s) \/ Length(SubSeq(s, 1, n + 1)) > Cap
           S == {n \in 0 .. Len(s) : Length(SubSeq(s, 1, n)) <= Cap}
<1>0. Len(s) \in Nat /\ s \in Seq(SUBSET Fact) /\ Cap \in Nat
  BY TextFacts, CapAssumption DEF CapAssumption
<1>1. 0 \in S
  <2>1. SubSeq(s, 1, 0) \in Texts /\ Len(SubSeq(s, 1, 0)) = 0
    BY <1>0, TextsFirst
  <2>2. DOMAIN SubSeq(s, 1, 0) = {}
    BY <2>1, TextFacts
  <2>3. Cells(SubSeq(s, 1, 0)) = {}
    BY <2>2 DEF Cells
  <2>4. Length(SubSeq(s, 1, 0)) = 0
    BY <2>3, FS_EmptySet DEF Length
  <2> QED
    BY <1>0, <2>4
<1>2. \A n \in 0 .. Len(s) : Length(SubSeq(s, 1, n)) \in Nat
  BY TextsFirst, CellsAreFinite
<1>3. PICK m \in 0 .. Len(s) : m \in S /\ (m = Len(s) \/ m + 1 \notin S)
  BY <1>0, <1>1, LastOf
<1>4. m = Len(s) \/ Length(SubSeq(s, 1, m + 1)) > Cap
  <2> SUFFICES ASSUME m # Len(s) PROVE Length(SubSeq(s, 1, m + 1)) > Cap
    OBVIOUS
  <2>1. m + 1 \in 0 .. Len(s)
    BY <1>0
  <2> QED
    BY <1>0, <1>2, <1>3, <2>1
<1>5. fits(m)
  BY <1>3, <1>4
<1> DEFINE k == CHOOSE n \in 0 .. Len(s) : fits(n)
<1>6. k \in 0 .. Len(s) /\ fits(k)
  BY <1>5
<1>7. Whole(s) = SubSeq(s, 1, k)
  BY DEF Whole
<1> HIDE DEF k
<1>8. Whole(s) \in Texts /\ Len(Whole(s)) = k
  BY <1>6, <1>7, TextsFirst
<1>9. k = Len(s) => Whole(s) = s
  BY <1>0, <1>7, SubSeqFull
<1> QED
  BY <1>0, <1>6, <1>7, <1>8, <1>9

Uncapped(s) == [n \in DOMAIN s |-> s[n] \ Note("cap")]

LEMMA UncappedIsText == ASSUME NEW s \in Texts PROVE Uncapped(s) \in Texts
<1>1. Len(s) \in Nat /\ DOMAIN s = 1 .. Len(s) /\ \A n \in 1 .. Len(s) : s[n] \subseteq Fact /\ IsFiniteSet(s[n])
  BY TextFacts
<1>2. Uncapped(s) \in [1 .. Len(s) -> SUBSET Fact]
  BY <1>1 DEF Uncapped
<1>3. Uncapped(s) \in Seq(SUBSET Fact)
  BY <1>1, <1>2, SeqDef
<1>4. \A n \in DOMAIN Uncapped(s) : IsFiniteSet(Uncapped(s)[n])
  BY <1>1, FS_Subset DEF Uncapped
<1> QED
  BY <1>3, <1>4 DEF Texts

(* A note of the cap adds nothing to the length.                           *)
LEMMA NoteIsFree ==
  ASSUME NEW s \in Texts
  PROVE  /\ Length(Uncapped(s)) <= Length(s)
         /\ Length(Uncapped(Append(s, Note("cap")))) <= Length(s)
<1> DEFINE t == Append(s, Note("cap"))
<1>1. IsFiniteSet(Cells(s)) /\ DOMAIN s = 1 .. Len(s) /\ Len(s) \in Nat
  BY CellsAreFinite, TextFacts
<1>2. Note("cap") \subseteq Fact /\ IsFiniteSet(Note("cap"))
  BY NotesAreLines DEF Words
<1>3. /\ \A n \in 1 .. Len(s) : t[n] = s[n]
      /\ t[Len(s) + 1] = Note("cap") /\ DOMAIN t = 1 .. Len(s) + 1
  BY <1>2, TextsAppend, TextFacts
<1>4. Cells(Uncapped(s)) \subseteq Cells(s)
  BY DEF Cells, Uncapped
<1>5. Cells(Uncapped(t)) \subseteq Cells(s)
  <2> SUFFICES ASSUME NEW n \in DOMAIN t, NEW x \in t[n] \ Note("cap") PROVE <<n, x>> \in Cells(s)
    BY DEF Cells, Uncapped
  <2>1. n \in 1 .. Len(s)
    BY <1>1, <1>3
  <2>2. x \in s[n]
    BY <1>3, <2>1
  <2> QED
    BY <1>1, <2>1, <2>2 DEF Cells
<1> QED
  BY <1>1, <1>4, <1>5, FS_Subset DEF Length

LEMMA PartAdds ==
  ASSUME NEW s \in Texts, NEW part, part \subseteq Fact, IsFiniteSet(part)
  PROVE  Append(s, part) \in Texts /\ Length(Append(s, part)) = Length(s) + Cardinality(part)
<1> DEFINE t == Append(s, part)
           k == Len(s) + 1
<1>1. IsFiniteSet(Cells(s)) /\ DOMAIN s = 1 .. Len(s) /\ Len(s) \in Nat /\ Length(s) \in Nat
  BY CellsAreFinite, TextFacts
<1>2. /\ t \in Texts /\ \A n \in 1 .. Len(s) : t[n] = s[n]
      /\ t[k] = part /\ DOMAIN t = 1 .. k
  BY TextsAppend, TextFacts
<1> HIDE DEF t
<1>3. Cells(t) = Cells(s) \union ({k} \X part)
  <2>1. \A n \in 1 .. k : n \in 1 .. Len(s) \/ n = k
    BY <1>1
  <2>2. \A n \in 1 .. Len(s) : n \in 1 .. k
    BY <1>1
  <2>3. k \in 1 .. k
    BY <1>1
  <2> HIDE DEF k
  <2> QED
    BY <1>1, <1>2, <2>1, <2>2, <2>3 DEF Cells
<1>4. Cells(s) \intersect ({k} \X part) = {}
  <2>1. k \notin 1 .. Len(s)
    BY <1>1
  <2> HIDE DEF k
  <2> QED
    BY <1>1, <2>1 DEF Cells
<1>5. IsFiniteSet({k} \X part) /\ Cardinality({k} \X part) = Cardinality(part) /\ Cardinality(part) \in Nat
  <2>1. IsFiniteSet({k}) /\ Cardinality({k}) = 1 /\ Cardinality(part) \in Nat
    BY FS_Singleton, FS_CardinalityType
  <2> HIDE DEF k
  <2>2. IsFiniteSet({k} \X part) /\ Cardinality({k} \X part) = 1 * Cardinality(part)
    BY <2>1, FS_Product
  <2> QED
    BY <2>1, <2>2
<1>6. Cardinality({}) = 0
  BY FS_EmptySet
<1>7. Cardinality(Cells(t)) = Cardinality(Cells(s)) + Cardinality(part)
  <2> DEFINE A == Cells(s)
             B == {k} \X part
  <2> HIDE DEF A, B, k
  <2>1. Cardinality(A \union B) = Cardinality(A) + Cardinality(B) - Cardinality(A \intersect B)
    BY <1>1, <1>5, FS_Union DEF A, B
  <2>2. Cardinality(A) \in Nat /\ Cardinality(B) = Cardinality(part) /\ Cardinality(part) \in Nat
    BY <1>1, <1>5 DEF A, B, Length
  <2>3. A \intersect B = {} /\ Cells(t) = A \union B
    BY <1>3, <1>4 DEF A, B
  <2>4. Cardinality(A \intersect B) = 0
    BY <1>6, <2>3
  <2>5. Cardinality(A \union B) = Cardinality(A) + Cardinality(part)
    BY <2>1, <2>2, <2>4
  <2> QED
    BY <2>3, <2>5 DEF A
<1> QED
  BY <1>2, <1>7 DEF Length, t

(* cap_stage: a reply is as long as it may be, and one that was cut says so. *)
LEMMA CappedSaysSo ==
  ASSUME NEW s \in Texts, NEW r \in Capped(s)
  PROVE  /\ r \in Texts
         /\ r = s \/ Note("cap") \in ToSet(r)
         /\ Length(Uncapped(r)) <= Cap
<1> DEFINE w == Whole(s)
           note == Note("cap")
<1>0. Cap \in Nat /\ Length(s) \in Nat /\ note \subseteq Fact /\ IsFiniteSet(note)
  BY CapAssumption, CellsAreFinite, NotesAreLines DEF CapAssumption, Words
<1>1. w \in Texts /\ Length(w) <= Cap /\ Len(w) <= Len(s) /\ (Len(w) = Len(s) => w = s)
  BY WholeFits
<1>2. Length(w) \in Nat /\ Len(w) \in Nat /\ Len(s) \in Nat
  BY <1>1, CellsAreFinite, TextFacts
<1>3. CASE Length(s) <= Cap
  <2>1. r = s
    BY <1>3 DEF Capped
  <2>2. Length(Uncapped(s)) <= Length(s)
    BY NoteIsFree
  <2>3. Length(Uncapped(s)) \in Nat
    BY UncappedIsText, CellsAreFinite
  <2> QED
    BY <1>0, <1>3, <2>1, <2>2, <2>3
<1>4. CASE ~(Length(s) <= Cap) /\ 2 * Length(w) > Cap
  <2>1. r = Append(w, note)
    BY <1>4 DEF Capped
  <2>2. Length(Uncapped(Append(w, note))) <= Length(w)
    BY <1>1, NoteIsFree
  <2>3. r \in Texts /\ note \in ToSet(r)
    BY <1>0, <1>1, <2>1, TextsAppend
  <2>4. Length(Uncapped(r)) \in Nat
    BY <2>3, UncappedIsText, CellsAreFinite
  <2> QED
    BY <1>0, <1>1, <1>2, <2>1, <2>2, <2>3, <2>4
<1>5. CASE ~(Length(s) <= Cap) /\ ~(2 * Length(w) > Cap)
  <2>1. PICK part \in SUBSET s[Len(w) + 1] : Cardinality(part) = Cap - Length(w) /\ r = w \o <<part, note>>
    BY <1>5 DEF Capped
  <2>2. Len(w) + 1 \in 1 .. Len(s)
    BY <1>1, <1>2, <1>5
  <2>3. part \subseteq Fact /\ IsFiniteSet(part)
    BY <2>2, TextFacts, FS_Subset
  <2> DEFINE v == Append(w, part)
  <2>4. v \in Texts /\ Length(v) = Cap
    BY <1>0, <1>1, <1>2, <2>1, <2>3, PartAdds
  <2>5. r = Append(v, note)
    <3>1. w \in Seq(SUBSET Fact) /\ part \in SUBSET Fact /\ note \in SUBSET Fact
      BY <1>0, <1>1, <2>3, TextFacts
    <3> HIDE DEF w, note
    <3> QED
      BY <2>1, <3>1
  <2> HIDE DEF v
  <2>6. Length(Uncapped(r)) <= Cap
    BY <2>4, <2>5, NoteIsFree
  <2>7. r \in Texts /\ note \in ToSet(r)
    BY <1>0, <2>4, <2>5, TextsAppend
  <2> QED
    BY <2>6, <2>7
<1> QED
  BY <1>3, <1>4, <1>5

-----------------------------------------------------------------------------
(* What an object states, and the lines it becomes.                        *)

LEMMA TextsConcat ==
  ASSUME NEW s \in Texts, NEW t \in Texts
  PROVE  /\ s \o t \in Texts /\ Len(s \o t) = Len(s) + Len(t)
         /\ \A i \in 1 .. Len(s) : (s \o t)[i] = s[i]
         /\ ToSet(s \o t) = ToSet(s) \union ToSet(t)
<1>1. /\ s \in Seq(SUBSET Fact) /\ t \in Seq(SUBSET Fact) /\ Len(s) \in Nat /\ Len(t) \in Nat
      /\ DOMAIN s = 1 .. Len(s) /\ DOMAIN t = 1 .. Len(t)
  BY TextFacts
<1>2. /\ s \o t \in Seq(SUBSET Fact) /\ Len(s \o t) = Len(s) + Len(t)
      /\ \A i \in 1 .. Len(s) + Len(t) : (s \o t)[i] = IF i <= Len(s) THEN s[i] ELSE t[i - Len(s)]
  BY <1>1, ConcatProperties
<1> DEFINE u == s \o t
<1>3. DOMAIN u = 1 .. Len(s) + Len(t)
  BY <1>2, LenProperties
<1> HIDE DEF u
<1>4. \A i \in 1 .. Len(s) : u[i] = s[i] /\ i \in DOMAIN u
  BY <1>1, <1>2, <1>3 DEF u
<1>5. ASSUME NEW j \in 1 .. Len(t) PROVE u[Len(s) + j] = t[j] /\ Len(s) + j \in DOMAIN u
  <2>1. Len(s) + j \in 1 .. Len(s) + Len(t) /\ ~(Len(s) + j <= Len(s)) /\ (Len(s) + j) - Len(s) = j
    BY <1>1
  <2> QED
    BY <1>2, <1>3, <2>1 DEF u
<1>6. ASSUME NEW i \in DOMAIN u
      PROVE  (i \in 1 .. Len(s) /\ u[i] = s[i]) \/ \E j \in 1 .. Len(t) : u[i] = t[j]
  <2>1. CASE i <= Len(s)
    BY <1>1, <1>2, <1>3, <2>1 DEF u
  <2>2. CASE ~(i <= Len(s))
    <3>1. i - Len(s) \in 1 .. Len(t) /\ i \in 1 .. Len(s) + Len(t)
      BY <1>1, <1>3, <2>2
    <3> QED
      BY <1>2, <2>2, <3>1 DEF u
  <2> QED
    BY <2>1, <2>2
<1>7. \A i \in DOMAIN u : IsFiniteSet(u[i])
  BY <1>6, TextFacts
<1>8. u \in Texts
  BY <1>2, <1>7 DEF Texts, u
<1>9. ToSet(u) = ToSet(s) \union ToSet(t)
  <2>1. \A x \in ToSet(u) : x \in ToSet(s) \/ x \in ToSet(t)
    BY <1>1, <1>6 DEF ToSet
  <2>2. \A x \in ToSet(s) : x \in ToSet(u)
    BY <1>1, <1>4 DEF ToSet
  <2>3. \A x \in ToSet(t) : x \in ToSet(u)
    BY <1>1, <1>5 DEF ToSet
  <2> QED
    BY <2>1, <2>2, <2>3
<1> QED
  BY <1>2, <1>4, <1>8, <1>9 DEF u

LEMMA TextOfOne ==
  /\ <<>> \in Texts /\ ToSet(<<>>) = {} /\ Len(<<>>) = 0
  /\ \A l \in SUBSET Fact : IsFiniteSet(l) => <<l>> \in Texts /\ ToSet(<<l>>) = {l} /\ Len(<<l>>) = 1
<1>1. <<>> \in Texts /\ ToSet(<<>>) = {} /\ Len(<<>>) = 0
  BY EmptySeq DEF Texts, ToSet
<1>2. ASSUME NEW l \in SUBSET Fact, IsFiniteSet(l) PROVE <<l>> \in Texts /\ ToSet(<<l>>) = {l} /\ Len(<<l>>) = 1
  <2>1. <<l>> \in Seq(SUBSET Fact) /\ Len(<<l>>) = 1 /\ DOMAIN <<l>> = {1} /\ <<l>>[1] = l
    OBVIOUS
  <2> QED
    BY <1>2, <2>1 DEF Texts, ToSet
<1> QED
  BY <1>1, <1>2

(* A sequence that is given entry by entry.                                *)
LEMMA TextByEntries ==
  ASSUME NEW k \in Nat, NEW s, s = [j \in 1 .. k |-> s[j]],
         \A j \in 1 .. k : s[j] \subseteq Fact /\ IsFiniteSet(s[j])
  PROVE  s \in Texts /\ Len(s) = k /\ ToSet(s) = {s[j] : j \in 1 .. k}
<1>1. s \in [1 .. k -> SUBSET Fact] /\ DOMAIN s = 1 .. k
  OBVIOUS
<1>2. s \in Seq(SUBSET Fact)
  BY <1>1, SeqDef
<1>3. Len(s) = k
  BY <1>1, <1>2, LenProperties
<1> QED
  BY <1>1, <1>2, <1>3 DEF Texts, ToSet

IsFields(fields) ==
  /\ DOMAIN fields \subseteq Words /\ IsFiniteSet(DOMAIN fields)
  /\ \A f \in DOMAIN fields : fields[f] \in [kind : Kinds, size : Nat, lint : Nat]

LEMMA FactsOfFields ==
  ASSUME NEW fields, IsFields(fields)
  PROVE  /\ Facts(fields) \subseteq Fact /\ IsFiniteSet(Facts(fields))
         /\ \A f \in DOMAIN fields : \A j \in 1 .. fields[f].size : <<f, j>> \in Facts(fields)
         /\ \A x \in Facts(fields) : /\ x[1] \in DOMAIN fields /\ x[2] \in 1 .. fields[x[1]].size
                                     /\ x = <<x[1], x[2]>>
<1> DEFINE entries == [f \in DOMAIN fields |-> {<<f, j>> : j \in 1 .. fields[f].size}]
<1>0. IsFiniteSet(DOMAIN fields) /\ \A f \in DOMAIN fields : f \in Words /\ fields[f].size \in Nat
  BY DEF IsFields
<1>1. ASSUME NEW f \in DOMAIN fields PROVE IsFiniteSet(entries[f]) /\ entries[f] \subseteq Fact
  <2> DEFINE I == 1 .. fields[f].size
             g == [j \in I |-> {<<f, j>>}]
  <2>0. IsFiniteSet(I)
    <3>1. fields[f].size \in Int
      BY <1>0
    <3> QED
      BY <3>1, FS_Interval
  <2>1. IsFiniteSet(I) /\ \A j \in I : IsFiniteSet(g[j])
    BY <2>0, FS_Singleton
  <2>2. DOMAIN g = I /\ entries[f] = UNION {g[j] : j \in I}
    OBVIOUS
  <2>3. \A j \in I : j \in Nat
    BY <1>0
  <2>4. entries[f] \subseteq Fact
    BY <1>0, <2>3 DEF Fact
  <2> HIDE DEF g, I
  <2> QED
    BY <2>1, <2>2, <2>4, FiniteUnion
<1>2. Facts(fields) = UNION {entries[f] : f \in DOMAIN fields}
  BY DEF Facts
<1>3. IsFiniteSet(Facts(fields)) /\ Facts(fields) \subseteq Fact
  <2>1. DOMAIN entries = DOMAIN fields
    OBVIOUS
  <2> HIDE DEF entries
  <2> QED
    BY <1>0, <1>1, <1>2, <2>1, FiniteUnion
<1>4. \A f \in DOMAIN fields : \A j \in 1 .. fields[f].size : <<f, j>> \in Facts(fields)
  BY DEF Facts
<1>5. \A x \in Facts(fields) : x[1] \in DOMAIN fields /\ x[2] \in 1 .. fields[x[1]].size /\ x = <<x[1], x[2]>>
  BY DEF Facts
<1> QED
  BY <1>3, <1>4, <1>5

(* Some of the fields.                                                     *)
LEMMA SomeFields ==
  ASSUME NEW fields, IsFields(fields), NEW K, K \subseteq DOMAIN fields
  PROVE  /\ IsFields([f \in K |-> fields[f]])
         /\ \A x \in Facts(fields) : x[1] \in K => x \in Facts([f \in K |-> fields[f]])
<1>1. IsFields([f \in K |-> fields[f]])
  BY FS_Subset DEF IsFields
<1>2. ASSUME NEW x \in Facts(fields), x[1] \in K PROVE x \in Facts([f \in K |-> fields[f]])
  BY <1>1, <1>2, FactsOfFields
<1> QED
  BY <1>1, <1>2

(* A finite set as a sequence.                                             *)
LEMMA SeqOfSet ==
  ASSUME NEW S, IsFiniteSet(S)
  PROVE  /\ SetToSeq(S) \in [1 .. Cardinality(S) -> S] /\ Cardinality(S) \in Nat
         /\ \A x \in S : \E n \in 1 .. Cardinality(S) : SetToSeq(S)[n] = x
<1> DEFINE I == 1 .. Cardinality(S)
           s == SetToSeq(S)
<1>1. Cardinality(S) \in Nat /\ ExistsBijection(I, S)
  BY FS_CardinalityType
<1>2. \E f \in [I -> S] : IsInjective(f)
  BY <1>1 DEF ExistsBijection, Bijection, Injection
<1>3. s \in [I -> S] /\ IsInjective(s)
  BY <1>2 DEF SetToSeq
<1>4. s \in Injection(I, S)
  BY <1>3 DEF Injection
<1>5. Cardinality(I) = Cardinality(S)
  BY <1>1, FS_Interval
<1>6. s \in Surjection(I, S)
  BY <1>4, <1>5, FS_Injection
<1> QED
  BY <1>1, <1>3, <1>6 DEF Surjection

LEMMA BlocksShowAll ==
  ASSUME NEW fields, IsFields(fields)
  PROVE  Blocks(fields) \in Texts /\ Facts(fields) \subseteq UNION ToSet(Blocks(fields))
<1> DEFINE fs == SetToSeq(DOMAIN fields)
           k  == Cardinality(DOMAIN fields)
           part(f) == Facts([g \in {f} |-> fields[g]])
           b  == Blocks(fields)
<1>1. /\ fs \in [1 .. k -> DOMAIN fields] /\ k \in Nat
      /\ \A f \in DOMAIN fields : \E n \in 1 .. k : fs[n] = f
  BY SeqOfSet DEF IsFields
<1>2. b = [n \in 1 .. k |-> part(fs[n])]
  BY <1>1 DEF Blocks
<1>3. ASSUME NEW f \in DOMAIN fields
      PROVE  /\ part(f) \subseteq Fact /\ IsFiniteSet(part(f))
             /\ \A x \in Facts(fields) : x[1] = f => x \in part(f)
  BY SomeFields, FactsOfFields
<1> HIDE DEF fs, k, part, b
<1>4. \A n \in 1 .. k : b[n] = part(fs[n]) /\ fs[n] \in DOMAIN fields
  BY <1>1, <1>2
<1>5. b \in Texts /\ ToSet(b) = {b[n] : n \in 1 .. k}
  <2>1. b = [j \in 1 .. k |-> b[j]]
    BY <1>2
  <2>2. \A n \in 1 .. k : b[n] \subseteq Fact /\ IsFiniteSet(b[n])
    BY <1>3, <1>4
  <2> QED
    BY <1>1, <2>1, <2>2, TextByEntries
<1>6. ASSUME NEW x \in Facts(fields) PROVE x \in UNION ToSet(b)
  <2>1. x[1] \in DOMAIN fields
    BY FactsOfFields
  <2>2. PICK n \in 1 .. k : fs[n] = x[1]
    BY <1>1, <2>1
  <2>3. x \in b[n]
    BY <1>3, <1>4, <2>1, <2>2
  <2> QED
    BY <1>5, <2>3
<1> QED
  BY <1>5, <1>6 DEF b

(* A table shows all but what is never worth a line beside it.             *)
LEMMA TableShowsAll ==
  ASSUME NEW fields, IsFields(fields), NEW key \in DOMAIN fields, IsTable(fields, key)
  PROVE  /\ Table(fields, key) \in Texts
         /\ \A x \in Facts(fields) : x[1] \notin DropMeta => x \in UNION ToSet(Table(fields, key))
<1> DEFINE K    == Of(fields, {"flat", "code"}) \ DropMeta
           meta == Facts([f \in K |-> fields[f]])
           head == IF meta = {} THEN <<>> ELSE <<meta>>
           note == <<Note("header")>>
           k    == fields[key].size
           body == [j \in 1 .. k |-> {<<key, j>>}]
<1>1. K \subseteq DOMAIN fields /\ k \in Nat /\ key \in Words
  BY DEF Of, IsFields
<1>2. meta \subseteq Fact /\ IsFiniteSet(meta) /\ \A x \in Facts(fields) : x[1] \in K => x \in meta
  BY <1>1, SomeFields, FactsOfFields
<1>3. head \in Texts /\ meta \subseteq UNION ToSet(head)
  BY <1>2, TextOfOne
<1>4. note \in Texts
  <2>1. Note("header") \in SUBSET Fact /\ IsFiniteSet(Note("header"))
    BY NotesAreLines DEF Words
  <2> QED
    BY <2>1, TextOfOne
<1>5. body \in Texts /\ \A j \in 1 .. k : <<key, j>> \in UNION ToSet(body)
  <2>1. \A j \in 1 .. k : body[j] \subseteq Fact /\ IsFiniteSet(body[j]) /\ <<key, j>> \in body[j]
    <3> SUFFICES ASSUME NEW j \in 1 .. k
                 PROVE  body[j] \subseteq Fact /\ IsFiniteSet(body[j]) /\ <<key, j>> \in body[j]
      OBVIOUS
    <3>1. body[j] = {<<key, j>>} /\ j \in Nat
      BY <1>1
    <3>2. IsFiniteSet(body[j])
      BY <3>1, FS_Singleton
    <3> QED
      BY <1>1, <3>1, <3>2 DEF Fact
  <2>2. body = [j \in 1 .. k |-> body[j]]
    OBVIOUS
  <2> HIDE DEF body, k
  <2>3. body \in Texts /\ ToSet(body) = {body[j] : j \in 1 .. k}
    BY <1>1, <2>1, <2>2, TextByEntries
  <2> QED
    BY <2>1, <2>3
<1>6. Table(fields, key) = head \o note \o body
  BY DEF Table
<1> HIDE DEF head, note, body
<1>7. head \o note \in Texts /\ ToSet(head \o note) = ToSet(head) \union ToSet(note)
  BY <1>3, <1>4, TextsConcat
<1> DEFINE hn == head \o note
<1> HIDE DEF hn
<1>8. hn \o body \in Texts /\ ToSet(hn \o body) = ToSet(hn) \union ToSet(body)
  BY <1>5, <1>7, TextsConcat DEF hn
<1>9. /\ Table(fields, key) \in Texts
      /\ ToSet(Table(fields, key)) = ToSet(head) \union ToSet(note) \union ToSet(body)
  BY <1>6, <1>7, <1>8 DEF hn
<1>10. \A f \in DOMAIN fields : f \in Of(fields, {"flat", "code"}) \/ f = key
  BY DEF IsTable, Of, IsFields, Kinds
<1>11. ASSUME NEW x \in Facts(fields), x[1] \notin DropMeta PROVE x \in UNION ToSet(Table(fields, key))
  <2>1. x[1] \in DOMAIN fields /\ x[2] \in 1 .. fields[x[1]].size /\ x = <<x[1], x[2]>>
    BY FactsOfFields
  <2>2. CASE x[1] = key
    BY <1>5, <1>9, <2>1, <2>2
  <2>3. CASE x[1] \in K
    BY <1>2, <1>3, <1>9, <2>3
  <2> QED
    BY <1>10, <1>11, <2>1, <2>2, <2>3
<1> QED
  BY <1>9, <1>11

LEMMA LinesShowAll ==
  ASSUME NEW fields, IsFields(fields), NEW shown \in SUBSET Facts(fields)
  PROVE  /\ Lines(fields, shown) \in Texts
         /\ \A x \in shown : \/ x \in UNION ToSet(Lines(fields, shown))
                             \/ x[1] \in DropMeta /\ Of(fields, {"records"}) # {}
<1>1. CASE DOMAIN fields # {} /\ Of(fields, {"code"}) = DOMAIN fields
  BY <1>1, BlocksShowAll DEF Lines
<1>2. CASE ~(DOMAIN fields # {} /\ Of(fields, {"code"}) = DOMAIN fields) /\ \E key \in DOMAIN fields : IsTable(fields, key)
  <2> DEFINE key == CHOOSE key \in DOMAIN fields : IsTable(fields, key)
  <2>1. key \in DOMAIN fields /\ IsTable(fields, key)
    BY <1>2
  <2>2. Lines(fields, shown) = Table(fields, key)
    BY <1>2 DEF Lines
  <2> HIDE DEF key
  <2>3. key \in Of(fields, {"records"})
    BY <2>1 DEF IsTable, Of
  <2> QED
    BY <2>1, <2>2, <2>3, TableShowsAll
<1>3. CASE ~(DOMAIN fields # {} /\ Of(fields, {"code"}) = DOMAIN fields) /\ ~\E key \in DOMAIN fields : IsTable(fields, key)
  <2>1. Lines(fields, shown) = <<shown>>
    BY <1>3 DEF Lines
  <2>2. shown \in SUBSET Fact /\ IsFiniteSet(shown)
    BY FactsOfFields, FS_Subset
  <2>3. <<shown>> \in Texts /\ ToSet(<<shown>>) = {shown}
    BY <2>2, TextOfOne
  <2> QED
    BY <2>1, <2>3
<1> QED
  BY <1>1, <1>2, <1>3

LEMMA AnswersHaveFields ==
  ASSUME NEW o \in Answers
  PROVE  IsFields(o.fields) /\ o.wrapped \in BOOLEAN
<1>1. IsAnswer(o)
  BY CallAssumption DEF CallAssumption
<1>2. DOMAIN o.fields \subseteq Words
  BY DEF Words
<1> QED
  BY <1>1, <1>2 DEF IsAnswer, IsFields

(* json_stage shows what an object states.                                 *)
LEMMA JsonShowsAll ==
  ASSUME NEW o \in Answers, NEW e
  PROVE  /\ JsonStage(o, e) \in Texts
         /\ Facts(o.fields) \ MayGo(o, e) \subseteq UNION ToSet(JsonStage(o, e))
<1> DEFINE fields == o.fields
           elided == Elided(fields, e)
           kept   == Unlinted(elided)
           shown  == Facts(kept) \ LintOf(kept)
<1>0. IsFields(fields) /\ o.wrapped \in BOOLEAN
  BY AnswersHaveFields
<1>1. CASE o.wrapped
  <2>1. JsonStage(o, e) = Lines(fields, Facts(fields))
    BY <1>1 DEF JsonStage
  <2>2. \A x \in Facts(fields) : x[1] \in DropMeta /\ Of(fields, {"records"}) # {} => x \in MayGo(o, e)
    BY DEF MayGo
  <2> HIDE DEF fields
  <2> QED
    BY <1>0, <2>1, <2>2, LinesShowAll DEF fields
<1>2. CASE ~o.wrapped
  <2>1. JsonStage(o, e) = Lines(kept, shown)
    BY <1>2 DEF JsonStage
  <2>2. /\ DOMAIN elided = DOMAIN fields
        /\ \A f \in DOMAIN fields : elided[f] = IF f \in Bulk[e] THEN Flat ELSE fields[f]
    BY DEF Elided
  <2>3. Flat.kind = "flat" /\ Flat.size = 1 /\ Flat.lint = 0 /\ Flat \in [kind : Kinds, size : Nat, lint : Nat]
    BY DEF Flat, Value, Kinds
  <2>4. IsFields(elided)
    BY <1>0, <2>2, <2>3 DEF IsFields
  <2> DEFINE K == {g \in DOMAIN elided : g \notin LintKeys \/ elided[g].lint < elided[g].size}
  <2>5. kept = [f \in K |-> elided[f]] /\ K \subseteq DOMAIN elided
    BY DEF Unlinted
  <2>6. IsFields(kept) /\ \A x \in Facts(elided) : x[1] \in K => x \in Facts(kept)
    BY <2>4, <2>5, SomeFields
  <2>7. ASSUME NEW x \in Facts(fields), x \notin MayGo(o, e)
        PROVE  x \in shown /\ ~(x[1] \in DropMeta /\ Of(kept, {"records"}) # {})
    <3> DEFINE f == x[1]
               j == x[2]
    <3>1. f \in DOMAIN fields /\ j \in 1 .. fields[f].size /\ x = <<f, j>> /\ fields[f].size \in Nat /\ fields[f].lint \in Nat
      BY <1>0, FactsOfFields DEF IsFields
    <3>2. x \notin LintOf(fields) /\ ~(f \in Bulk[e] /\ j > 1) /\ ~(f \in DropMeta /\ Of(fields, {"records"}) # {})
      BY <1>2, <2>7 DEF MayGo
    <3>3. f \in LintKeys => j > fields[f].lint
      BY <3>1, <3>2 DEF LintOf
    <3>4. /\ j \in 1 .. elided[f].size /\ elided[f].lint \in Nat /\ elided[f].size \in Nat
          /\ f \in LintKeys => j > elided[f].lint
      BY <2>2, <2>3, <3>1, <3>2, <3>3
    <3>5. f \in K
      BY <2>2, <3>1, <3>4
    <3>6. x \in Facts(elided)
      BY <2>2, <2>4, <3>1, <3>4, FactsOfFields
    <3>7. x \in Facts(kept) /\ kept[f] = elided[f]
      BY <2>5, <2>6, <3>5, <3>6
    <3>8. x \notin LintOf(kept)
      BY <3>4, <3>7 DEF LintOf
    <3>9. Of(kept, {"records"}) \subseteq Of(fields, {"records"})
      BY <2>2, <2>3, <2>5 DEF Of
    <3> QED
      BY <3>2, <3>7, <3>8, <3>9
  <2> HIDE DEF fields, kept
  <2>8. shown \in SUBSET Facts(kept)
    OBVIOUS
  <2> HIDE DEF shown
  <2> QED
    BY <2>1, <2>6, <2>7, <2>8, LinesShowAll DEF fields
<1> QED
  BY <1>0, <1>1, <1>2

(* What the shaper makes of an object is faithful to it.                   *)
LEMMA ShapedIsFaithful ==
  ASSUME NEW o \in Answers, NEW e, NEW r \in Capped(JsonStage(o, e))
  PROVE  r \in Texts /\ Faithful(o, e, r)
<1>1. /\ JsonStage(o, e) \in Texts
      /\ Facts(o.fields) \ MayGo(o, e) \subseteq UNION ToSet(JsonStage(o, e))
  BY JsonShowsAll
<1>2. /\ r \in Texts /\ (r = JsonStage(o, e) \/ Note("cap") \in ToSet(r))
      /\ Length(Uncapped(r)) <= Cap
  BY <1>1, CappedSaysSo
<1> QED
  BY <1>1, <1>2 DEF Faithful, Uncapped

-----------------------------------------------------------------------------
(* The catalog.                                                            *)

(* from_schema finds a name that nothing else has.                         *)
LEMMA OwnNameIsNew ==
  ASSUME NEW e \in Endpoints, NEW used, IsFiniteSet(used)
  PROVE  OwnName(Base[e], used) \notin used
<1> DEFINE base == Base[e]
           k    == Cardinality(used)
           I    == 2 .. k + 2
           free == {n \in I : Append(base, n) \notin used}
<1> SUFFICES ASSUME base \in used PROVE OwnName(base, used) \notin used
  BY DEF OwnName
<1>1. k \in Nat
  BY FS_CardinalityType
<1>2. PICK m \in 0 .. Len(base) : base = [i \in 1 .. m |-> base[i]]
  BY CatalogAssumption DEF CatalogAssumption
<1> DEFINE Parts == {base[i] : i \in 1 .. m} \union Nat
<1>3. base \in Seq(Parts)
  <2>1. m \in Nat
    BY <1>2
  <2>2. \A i \in 1 .. m : base[i] \in Parts
    OBVIOUS
  <2> HIDE DEF base, Parts
  <2>3. base \in [1 .. m -> Parts]
    BY <1>2, <2>2
  <2> QED
    BY <2>1, <2>3, SeqDef
<1>4. ASSUME NEW i \in I, NEW j \in I, Append(base, i) = Append(base, j) PROVE i = j
  <2>1. i \in Parts /\ j \in Parts
    BY <1>1
  <2> HIDE DEF base, Parts
  <2> QED
    BY <1>3, <1>4, <2>1, AppendInjective
<1>5. free # {}
  <2> SUFFICES ASSUME free = {} PROVE FALSE
    OBVIOUS
  <2> DEFINE f == [n \in I |-> Append(base, n)]
  <2>1. f \in [I -> used]
    OBVIOUS
  <2>2. f \in Injection(I, used)
    BY <1>4, <2>1 DEF Injection, IsInjective
  <2>3. Cardinality(I) = k + 1
    BY <1>1, FS_Interval
  <2>4. Cardinality(I) <= k
    BY <2>2, FS_Injection
  <2> QED
    BY <1>1, <2>3, <2>4
<1>6. free \subseteq Nat
  BY <1>1
<1> DEFINE least == CHOOSE n \in free : \A m2 \in free : n <= m2
<1>7. least \in free
  <2> HIDE DEF free
  <2> QED
    BY <1>5, <1>6, LeastOf
<1>8. OwnName(base, used) = Append(base, least)
  BY DEF OwnName
<1> QED
  BY <1>7, <1>8

(* The catalog of the first k endpoints of a schema.                       *)
IsCatalogOf(cat, schema_, k) ==
  /\ Range(cat) = {schema_[j] : j \in 1 .. k}
  /\ IsFiniteSet(DOMAIN cat) /\ Cardinality(DOMAIN cat) = k
  /\ DOMAIN cat \intersect Static = {}

LEMMA EnteredIsOneMore ==
  ASSUME NEW s \in Seq(Endpoints), NEW k \in Nat, k + 1 \in 1 .. Len(s), NEW cat, IsCatalogOf(cat, s, k)
  PROVE  IsCatalogOf(Entered(cat, s[k + 1]), s, k + 1)
<1> DEFINE e    == s[k + 1]
           used == Static \union DOMAIN cat
           name == OwnName(Base[e], used)
           new  == Entered(cat, e)
<1>1. e \in Endpoints
  BY ElementOfSeq
<1>2. IsFiniteSet(used)
  BY CatalogAssumption, FS_Union DEF CatalogAssumption, IsCatalogOf
<1>3. name \notin used
  BY <1>1, <1>2, OwnNameIsNew
<1>4. new = [n \in DOMAIN cat \union {name} |-> IF n = name THEN e ELSE cat[n]]
  BY DEF Entered
<1> HIDE DEF name, new, e
<1>5. IsFiniteSet(DOMAIN new) /\ Cardinality(DOMAIN new) = k + 1
  <2>1. name \notin DOMAIN cat /\ DOMAIN new = DOMAIN cat \union {name}
    BY <1>3, <1>4
  <2> QED
    BY <2>1, FS_AddElement DEF IsCatalogOf
<1>6. Range(new) = Range(cat) \union {e}
  BY <1>3, <1>4 DEF Range
<1>7. {s[j] : j \in 1 .. k + 1} = {s[j] : j \in 1 .. k} \union {e}
  <2>1. \A j \in 1 .. k + 1 : j \in 1 .. k \/ j = k + 1
    OBVIOUS
  <2>2. k + 1 \in 1 .. k + 1 /\ \A j \in 1 .. k : j \in 1 .. k + 1
    OBVIOUS
  <2> QED
    BY <2>1, <2>2 DEF e
<1>8. DOMAIN new \intersect Static = {}
  BY <1>3, <1>4 DEF IsCatalogOf
<1> QED
  BY <1>5, <1>6, <1>7, <1>8 DEF IsCatalogOf, new, e

(* from_schema gives every endpoint a name of its own.                     *)
LEMMA SchemaIsNamed ==
  ASSUME NEW s \in Schemas
  PROVE  IsCatalogOf(FromSchema(s), s, Len(s))
<1> DEFINE Step(cat, n) == Entered(cat, s[n])
           Fits(f, k) == f = [n \in 0 .. k |-> IF n = 0 THEN <<>> ELSE Step(f[n - 1], n)]
<1> HIDE DEF Step
<1>0. s \in Seq(Endpoints) /\ Len(s) \in Nat
  BY CatalogAssumption, LenProperties DEF CatalogAssumption
<1>1. \E f : Fits(f, 0)
  <2>1. Fits([n \in 0 .. 0 |-> <<>>], 0)
    OBVIOUS
  <2> QED
    BY <2>1
<1>2. ASSUME NEW k \in Nat, NEW f, Fits(f, k) PROVE \E g : Fits(g, k + 1)
  <2> DEFINE g == [n \in 0 .. k + 1 |-> IF n = k + 1 THEN Step(f[k], k + 1) ELSE f[n]]
  <2>1. \A n \in 0 .. k : g[n] = f[n]
    OBVIOUS
  <2>2. \A n \in 0 .. k : f[n] = IF n = 0 THEN <<>> ELSE Step(f[n - 1], n)
    BY <1>2
  <2>3. ASSUME NEW n \in 0 .. k + 1 PROVE g[n] = IF n = 0 THEN <<>> ELSE Step(g[n - 1], n)
    <3>1. g[k + 1] = Step(f[k], k + 1)
      OBVIOUS
    <3> HIDE DEF g
    <3>2. CASE n = k + 1
      <4>1. n - 1 = k /\ k \in 0 .. k /\ n # 0
        BY <3>2
      <4>2. g[n - 1] = f[k] /\ g[n] = Step(f[k], n)
        BY <2>1, <3>1, <3>2, <4>1
      <4> QED
        BY <4>1, <4>2
    <3>3. CASE n \in 0 .. k
      BY <2>1, <2>2, <3>3
    <3> QED
      BY <3>2, <3>3
  <2>4. Fits(g, k + 1)
    BY <2>3
  <2> QED
    BY <2>4
<1>3. \E f : Fits(f, Len(s))
  <2> DEFINE T == {k \in Nat : \E f : Fits(f, k)}
  <2> HIDE DEF Fits
  <2>1. 0 \in T /\ \A k \in Nat : k \in T => k + 1 \in T
    BY <1>1, <1>2
  <2> HIDE DEF T
  <2>2. Nat \subseteq T
    BY <2>1, Induction
  <2> QED
    BY <1>0, <2>2 DEF T
<1> DEFINE cat == CHOOSE f : f = [n \in 0 .. Len(s) |-> IF n = 0 THEN <<>> ELSE Entered(f[n - 1], s[n])]
<1>4. cat = [n \in 0 .. Len(s) |-> IF n = 0 THEN <<>> ELSE Entered(cat[n - 1], s[n])]
  BY <1>3 DEF Step
<1>5. FromSchema(s) = cat[Len(s)]
  BY DEF FromSchema
<1> HIDE DEF cat
<1>6. cat[0] = <<>> /\ \A n \in 0 .. Len(s) : n # 0 => cat[n] = Entered(cat[n - 1], s[n])
  BY <1>0, <1>4
<1> DEFINE T == {k \in Nat : k <= Len(s) => IsCatalogOf(cat[k], s, k)}
<1>7. 0 \in T
  <2>1. Range(<<>>) = {} /\ DOMAIN <<>> = {}
    BY DEF Range
  <2>2. {s[j] : j \in 1 .. 0} = {}
    OBVIOUS
  <2> QED
    BY <1>6, <2>1, <2>2, FS_EmptySet DEF IsCatalogOf
<1>8. ASSUME NEW k \in Nat, k \in T PROVE k + 1 \in T
  <2> SUFFICES ASSUME k + 1 <= Len(s) PROVE IsCatalogOf(cat[k + 1], s, k + 1)
    OBVIOUS
  <2>1. k <= Len(s) /\ k + 1 \in 1 .. Len(s) /\ k + 1 \in 0 .. Len(s) /\ k + 1 # 0 /\ (k + 1) - 1 = k
    BY <1>0
  <2>2. IsCatalogOf(cat[k], s, k)
    BY <1>8, <2>1
  <2>3. cat[k + 1] = Entered(cat[k], s[k + 1])
    BY <1>6, <2>1
  <2> QED
    BY <1>0, <2>1, <2>2, <2>3, EnteredIsOneMore
<1> HIDE DEF T
<1>9. Len(s) \in T
  BY <1>0, <1>7, <1>8, Induction
<1> QED
  BY <1>0, <1>5, <1>9 DEF T

-----------------------------------------------------------------------------
(* The invariant.                                                          *)

(* What _grep keeps of a text is a text.                                   *)
LEMMA MatchingIsText ==
  ASSUME NEW s \in Texts, NEW kept
  PROVE  Matching(s, kept) \in Texts
<1> DEFINE Step(t, n) == IF s[n] \in kept THEN Append(t, s[n]) ELSE t
           Fits(f, k) == f = [n \in 0 .. k |-> IF n = 0 THEN <<>> ELSE Step(f[n - 1], n)]
<1>0. Len(s) \in Nat /\ \A n \in 1 .. Len(s) : s[n] \subseteq Fact /\ IsFiniteSet(s[n])
  BY TextFacts
<1>1. \A t \in Texts : \A n \in 1 .. Len(s) : Step(t, n) \in Texts
  BY <1>0, TextsAppend
<1> HIDE DEF Step
<1>2. \E f : Fits(f, 0)
  <2>1. Fits([n \in 0 .. 0 |-> <<>>], 0)
    OBVIOUS
  <2> QED
    BY <2>1
<1>3. ASSUME NEW k \in Nat, NEW f, Fits(f, k) PROVE \E g : Fits(g, k + 1)
  <2> DEFINE g == [n \in 0 .. k + 1 |-> IF n = k + 1 THEN Step(f[k], k + 1) ELSE f[n]]
  <2>1. \A n \in 0 .. k : g[n] = f[n]
    OBVIOUS
  <2>2. \A n \in 0 .. k : f[n] = IF n = 0 THEN <<>> ELSE Step(f[n - 1], n)
    BY <1>3
  <2>3. ASSUME NEW n \in 0 .. k + 1 PROVE g[n] = IF n = 0 THEN <<>> ELSE Step(g[n - 1], n)
    <3>1. g[k + 1] = Step(f[k], k + 1)
      OBVIOUS
    <3> HIDE DEF g
    <3>2. CASE n = k + 1
      <4>1. n - 1 = k /\ k \in 0 .. k /\ n # 0
        BY <3>2
      <4>2. g[n - 1] = f[k] /\ g[n] = Step(f[k], n)
        BY <2>1, <3>1, <3>2, <4>1
      <4> QED
        BY <4>1, <4>2
    <3>3. CASE n \in 0 .. k
      BY <2>1, <2>2, <3>3
    <3> QED
      BY <3>2, <3>3
  <2>4. Fits(g, k + 1)
    BY <2>3
  <2> QED
    BY <2>4
<1>4. \E f : Fits(f, Len(s))
  <2> DEFINE T == {k \in Nat : \E f : Fits(f, k)}
  <2> HIDE DEF Fits
  <2>1. 0 \in T /\ \A k \in Nat : k \in T => k + 1 \in T
    BY <1>2, <1>3
  <2> HIDE DEF T
  <2>2. Nat \subseteq T
    BY <2>1, Induction
  <2> QED
    BY <1>0, <2>2 DEF T
<1> DEFINE some == CHOOSE f : f = [n \in 0 .. Len(s) |->
                      IF n = 0 THEN <<>> ELSE IF s[n] \in kept THEN Append(f[n - 1], s[n]) ELSE f[n - 1]]
<1>5. some = [n \in 0 .. Len(s) |->
                 IF n = 0 THEN <<>> ELSE IF s[n] \in kept THEN Append(some[n - 1], s[n]) ELSE some[n - 1]]
  BY <1>4 DEF Step
<1>6. Matching(s, kept) = some[Len(s)]
  BY DEF Matching
<1> HIDE DEF some
<1>7. some[0] = <<>> /\ \A n \in 0 .. Len(s) : n # 0 => some[n] = Step(some[n - 1], n)
  <2>1. some[0] = <<>>
    BY <1>0, <1>5
  <2>2. ASSUME NEW n \in 0 .. Len(s), n # 0 PROVE some[n] = Step(some[n - 1], n)
    <3>1. some[n] = IF n = 0 THEN <<>> ELSE IF s[n] \in kept THEN Append(some[n - 1], s[n]) ELSE some[n - 1]
      BY <1>5
    <3> QED
      BY <2>2, <3>1 DEF Step
  <2> QED
    BY <2>1, <2>2
<1> DEFINE T == {k \in Nat : k <= Len(s) => some[k] \in Texts}
<1>8. 0 \in T
  BY <1>7, TextOfOne
<1>9. ASSUME NEW k \in Nat, k \in T PROVE k + 1 \in T
  <2> SUFFICES ASSUME k + 1 <= Len(s) PROVE some[k + 1] \in Texts
    OBVIOUS
  <2>1. k <= Len(s) /\ k + 1 \in 1 .. Len(s) /\ k + 1 \in 0 .. Len(s) /\ k + 1 # 0 /\ (k + 1) - 1 = k
    BY <1>0
  <2>2. some[k] \in Texts
    BY <1>9, <2>1
  <2>3. some[k + 1] = Step(some[k], k + 1)
    BY <1>7, <2>1
  <2> QED
    BY <1>1, <2>1, <2>2, <2>3
<1> HIDE DEF T
<1>10. Len(s) \in T
  BY <1>0, <1>8, <1>9, Induction
<1> QED
  BY <1>0, <1>6, <1>10 DEF T

RowLines(k) == [j \in 1 .. k |-> {<<"row", j>>}]
RowsIn(s)   == {j \in DOMAIN s : \E n \in 1 .. MaxRows : s[j] = {<<"row", n>>}}

LEMMA RowsAreText ==
  ASSUME NEW k \in Nat
  PROVE  RowLines(k) \in Texts /\ Len(RowLines(k)) = k
<1>1. \A j \in 1 .. k : RowLines(k)[j] \subseteq Fact /\ IsFiniteSet(RowLines(k)[j])
  <2> SUFFICES ASSUME NEW j \in 1 .. k PROVE RowLines(k)[j] \subseteq Fact /\ IsFiniteSet(RowLines(k)[j])
    OBVIOUS
  <2>1. RowLines(k)[j] = {<<"row", j>>} /\ j \in Nat /\ "row" \in Words
    BY DEF RowLines, Words
  <2>2. IsFiniteSet(RowLines(k)[j])
    BY <2>1, FS_Singleton
  <2> QED
    BY <2>1, <2>2 DEF Fact
<1>2. RowLines(k) = [j \in 1 .. k |-> RowLines(k)[j]]
  BY DEF RowLines
<1> QED
  BY <1>1, <1>2, TextByEntries

LEMMA RowsAreCounted ==
  ASSUME NEW s \in Texts
  PROVE  Cardinality(RowsIn(s)) \in Nat
<1>1. RowsIn(s) \subseteq 1 .. Len(s) /\ IsFiniteSet(1 .. Len(s))
  <2>1. Len(s) \in Nat /\ DOMAIN s = 1 .. Len(s)
    BY TextFacts
  <2>2. IsFiniteSet(1 .. Len(s))
    BY <2>1, FS_Interval
  <2> QED
    BY <2>1, <2>2 DEF RowsIn
<1> QED
  BY <1>1, FS_Subset, FS_CardinalityType

(* The rows of a reply are counted, its notes are not.                     *)
LEMMA RowsOfRows ==
  ASSUME NEW k \in 0 .. MaxRows, NEW s \in Texts, Len(s) >= k,
         \A j \in 1 .. k : s[j] = RowLines(k)[j],
         \A j \in DOMAIN s : j > k => s[j] \in {Note("short"), Note("limit")}
  PROVE  Cardinality(RowsIn(s)) = k
<1>0. k \in Nat /\ MaxRows \in Nat /\ DOMAIN s = 1 .. Len(s) /\ Len(s) \in Nat
  BY CallAssumption, TextFacts DEF CallAssumption
<1>1. \A j \in 1 .. k : j \in DOMAIN s /\ j \in 1 .. MaxRows /\ s[j] = {<<"row", j>>}
  BY <1>0 DEF RowLines
<1>2. ASSUME NEW n PROVE {<<"row", n>>} # {<<"short", 0>>} /\ {<<"row", n>>} # {<<"limit", 0>>}
  <2>1. <<"row", n>> # <<"short", 0>> /\ <<"row", n>> # <<"limit", 0>>
    OBVIOUS
  <2> QED
    BY <2>1
<1>3. \A j \in DOMAIN s : j > k => ~\E n \in 1 .. MaxRows : s[j] = {<<"row", n>>}
  BY <1>2 DEF Note
<1>4. \A j \in DOMAIN s : j > k \/ j \in 1 .. k
  BY <1>0
<1>5. RowsIn(s) = 1 .. k
  BY <1>1, <1>3, <1>4 DEF RowsIn
<1> QED
  BY <1>0, <1>5, FS_Interval

(* A reply with the notes of the hooks.                                    *)
LEMMA NotedIsText ==
  ASSUME NEW r \in Texts, NEW A \in {<<>>, <<Note("short")>>}, NEW B \in {<<>>, <<Note("limit")>>}
  PROVE  /\ r \o A \o B \in Texts /\ Len(r \o A \o B) >= Len(r)
         /\ ToSet(r \o A \o B) = ToSet(r) \union ToSet(A) \union ToSet(B)
         /\ \A j \in 1 .. Len(r) : (r \o A \o B)[j] = r[j]
         /\ \A j \in DOMAIN (r \o A \o B) : j > Len(r) => (r \o A \o B)[j] \in {Note("short"), Note("limit")}
<1>0. /\ Note("short") \in SUBSET Fact /\ IsFiniteSet(Note("short"))
      /\ Note("limit") \in SUBSET Fact /\ IsFiniteSet(Note("limit"))
  BY NotesAreLines DEF Words
<1>1. A \in Texts /\ B \in Texts
  BY <1>0, TextOfOne
<1>2. /\ Len(A) \in Nat /\ DOMAIN A = 1 .. Len(A) /\ \A j \in DOMAIN A : A[j] = Note("short")
      /\ Len(B) \in Nat /\ DOMAIN B = 1 .. Len(B) /\ \A j \in DOMAIN B : B[j] = Note("limit")
      /\ Len(r) \in Nat /\ r \in Seq(SUBSET Fact) /\ A \in Seq(SUBSET Fact) /\ B \in Seq(SUBSET Fact)
  <2>1. \A j \in DOMAIN A : A[j] = Note("short")
    OBVIOUS
  <2>2. \A j \in DOMAIN B : B[j] = Note("limit")
    OBVIOUS
  <2> QED
    BY <1>1, <2>1, <2>2, TextFacts
<1> DEFINE u == r \o A
<1>3. /\ u \in Texts /\ Len(u) = Len(r) + Len(A) /\ ToSet(u) = ToSet(r) \union ToSet(A)
      /\ \A j \in 1 .. Len(r) : u[j] = r[j]
  BY <1>1, TextsConcat
<1>4. \A j \in 1 .. Len(u) : j > Len(r) => u[j] = Note("short")
  <2> SUFFICES ASSUME NEW j \in 1 .. Len(u), j > Len(r) PROVE u[j] = Note("short")
    OBVIOUS
  <2>1. u[j] = A[j - Len(r)] /\ j - Len(r) \in 1 .. Len(A)
    BY <1>2, <1>3, ConcatProperties
  <2> QED
    BY <1>2, <2>1
<1> DEFINE v == u \o B
<1>5. u \in Seq(SUBSET Fact) /\ Len(u) \in Nat
  BY <1>3, TextFacts
<1> HIDE DEF u
<1>6. /\ v \in Texts /\ Len(v) = Len(u) + Len(B) /\ ToSet(v) = ToSet(u) \union ToSet(B)
      /\ \A j \in 1 .. Len(u) : v[j] = u[j]
  BY <1>1, <1>3, TextsConcat
<1>7. \A j \in 1 .. Len(v) : j > Len(u) => v[j] = Note("limit")
  <2> SUFFICES ASSUME NEW j \in 1 .. Len(v), j > Len(u) PROVE v[j] = Note("limit")
    OBVIOUS
  <2>1. v[j] = B[j - Len(u)] /\ j - Len(u) \in 1 .. Len(B)
    BY <1>2, <1>5, <1>6, ConcatProperties
  <2> QED
    BY <1>2, <2>1
<1>8. DOMAIN v = 1 .. Len(v)
  BY <1>6, TextFacts
<1> HIDE DEF v
<1>9. ASSUME NEW j \in DOMAIN v, j > Len(r) PROVE v[j] \in {Note("short"), Note("limit")}
  <2>1. j \in 1 .. Len(v) /\ j \in Nat
    BY <1>6, <1>8, TextFacts
  <2>2. CASE j > Len(u)
    BY <1>7, <2>1, <2>2
  <2>3. CASE ~(j > Len(u))
    <3>1. j \in 1 .. Len(u)
      BY <1>5, <2>1, <2>3
    <3> QED
      BY <1>4, <1>6, <1>9, <3>1
  <2> QED
    BY <2>2, <2>3
<1>10. \A j \in 1 .. Len(r) : v[j] = r[j]
  BY <1>2, <1>3, <1>5, <1>6
<1> QED
  BY <1>2, <1>3, <1>6, <1>9, <1>10 DEF u, v

LEMMA NothingShownOfNothing ==
  ASSUME rows' = NoRows, reply' \in Texts
  PROVE  CutIsMarked'
<1>1. Shown' = Cardinality(RowsIn(reply'))
  BY DEF Shown, RowsIn
<1>2. Shown' \in Nat /\ Tolerance \in Nat
  BY <1>1, RowsAreCounted, CallAssumption DEF CallAssumption
<1>3. rows'.all = 0
  BY DEF NoRows
<1>4. (IF request'.to = Listing THEN Tolerance ELSE 0) \in Nat
  BY <1>2
<1>5. ~(Shown' + (IF request'.to = Listing THEN Tolerance ELSE 0) < rows'.all)
  <2>1. PICK t \in Nat : t = IF request'.to = Listing THEN Tolerance ELSE 0
    BY <1>4
  <2>2. PICK m \in Nat : m = Shown'
    BY <1>2
  <2>3. ~(m + t < 0)
    OBVIOUS
  <2>4. ~(Shown' + t < 0)
    BY <2>2, <2>3, Zenon
  <2>5. ~(Shown' + t < rows'.all)
    BY <1>3, <2>4, Zenon
  <2> QED
    BY <2>1, <2>5, Zenon
<1> QED
  BY <1>5 DEF CutIsMarked

(* The hooks mark what was cut.                                            *)
LEMMA FinishMarksCuts ==
  ASSUME TypeOK, ReplyInv, Finish
  PROVE  reply' \in Texts /\ CutIsMarked' /\ NothingLost'
<1> DEFINE A == IF StopsShort THEN <<Note("short")>> ELSE <<>>
           B == IF FullPage THEN <<Note("limit")>> ELSE <<>>
           noted == reply \o A \o B
<1>0. /\ reply \in Texts /\ pc = "shaped" /\ pc' = "done" /\ UNCHANGED <<rows, request, answer>>
      /\ A \in {<<>>, <<Note("short")>>} /\ B \in {<<>>, <<Note("limit")>>}
  BY DEF TypeOK, Finish
<1>1. \/ reply' = noted
      \/ \E kept \in SUBSET ToSet(noted) : reply' = Append(Matching(noted, kept), Note("grep"))
  BY DEF Finish
<1>2. /\ noted \in Texts /\ Len(noted) >= Len(reply)
      /\ ToSet(noted) = ToSet(reply) \union ToSet(A) \union ToSet(B)
      /\ \A j \in 1 .. Len(reply) : noted[j] = reply[j]
      /\ \A j \in DOMAIN noted : j > Len(reply) => noted[j] \in {Note("short"), Note("limit")}
  BY <1>0, NotedIsText
<1>3. /\ StopsShort => Note("short") \in ToSet(A)
      /\ FullPage => Note("limit") \in ToSet(B)
      /\ ~StopsShort => A = <<>>
      /\ ~FullPage => B = <<>>
  <2>1. ToSet(<<Note("short")>>) = {Note("short")} /\ ToSet(<<Note("limit")>>) = {Note("limit")}
    BY NotesAreLines DEF Words
  <2> QED
    BY <2>1
<1> HIDE DEF A, B, noted
<1>4. CASE \E kept \in SUBSET ToSet(noted) : reply' = Append(Matching(noted, kept), Note("grep"))
  <2>1. PICK kept : reply' = Append(Matching(noted, kept), Note("grep"))
    BY <1>4
  <2>2. Matching(noted, kept) \in Texts /\ Note("grep") \subseteq Fact /\ IsFiniteSet(Note("grep"))
    BY <1>2, MatchingIsText, NotesAreLines DEF Words
  <2>3. reply' \in Texts /\ Note("grep") \in ToSet(reply')
    BY <2>1, <2>2, TextsAppend
  <2> QED
    BY <2>3 DEF CutIsMarked, NothingLost
<1>5. CASE reply' = noted /\ rows = NoRows /\ ReplyOfObject
  <2>1. reply' \in Texts /\ CutIsMarked'
    BY <1>0, <1>2, <1>5, NothingShownOfNothing
  <2>2. ~StopsShort /\ ~FullPage
    BY <1>5 DEF ReplyOfObject, StopsShort, FullPage
  <2>3. noted = reply
    <3>1. reply \o <<>> = reply
      BY <1>0, TextFacts, ConcatEmptySeq
    <3> QED
      BY <1>3, <2>2, <3>1 DEF noted
  <2>4. NothingLost'
    BY <1>0, <1>5, <2>3 DEF ReplyOfObject, NothingLost
  <2> QED
    BY <2>1, <2>4
<1>6. CASE reply' = noted /\ answer = NoCall /\ ReplyOfRows
  <2>1. reply' \in Texts /\ NothingLost'
    BY <1>0, <1>2, <1>6 DEF NothingLost
  <2> SUFFICES ASSUME Shown' > 0,
                      request.to \in Paged => LimitGiven,
                      Shown' + (IF request.to = Listing THEN Tolerance ELSE 0) < rows.all,
                      request.to = Listing => rows.known
               PROVE  ToSet(noted) \intersect {Note("cap"), Note("limit"), Note("short")} # {}
    BY <1>0, <1>6, <2>1 DEF CutIsMarked, LimitGiven
  <2>2. CASE Note("cap") \in ToSet(reply)
    BY <1>2, <2>2
  <2>3. CASE /\ reply = RowLines(rows.sent)
             /\ request.to \in Paged /\ LimitGiven =>
                   rows.sent = IF rows.limit < rows.all THEN rows.limit ELSE rows.all
    <3>1. /\ rows.sent \in 0 .. MaxRows /\ rows.sent \in Nat /\ rows.all \in Nat /\ rows.limit \in Nat
          /\ Tolerance \in Nat
      BY CallAssumption DEF CallAssumption, TypeOK
    <3>2. reply \in Texts /\ Len(reply) = rows.sent
      BY <2>3, <3>1, RowsAreText
    <3>3. Shown' = rows.sent
      <4>1. Cardinality(RowsIn(noted)) = rows.sent
        BY <1>2, <2>3, <3>1, <3>2, RowsOfRows
      <4> QED
        BY <1>6, <4>1 DEF Shown, RowsIn
    <3>4. Shown = rows.sent
      <4>1. \A j \in DOMAIN reply : ~(j > rows.sent)
        BY <3>1, <3>2, TextFacts
      <4>2. Len(reply) >= rows.sent /\ \A j \in 1 .. rows.sent : reply[j] = RowLines(rows.sent)[j]
        BY <2>3, <3>1, <3>2
      <4>3. Cardinality(RowsIn(reply)) = rows.sent
        BY <3>1, <3>2, <4>1, <4>2, RowsOfRows
      <4> QED
        BY <4>3 DEF Shown, RowsIn
    <3>5. CASE request.to \in Paged
      <4>1. FullPage
        BY <2>3, <3>1, <3>2, <3>3, <3>5 DEF FullPage
      <4> QED
        BY <1>2, <1>3, <4>1
    <3>6. CASE request.to \notin Paged
      <4>1. request.to = Listing
        BY <1>6, <3>6 DEF ReplyOfRows
      <4>2. StopsShort
        BY <3>3, <3>4, <4>1 DEF StopsShort
      <4> QED
        BY <1>2, <1>3, <4>2
    <3> QED
      BY <3>5, <3>6
  <2> QED
    BY <1>6, <2>2, <2>3 DEF ReplyOfRows, RowLines
<1> QED
  BY <1>0, <1>1, <1>4, <1>5, <1>6 DEF ReplyInv

(* The tools are those of the catalog of the schema, after every connect.  *)
LEMMA CatalogStep == CatalogInv /\ [Next]_vars => CatalogInv'
<1> SUFFICES ASSUME CatalogInv, [Next]_vars PROVE CatalogInv'
  OBVIOUS
<1> USE DEF config, catalogVars
<1>1. ASSUME NEW s \in Schemas, Connect(s) PROVE CatalogInv'
  <2> DEFINE sec == [n \in DOMAIN catalog' |-> Section(n, catalog'[n])]
  <2>1. /\ catalog' = FromSchema(s) /\ schema' = s
        /\ members' = Members(sec)
        /\ sectionOf' = [n \in DOMAIN sec \union DOMAIN sectionOf |-> IF n \in DOMAIN sec THEN sec[n] ELSE sectionOf[n]]
    BY <1>1 DEF Connect, Load, LastSection
  <2>2. s \in Seq(Endpoints) /\ Len(s) \in Nat /\ DOMAIN s = 1 .. Len(s) /\ \A j \in 1 .. Len(s) : s[j] \in Endpoints
    BY CatalogAssumption, LenProperties, ElementOfSeq DEF CatalogAssumption
  <2>3. IsCatalogOf(catalog', s, Len(s))
    BY <2>1, SchemaIsNamed
  <2>4. Range(catalog') = ToSet(s) /\ Range(catalog') \subseteq Endpoints
    BY <2>2, <2>3 DEF IsCatalogOf, ToSet
  <2>5. EveryEndpointIsNamed'
    BY <2>1, <2>3, <2>4 DEF IsCatalogOf, EveryEndpointIsNamed, NamesAreOwn, Names
  <2>6. Names' = DOMAIN sec /\ \A n \in Names' : sectionOf'[n] = sec[n]
    BY <2>1 DEF Names
  <2> HIDE DEF sec
  <2>7. Names' \subseteq DOMAIN sectionOf'
    BY <2>1, <2>6
  <2>8. /\ DOMAIN members' = {sectionOf'[n] : n \in Names'}
        /\ \A t \in DOMAIN members' : members'[t] = {n \in Names' : sectionOf'[n] = t}
    BY <2>1, <2>6 DEF Members, Range
  <2> QED
    BY <2>1, <2>4, <2>5, <2>7, <2>8 DEF CatalogInv
<1>2. CASE UNCHANGED config
  BY <1>2 DEF CatalogInv, EveryEndpointIsNamed, NamesAreOwn, Names
<1>3. UNCHANGED config \/ \E s \in Schemas : Connect(s)
  <2>1. Call => UNCHANGED config
    BY DEF Call, CallSection, CallOwn, CallImport, Called
  <2>2. Resolve \/ LookUp \/ Refuse \/ Send => UNCHANGED config
    BY DEF Resolve, LookUp, Refuse, Send
  <2>3. AnswerRows \/ AnswerObject \/ AnswerFails \/ Finish \/ Return => UNCHANGED config
    BY DEF AnswerRows, AnswerObject, AnswerFails, Finish, Return
  <2>4. UNCHANGED vars => UNCHANGED config
    BY DEF vars
  <2> QED
    BY <2>1, <2>2, <2>3, <2>4 DEF Next
<1> QED
  BY <1>1, <1>2, <1>3

(* Rows for some of the actions found are as many as these, and true.      *)
LEMMA RowsAreTrue ==
  ASSUME CatalogInv, NEW hits, hits \subseteq Names, IsFiniteSet(hits), NEW told \in Tools(hits)
  PROVE  /\ \A row \in told.rows :
               row.action \in hits \intersect members[row.section] /\ row.routes = {catalog[row.action]}
         /\ told.matches > Cardinality(told.rows) => Cardinality(told.rows) = MaxHits
         /\ told.matches = Cardinality(told.rows) => told.rows = {Row(n) : n \in hits}
<1>1. PICK best \in SUBSET hits :
        /\ Cardinality(best) = IF Cardinality(hits) > MaxHits THEN MaxHits ELSE Cardinality(hits)
        /\ told = [matches |-> Cardinality(hits), rows |-> {Row(n) : n \in best}]
  BY DEF Tools
<1>2. told.matches = Cardinality(hits) /\ told.rows = {Row(n) : n \in best}
  BY <1>1
<1>3. /\ IsFiniteSet(best) /\ Cardinality(best) \in Nat /\ Cardinality(hits) \in Nat
      /\ Cardinality(hits) = Cardinality(best) => hits = best
  BY FS_Subset, FS_CardinalityType
<1>4. Cardinality(told.rows) = Cardinality(best)
  <2> DEFINE f == [n \in best |-> Row(n)]
             R == {Row(n) : n \in best}
  <2>1. f \in Surjection(best, R)
    BY DEF Surjection
  <2>2. \A m, n \in best : f[m] = f[n] => m = n
    BY DEF Row
  <2>3. f \in Injection(best, R)
    BY <2>1, <2>2 DEF Injection, Surjection, IsInjective
  <2> HIDE DEF f, R
  <2>4. Cardinality(R) = Cardinality(best)
    BY <1>3, <2>1, <2>3, FS_Surjection
  <2> QED
    BY <1>2, <2>4 DEF R
<1>5. ASSUME NEW row \in told.rows
      PROVE  row.action \in hits \intersect members[row.section] /\ row.routes = {catalog[row.action]}
  <2>1. PICK n \in best : row = Row(n)
    BY <1>2
  <2>2. row.action = n /\ row.section = sectionOf[n] /\ row.routes = {catalog[n]}
    BY <2>1 DEF Row
  <2>3. n \in Names /\ n \in members[sectionOf[n]]
    BY DEF CatalogInv
  <2> QED
    BY <2>2, <2>3
<1>6. told.matches > Cardinality(told.rows) => Cardinality(told.rows) = MaxHits
  BY <1>1, <1>2, <1>3, <1>4
<1>7. told.matches = Cardinality(told.rows) => told.rows = {Row(n) : n \in hits}
  BY <1>2, <1>3, <1>4
<1> QED
  BY <1>5, <1>6, <1>7

LEMMA NamesAreFinite == CatalogInv => IsFiniteSet(Names)
<1> SUFFICES ASSUME CatalogInv PROVE IsFiniteSet(Names)
  OBVIOUS
<1>1. CASE Names = {}
  BY <1>1, FS_EmptySet
<1>2. CASE schema \in Schemas /\ catalog = FromSchema(schema)
  <2>1. IsCatalogOf(FromSchema(schema), schema, Len(schema))
    BY <1>2, SchemaIsNamed
  <2> QED
    BY <1>2, <2>1 DEF IsCatalogOf, Names
<1> QED
  BY <1>1, <1>2 DEF CatalogInv

(* What the catalog's invariant says of what is told of the actions.       *)
LEMMA CatalogIsTold == CatalogInv => DirectionsHold
<1> SUFFICES ASSUME CatalogInv PROVE DirectionsHold
  OBVIOUS
<1>1. /\ DOMAIN members = {sectionOf[n] : n \in Names} /\ Names \subseteq DOMAIN sectionOf
      /\ \A s \in DOMAIN members : members[s] = {n \in Names : sectionOf[n] = s}
  BY DEF CatalogInv
<1>2. ASSUME NEW n \in Names PROVE CanBeCalled(n) /\ (~IsStaticKey(n) => Help(n) = Row(n))
  <2>1. CASE flat
    BY <2>1 DEF CanBeCalled, OwnTools, Help
  <2>2. CASE ~flat
    <3>1. SectionTools = DOMAIN members /\ sectionOf[n] \in SectionTools
      BY <1>1, <2>2 DEF SectionTools
    <3>2. ASSUME NEW s \in SectionTools, s = sectionOf[n] PROVE n \in members[s]
      BY <1>1, <3>1, <3>2
    <3>3. ASSUME NEW s \in SectionTools, s # sectionOf[n] PROVE n \notin members[s] /\ Hints(s, n) = {sectionOf[n]}
      BY <1>1, <3>1, <3>3 DEF Hints
    <3>4. CanBeCalled(n)
      BY <2>2, <3>1, <3>2, <3>3 DEF CanBeCalled
    <3> QED
      BY <3>4 DEF Help
  <2> QED
    BY <2>1, <2>2
<1>3. ASSUME NEW hits \in {Names} \union Range(members) PROVE hits \subseteq Names /\ IsFiniteSet(hits)
  <2>1. hits \subseteq Names
    BY <1>1 DEF Range
  <2> QED
    BY <2>1, NamesAreFinite, FS_Subset
<1>4. ASSUME NEW k \in Static PROVE Help(k).routes = Route[k] \intersect Range(catalog)
  <2>1. Help(k) = StaticHelp(k)
    BY DEF Help, IsStaticKey
  <2>2. StaticHelp(k).routes = {catalog[n] : n \in UNION {OfPath(e) : e \in Route[k]}}
    BY DEF StaticHelp
  <2>3. {catalog[n] : n \in UNION {OfPath(e) : e \in Route[k]}} = Route[k] \intersect Range(catalog)
    BY DEF OfPath, Names, Range
  <2> QED
    BY <2>1, <2>2, <2>3
<1>5. \A hits \in {Names} \union Range(members) : \A told \in Tools(hits) :
         /\ \A row \in told.rows :
               row.action \in hits \intersect members[row.section] /\ row.routes = {catalog[row.action]}
         /\ told.matches > Cardinality(told.rows) => Cardinality(told.rows) = MaxHits
         /\ told.matches = Cardinality(told.rows) => told.rows = {Row(n) : n \in hits}
  BY <1>3, RowsAreTrue
<1> QED
  BY <1>2, <1>4, <1>5 DEF DirectionsHold

-----------------------------------------------------------------------------
(* The way to the request.                                                 *)

(* A call that enters the dispatcher with what was asked for is on its way.*)
LEMMA CalledIsOnItsWay ==
  ASSUME CallInv, pc = "idle", NEW n \in Names, NEW a, DOMAIN a = Keys, NEW want,
         Called(n, a, want), want.path = Chosen(n, a),
         want.dry => a["dry_run"] = "yes", want.program => a["program"] = "value"
  PROVE  CallInv'
<1>1. pc' = "called" /\ act' = n /\ args' = a /\ asked' = want /\ UNCHANGED <<catalog, request>>
  BY DEF Called, config, catalogVars
<1>2. request' = NoCall
  BY <1>1 DEF CallInv
<1>3. OnItsWay'
  BY <1>1 DEF OnItsWay, Names, Chosen, ByItsAddress
<1> QED
  BY <1>2, <1>3 DEF CallInv, AskedIsSent, RightEndpoint, Sent

(* The three ways to call an action.                                       *)
LEMMA CallStarts == CallInv /\ Call => CallInv'
<1> SUFFICES ASSUME CallInv, Call PROVE CallInv'
  OBVIOUS
<1> USE CallAssumption DEF CallAssumption
<1>0. pc = "idle"
  BY DEF Call
<1>1. PICK a \in Args :
        \/ \E n \in Names, s \in DOMAIN members, tool \in Values["dry_run"] \ {"blank"} :
              CallSection(s, n, a, tool)
        \/ \E n \in Names : CallOwn(n, a)
        \/ CallImport(a)
  BY DEF Call
<1>2. DOMAIN a = Keys
  BY DEF Args
<1>3. ASSUME NEW n \in Names, NEW s \in DOMAIN members, NEW tool, CallSection(s, n, a, tool)
      PROVE  CallInv'
  <2> DEFINE said == {a["dry_run"], tool} \ {"absent"}
             want == [dry |-> said = {"yes"}, program |-> a["program"] = "value", path |-> Chosen(n, a)]
             b    == Defaulted(a, tool)
  <2>1. Called(n, b, want)
    BY <1>3 DEF CallSection
  <2>2. DOMAIN b = Keys /\ b["program"] = a["program"] /\ b["address"] = a["address"]
    BY <1>2 DEF Defaulted
  <2>3. said = {"yes"} => b["dry_run"] = "yes"
    BY <1>2 DEF Defaulted
  <2>4. /\ want.path = Chosen(n, b)
        /\ want.dry => b["dry_run"] = "yes"
        /\ want.program => b["program"] = "value"
    BY <2>2, <2>3 DEF Chosen, ByItsAddress
  <2> HIDE DEF want, b
  <2> QED
    BY <1>0, <2>1, <2>2, <2>4, CalledIsOnItsWay
<1>4. ASSUME NEW n \in Names, CallOwn(n, a) PROVE CallInv'
  <2> DEFINE e    == catalog[n]
             b    == [k \in Keys |-> IF k \notin Allowed(e) \/ a[k] # "absent" THEN a[k] ELSE Omitted(e, k)]
             want == [dry |-> a["dry_run"] = "yes", program |-> a["program"] = "value", path |-> Chosen(n, b)]
  <2>1. Called(n, b, want)
    BY <1>4 DEF CallOwn
  <2>2. DOMAIN b = Keys
    OBVIOUS
  <2>3. (a["dry_run"] = "yes" => b["dry_run"] = "yes") /\ (a["program"] = "value" => b["program"] = "value")
    OBVIOUS
  <2> HIDE DEF b
  <2>4. /\ want.path = Chosen(n, b)
        /\ want.dry => b["dry_run"] = "yes"
        /\ want.program => b["program"] = "value"
    BY <2>3
  <2> HIDE DEF want
  <2> QED
    BY <1>0, <2>1, <2>2, <2>4, CalledIsOnItsWay
<1>5. ASSUME CallImport(a) PROVE CallInv'
  <2> DEFINE want == [dry |-> FALSE, program |-> FALSE, path |-> ImportPath]
  <2>1. PICK n \in ActionForPath(ImportPath) : Called(n, a, want)
    BY <1>5 DEF CallImport
  <2>2. n \in Names /\ catalog[n] = ImportPath
    BY DEF ActionForPath, OfPath
  <2>3. a["address"] # "value"
    BY <1>5 DEF CallImport, Given
  <2>4. want.path = Chosen(n, a) /\ ~want.dry /\ ~want.program
    BY <2>2, <2>3 DEF Chosen, ByItsAddress
  <2> HIDE DEF want
  <2> QED
    BY <1>0, <1>2, <2>1, <2>2, <2>4, CalledIsOnItsWay
<1> QED
  BY <1>1, <1>3, <1>4, <1>5

(* A name there is is a name of one of the schemas.                        *)
LEMMA NamesAreOfSchemas ==
  ASSUME CatalogInv, NEW n \in Names
  PROVE  /\ \E s \in Schemas : n \in DOMAIN FromSchema(s) /\ FromSchema(s)[n] = catalog[n]
         /\ n \in EveryName /\ catalog[n] \in Endpoints
<1>1. PICK s \in Schemas : catalog = FromSchema(s)
  BY DEF CatalogInv
<1>2. n \in DOMAIN FromSchema(s) /\ FromSchema(s)[n] = catalog[n]
  BY <1>1 DEF Names
<1>3. catalog[n] \in Endpoints
  BY DEF CatalogInv, Range, Names
<1> QED
  BY <1>2, <1>3 DEF EveryName

(* The redirect of a rename takes dry_run and program along, and the       *)
(* action is the rename by address of the catalog as it is.                *)
LEMMA ResolveKeepsAsked == CallInv /\ CatalogInv /\ Resolve => CallInv'
<1> SUFFICES ASSUME CallInv, CatalogInv, Resolve PROVE CallInv'
  OBVIOUS
<1> USE CallAssumption DEF CallAssumption
<1>1. pc = "called" /\ ByItsAddress(act, args) /\ pc' = "resolved" /\ UNCHANGED <<asked, request>>
  BY DEF Resolve, Redirectable
<1>2. act' \in Names /\ catalog[act'] = ByAddress
  BY DEF Resolve, ActionForPath, OfPath
<1>3. asked.path = ByAddress
  BY <1>1 DEF CallInv, OnItsWay, Chosen
<1>4. \E s \in Schemas : act' \in DOMAIN FromSchema(s) /\ FromSchema(s)[act'] = ByAddress
  BY <1>2, NamesAreOfSchemas
<1>5. PICK none \in BOOLEAN :
        args' = [k \in Keys |-> IF k \in Carried /\ ~(none /\ args[k] = "blank") THEN args[k] ELSE "absent"]
  BY DEF Resolve
<1>6. /\ asked.dry => args'["dry_run"] = "yes"
      /\ asked.program => args'["program"] = "value"
  BY <1>1, <1>5 DEF CallInv, OnItsWay, Carried
<1>7. DOMAIN args' = Keys
  BY <1>5
<1>8. OnItsWay'
  BY <1>1, <1>3, <1>4, <1>6, <1>7 DEF OnItsWay
<1>9. request' = NoCall
  BY <1>1 DEF CallInv
<1> QED
  BY <1>8, <1>9 DEF CallInv, AskedIsSent, RightEndpoint, Sent

(* The endpoint the action turns out to have is the one that was chosen,   *)
(* or a namesake of the rename by address.                                 *)
LEMMA LookUpFindsTheWay ==
  ASSUME CallInv, CatalogInv, LookUp
  PROVE  OnTheWayTo(catalog[act])
<1>1. act \in Names
  BY DEF LookUp
<1>2. CASE pc = "called"
  <2>1. ~ByItsAddress(act, args)
    BY <1>2 DEF LookUp, Redirectable
  <2>2. asked.path = catalog[act]
    BY <1>2, <2>1 DEF CallInv, OnItsWay, Chosen
  <2> QED
    BY <2>2 DEF OnTheWayTo
<1>3. CASE pc = "resolved"
  <2>1. asked.path = ByAddress
    BY <1>3 DEF CallInv, OnItsWay
  <2>2. PICK t \in Schemas : act \in DOMAIN FromSchema(t) /\ FromSchema(t)[act] = ByAddress
    BY <1>3 DEF CallInv, OnItsWay
  <2>3. PICK s \in Schemas : act \in DOMAIN FromSchema(s) /\ FromSchema(s)[act] = catalog[act]
    BY <1>1, NamesAreOfSchemas
  <2>4. Namesake(catalog[act], ByAddress)
    BY <2>2, <2>3 DEF Namesake
  <2> QED
    BY <2>1, <2>4 DEF OnTheWayTo
<1> QED
  BY <1>2, <1>3 DEF LookUp

(* What is valid becomes a request with what was asked for.                *)
LEMMA LookUpKeepsAsked == CallInv /\ CatalogInv /\ LookUp => CallInv'
<1> SUFFICES ASSUME CallInv, CatalogInv, LookUp PROVE CallInv'
  OBVIOUS
<1> USE CallAssumption DEF CallAssumption
<1> DEFINE e == catalog[act]
<1>1. pc' = "bound" /\ UNCHANGED asked /\ pc \in {"called", "resolved"}
  BY DEF LookUp
<1>2. request' = [to |-> e, keys |-> SentKeys(e), dry |-> args["dry_run"] = "yes"] /\ Valid(e)
  BY DEF LookUp
<1>3. OnTheWayTo(e)
  BY LookUpFindsTheWay
<1>4. /\ asked.dry => args["dry_run"] = "yes"
      /\ asked.program => args["program"] = "value"
      /\ DOMAIN args = Keys
  BY <1>1 DEF CallInv, OnItsWay
<1>5. args["program"] = "value" => "program" \in SentKeys(e)
  BY <1>2 DEF Valid, Given, Allowed, SentKeys, Filled
<1> HIDE DEF e
<1>6. request'.to = e /\ request'.keys = SentKeys(e) /\ request'.dry = (args["dry_run"] = "yes")
  BY <1>2
<1>7. OnTheWayTo(request.to)'
  BY <1>1, <1>3, <1>6 DEF OnTheWayTo
<1>8. Agreed'
  BY <1>1, <1>4, <1>5, <1>6, <1>7 DEF Agreed
<1>9. ~Sent'
  BY <1>1 DEF Sent
<1>10. OnItsWay'
  BY <1>1 DEF OnItsWay
<1> QED
  BY <1>1, <1>8, <1>9, <1>10 DEF CallInv, AskedIsSent, RightEndpoint

LEMMA InitCall == Init => CallInv
BY DEF Init, CallInv, OnItsWay, Sent, AskedIsSent, RightEndpoint

(* Steps that leave the wish and the request, or drop the request.         *)
LEMMA LaterStepsKeep ==
  ASSUME CallInv, asked' = asked, request' = request \/ request' = NoCall,
         pc' \in {"bound", "sent", "shaped", "done"}
  PROVE  CallInv'
<1>1. OnItsWay'
  BY DEF OnItsWay
<1>2. request' # NoCall => Agreed'
  BY DEF CallInv, Agreed, OnTheWayTo
<1>3. AskedIsSent' /\ RightEndpoint'
  BY <1>2 DEF AskedIsSent, RightEndpoint, Sent, Agreed, OnTheWayTo
<1> QED
  BY <1>1, <1>2, <1>3 DEF CallInv

(* Another catalog in the middle of a call.                                *)
LEMMA ConnectKeeps == ASSUME CallInv, NEW s \in Schemas, Connect(s) PROVE CallInv'
<1>1. /\ pc # "called" /\ UNCHANGED <<pc, act, args, asked, request>>
  BY DEF Connect, Reading, callVars
<1>2. OnItsWay'
  BY <1>1 DEF CallInv, OnItsWay
<1>3. Sent' = Sent /\ (request' # NoCall => Agreed')
  BY <1>1 DEF Sent, CallInv, Agreed, OnTheWayTo
<1>4. AskedIsSent' /\ RightEndpoint'
  BY <1>1, <1>3 DEF CallInv, AskedIsSent, RightEndpoint
<1> QED
  BY <1>1, <1>2, <1>3, <1>4 DEF CallInv

LEMMA NextCall == CallInv /\ CatalogInv /\ [Next]_vars => CallInv'
<1> SUFFICES ASSUME CallInv, CatalogInv, [Next]_vars PROVE CallInv'
  OBVIOUS
<1>1. ASSUME NEW s \in Schemas, Connect(s) PROVE CallInv'
  BY <1>1, ConnectKeeps
<1>2. CASE Call
  BY <1>2, CallStarts
<1>3. CASE Resolve
  BY <1>3, ResolveKeepsAsked
<1>4. CASE LookUp
  BY <1>4, LookUpKeepsAsked
<1>5. CASE Refuse
  BY <1>5, LaterStepsKeep DEF Refuse
<1>6. CASE Send
  BY <1>6, LaterStepsKeep DEF Send
<1>7. CASE AnswerRows
  BY <1>7, LaterStepsKeep DEF AnswerRows
<1>8. CASE AnswerObject
  BY <1>8, LaterStepsKeep DEF AnswerObject
<1>9. CASE AnswerFails
  BY <1>9, LaterStepsKeep DEF AnswerFails
<1>10. CASE Finish
  BY <1>10, LaterStepsKeep DEF Finish
<1>11. CASE Return
  BY <1>11 DEF Return, CallInv, OnItsWay, Sent, AskedIsSent, RightEndpoint
<1>12. CASE UNCHANGED vars
  <2>1. UNCHANGED <<catalog, pc, act, args, asked, request>>
    BY <1>12 DEF vars, config, catalogVars, callVars
  <2>2. OnItsWay'
    BY <2>1 DEF CallInv, OnItsWay, Names, Chosen
  <2>3. AskedIsSent' /\ RightEndpoint' /\ (request' # NoCall => Agreed')
    BY <2>1 DEF CallInv, Agreed, OnTheWayTo, Sent, AskedIsSent, RightEndpoint
  <2> QED
    BY <2>1, <2>2, <2>3 DEF CallInv
<1> QED
  BY <1>1, <1>2, <1>3, <1>4, <1>5, <1>6, <1>7, <1>8, <1>9, <1>10, <1>11, <1>12 DEF Next

-----------------------------------------------------------------------------
(* Types, and what a reply is.                                             *)

LEMMA InitAction == Init => ActionInv
<1> SUFFICES ASSUME Init PROVE ActionInv
  OBVIOUS
<1> USE DEF Init, CatalogInit
<1>1. MaxRows \in Nat
  BY CallAssumption DEF CallAssumption
<1>2. 0 \in 0 .. 0 /\ 0 \in 0 .. MaxRows /\ 1 \in Limits \union {1}
  BY <1>1
<1>3. rows.sent \in 0 .. rows.all /\ rows.all \in 0 .. MaxRows /\ rows.limit \in Limits \union {1}
  BY <1>2 DEF NoRows
<1>4. TypeOK
  BY <1>3, TextOfOne DEF TypeOK, NothingAsked
<1>5. CatalogInv
  <2>1. Names = {}
    BY DEF Names
  <2>2. schema = <<>> /\ DOMAIN members = {} /\ DOMAIN sectionOf = {}
    OBVIOUS
  <2>3. Range(catalog) = {}
    BY <2>1 DEF Range, Names
  <2> QED
    BY <2>1, <2>2, <2>3 DEF CatalogInv, EveryEndpointIsNamed
<1>6. ReplyInv /\ CutIsMarked /\ NothingLost
  BY DEF ReplyInv, CutIsMarked, NothingLost
<1> QED
  BY <1>4, <1>5, <1>6, InitCall DEF ActionInv

(* A call that starts has an action of the catalog and arguments.          *)
LEMMA CalledIsTyped ==
  ASSUME TypeOK, CatalogInv, NEW n \in Names, NEW a, NEW want, Called(n, a, want),
         DOMAIN a = Keys, \A k \in Keys : a[k] \in Values[k] \union {"blank"},
         want.dry \in BOOLEAN, want.program \in BOOLEAN, want.path \in Endpoints,
         want = [dry |-> want.dry, program |-> want.program, path |-> want.path]
  PROVE  TypeOK'
<1>1. n \in EveryName
  BY NamesAreOfSchemas
<1>2. want \in [dry : BOOLEAN, program : BOOLEAN, path : Endpoints \union {NoCall}]
  OBVIOUS
<1>3. pc' = "called" /\ act' = n /\ args' = a /\ asked' = want
      /\ UNCHANGED <<catalog, schema, strict, flat, request, rows, answer, reply>>
  BY DEF Called, config, catalogVars
<1> QED
  BY <1>1, <1>2, <1>3 DEF TypeOK

LEMMA ChosenIsEndpoint ==
  ASSUME CatalogInv, NEW n \in Names, NEW a
  PROVE  Chosen(n, a) \in Endpoints
BY NamesAreOfSchemas, CallAssumption DEF Chosen, CallAssumption

LEMMA CallIsTyped == TypeOK /\ CatalogInv /\ Call => TypeOK'
<1> SUFFICES ASSUME TypeOK, CatalogInv, Call PROVE TypeOK'
  OBVIOUS
<1>0. "dry_run" \in Keys /\ "no" \in Values["dry_run"] /\ \A k \in Keys : "absent" \in Values[k]
  BY CallAssumption DEF CallAssumption
<1>1. PICK a \in Args :
        \/ \E n \in Names, s \in DOMAIN members, tool \in Values["dry_run"] \ {"blank"} :
              CallSection(s, n, a, tool)
        \/ \E n \in Names : CallOwn(n, a)
        \/ CallImport(a)
  BY DEF Call
<1>2. DOMAIN a = Keys /\ \A k \in Keys : a[k] \in Values[k]
  BY DEF Args
<1>3. ASSUME NEW n \in Names, NEW s \in DOMAIN members, NEW tool \in Values["dry_run"] \ {"blank"},
             CallSection(s, n, a, tool)
      PROVE  TypeOK'
  <2> DEFINE said == {a["dry_run"], tool} \ {"absent"}
             want == [dry |-> said = {"yes"}, program |-> a["program"] = "value", path |-> Chosen(n, a)]
             b    == Defaulted(a, tool)
  <2>1. Called(n, b, want)
    BY <1>3 DEF CallSection
  <2>2. DOMAIN b = Keys /\ \A k \in Keys : b[k] \in Values[k] \union {"blank"}
    BY <1>0, <1>2 DEF Defaulted
  <2>3. want.dry \in BOOLEAN /\ want.program \in BOOLEAN /\ want.path \in Endpoints
        /\ want = [dry |-> want.dry, program |-> want.program, path |-> want.path]
    BY ChosenIsEndpoint
  <2> HIDE DEF want, b
  <2> QED
    BY <2>1, <2>2, <2>3, CalledIsTyped
<1>4. ASSUME NEW n \in Names, CallOwn(n, a) PROVE TypeOK'
  <2> DEFINE e    == catalog[n]
             b    == [k \in Keys |-> IF k \notin Allowed(e) \/ a[k] # "absent" THEN a[k] ELSE Omitted(e, k)]
             want == [dry |-> a["dry_run"] = "yes", program |-> a["program"] = "value", path |-> Chosen(n, b)]
  <2>1. Called(n, b, want)
    BY <1>4 DEF CallOwn
  <2>2. DOMAIN b = Keys /\ \A k \in Keys : b[k] \in Values[k] \union {"blank"}
    <3>1. \A k \in Keys : Omitted(e, k) \in Values[k] \union {"blank"}
      BY <1>0, NamesAreOfSchemas, CallAssumption DEF Omitted, CallAssumption
    <3> QED
      BY <1>2, <3>1
  <2> HIDE DEF b
  <2>3. want.dry \in BOOLEAN /\ want.program \in BOOLEAN /\ want.path \in Endpoints
        /\ want = [dry |-> want.dry, program |-> want.program, path |-> want.path]
    BY ChosenIsEndpoint
  <2> HIDE DEF want, b
  <2> QED
    BY <2>1, <2>2, <2>3, CalledIsTyped
<1>5. ASSUME CallImport(a) PROVE TypeOK'
  <2> DEFINE want == [dry |-> FALSE, program |-> FALSE, path |-> ImportPath]
  <2>1. PICK n \in ActionForPath(ImportPath) : Called(n, a, want)
    BY <1>5 DEF CallImport
  <2>2. n \in Names /\ catalog[n] = ImportPath
    BY DEF ActionForPath, OfPath
  <2>3. want.dry \in BOOLEAN /\ want.program \in BOOLEAN /\ want.path \in Endpoints
        /\ want = [dry |-> want.dry, program |-> want.program, path |-> want.path]
    BY <2>2, NamesAreOfSchemas
  <2>4. DOMAIN a = Keys /\ \A k \in Keys : a[k] \in Values[k] \union {"blank"}
    BY <1>2
  <2> HIDE DEF want
  <2> QED
    BY <2>1, <2>2, <2>3, <2>4, CalledIsTyped
<1> QED
  BY <1>1, <1>3, <1>4, <1>5

(* The answer becomes a reply of lines.                                    *)
LEMMA RowsAreTyped ==
  ASSUME TypeOK, ReplyInv, AnswerRows
  PROVE  TypeOK' /\ ReplyInv'
<1>0. /\ pc = "sent" /\ pc' = "shaped" /\ request.to \in Paged \union {Listing}
      /\ UNCHANGED <<catalog, schema, strict, flat, act, args, asked, request, answer>>
  BY DEF AnswerRows, config, catalogVars
<1>1. PICK all \in 0 .. MaxRows, lim \in Limits, known \in BOOLEAN : \E sent \in 0 .. all :
        /\ request.to \in Paged /\ LimitGiven => sent = IF lim < all THEN lim ELSE all
        /\ rows' = [all |-> all, sent |-> sent, limit |-> lim, known |-> known]
        /\ reply' \in Capped([j \in 1 .. sent |-> {<<"row", j>>}])
  BY DEF AnswerRows
<1>12. PICK sent \in 0 .. all :
        /\ request.to \in Paged /\ LimitGiven => sent = IF lim < all THEN lim ELSE all
        /\ rows' = [all |-> all, sent |-> sent, limit |-> lim, known |-> known]
        /\ reply' \in Capped([j \in 1 .. sent |-> {<<"row", j>>}])
  BY <1>1
<1>2. all \in Nat /\ sent \in Nat
  BY CallAssumption DEF CallAssumption
<1>3. RowLines(sent) \in Texts /\ reply' \in Capped(RowLines(sent))
  BY <1>12, <1>2, RowsAreText DEF RowLines
<1>4. reply' \in Texts /\ (reply' = RowLines(sent) \/ Note("cap") \in ToSet(reply'))
  BY <1>3, CappedSaysSo
<1>5. rows'.all = all /\ rows'.sent = sent /\ rows'.limit = lim
  BY <1>12
<1>6. Names' = Names
  BY <1>0 DEF Names
<1>7. TypeOK'
  BY <1>0, <1>4, <1>5, <1>6 DEF TypeOK
<1>8. LimitGiven' = LimitGiven
  BY <1>0 DEF LimitGiven
<1>9. ReplyOfRows'
  BY <1>0, <1>12, <1>4, <1>5, <1>8 DEF ReplyOfRows, RowLines
<1>10. act = NoCall /\ args = NoCall /\ answer = NoCall
  BY <1>0 DEF ReplyInv
<1>11. ReplyInv'
  BY <1>0, <1>9, <1>10 DEF ReplyInv
<1> QED
  BY <1>7, <1>11

LEMMA ObjectIsTyped ==
  ASSUME TypeOK, ReplyInv, AnswerObject
  PROVE  TypeOK' /\ ReplyInv'
<1>0. /\ pc = "sent" /\ pc' = "shaped" /\ request.to \notin Paged \union {Listing}
      /\ UNCHANGED <<catalog, schema, strict, flat, act, args, asked, request, rows>>
  BY DEF AnswerObject, config, catalogVars
<1>1. PICK o \in Answers : answer' = o /\ reply' \in Capped(JsonStage(o, request.to))
  BY DEF AnswerObject
<1>2. reply' \in Texts /\ Faithful(o, request.to, reply')
  BY <1>1, ShapedIsFaithful
<1>3. Names' = Names
  BY <1>0 DEF Names
<1>4. TypeOK'
  BY <1>0, <1>1, <1>2, <1>3 DEF TypeOK
<1>5. ReplyOfObject'
  BY <1>0, <1>1, <1>2 DEF ReplyOfObject
<1>6. act = NoCall /\ args = NoCall /\ rows = NoRows
  BY <1>0 DEF ReplyInv
<1>7. ReplyInv'
  BY <1>0, <1>5, <1>6 DEF ReplyInv
<1> QED
  BY <1>4, <1>7

(* Every step keeps the types, and what the reply is.                      *)
LEMMA ActionStep == ActionInv /\ [Next]_vars => TypeOK' /\ ReplyInv' /\ CutIsMarked' /\ NothingLost'
<1> SUFFICES ASSUME TypeOK, CatalogInv, CallInv, ReplyInv, CutIsMarked, NothingLost, [Next]_vars
             PROVE  TypeOK' /\ ReplyInv' /\ CutIsMarked' /\ NothingLost'
  BY DEF ActionInv
<1> USE DEF config, catalogVars, callVars
<1>0. pc' # "done" => CutIsMarked' /\ NothingLost'
  BY DEF CutIsMarked, NothingLost
<1>1. ASSUME NEW s \in Schemas, Connect(s) PROVE TypeOK' /\ ReplyInv' /\ CutIsMarked' /\ NothingLost'
  <2>1. /\ pc # "done" /\ schema' = s
        /\ UNCHANGED <<strict, flat, pc, act, args, asked, request, rows, answer, reply>>
    BY <1>1 DEF Connect, Reading, Load
  <2>3. TypeOK'
    BY <2>1 DEF TypeOK
  <2>4. ReplyInv'
    BY <2>1 DEF ReplyInv, ReplyOfRows, ReplyOfObject, LimitGiven
  <2> QED
    BY <1>0, <2>1, <2>3, <2>4
<1>2. CASE Call
  <2>1. TypeOK'
    BY <1>2, CallIsTyped
  <2>2. pc = "idle" /\ pc' = "called" /\ UNCHANGED <<rows, answer, reply>>
    BY <1>2 DEF Call, CallSection, CallOwn, CallImport, Called
  <2>3. ReplyInv'
    BY <2>2 DEF ReplyInv
  <2> QED
    BY <1>0, <2>1, <2>2, <2>3
<1>3. CASE Resolve
  <2>1. /\ pc = "called" /\ pc' = "resolved" /\ act' \in Names
        /\ UNCHANGED <<schema, strict, flat, asked, request, rows, answer, reply>>
    BY <1>3 DEF Resolve, Redirectable, ActionForPath, OfPath
  <2>2. PICK none \in BOOLEAN :
          args' = [k \in Keys |-> IF k \in Carried /\ ~(none /\ args[k] = "blank") THEN args[k] ELSE "absent"]
    BY <1>3 DEF Resolve
  <2>3. \A k \in Keys : args[k] \in Values[k] \union {"blank"}
    BY <2>1 DEF TypeOK, ReplyInv, CallInv, OnItsWay
  <2>4. \A k \in Keys : "absent" \in Values[k]
    BY CallAssumption DEF CallAssumption
  <2>5. DOMAIN args' = Keys /\ \A k \in Keys : args'[k] \in Values[k] \union {"blank"}
    BY <2>2, <2>3, <2>4
  <2>6. act' \in EveryName
    BY <2>1, NamesAreOfSchemas
  <2>7. TypeOK'
    BY <2>1, <2>5, <2>6 DEF TypeOK
  <2>8. ReplyInv'
    BY <2>1 DEF ReplyInv
  <2> QED
    BY <1>0, <2>1, <2>7, <2>8
<1>4. CASE LookUp
  <2> DEFINE e == catalog[act]
  <2>1. /\ pc \in {"called", "resolved"} /\ pc' = "bound" /\ args' = NoCall /\ act \in Names
        /\ request' = [to |-> e, keys |-> SentKeys(e), dry |-> args["dry_run"] = "yes"]
        /\ UNCHANGED <<schema, strict, flat, act, asked, rows, answer, reply>>
    BY <1>4 DEF LookUp
  <2>2. e \in Endpoints
    BY <2>1, NamesAreOfSchemas
  <2>3. SentKeys(e) \subseteq Params[e]
    BY DEF SentKeys
  <2> HIDE DEF e
  <2>4. request'.to = e /\ request'.keys = SentKeys(e)
    BY <2>1
  <2>5. TypeOK'
    BY <2>1, <2>2, <2>3, <2>4 DEF TypeOK
  <2>6. ReplyInv'
    BY <2>1 DEF ReplyInv
  <2> QED
    BY <1>0, <2>1, <2>5, <2>6
<1>5. CASE Refuse \/ AnswerFails
  <2>1. /\ pc \in {"called", "resolved", "bound", "sent"} /\ pc' = "done"
        /\ (act' = NoCall /\ args' = NoCall) \/ (pc = "sent" /\ UNCHANGED <<act, args>>)
        /\ request' \in {request, NoCall}
        /\ UNCHANGED <<schema, strict, flat, asked, rows, answer, reply>>
    BY <1>5 DEF Refuse, AnswerFails
  <2>2. rows = NoRows /\ answer = NoCall /\ (pc = "sent" => act = NoCall /\ args = NoCall)
    BY <2>1 DEF ReplyInv
  <2>3. TypeOK'
    BY <2>1 DEF TypeOK, Names
  <2>4. ReplyInv'
    BY <2>1, <2>2 DEF ReplyInv
  <2>5. CutIsMarked'
    <3>1. rows' = NoRows /\ reply' \in Texts
      BY <2>1, <2>2 DEF TypeOK
    <3> QED
      BY <3>1, NothingShownOfNothing
  <2>6. NothingLost'
    BY <2>1, <2>2 DEF NothingLost
  <2> QED
    BY <2>3, <2>4, <2>5, <2>6
<1>6. CASE Send
  <2>1. /\ pc = "bound" /\ pc' = "sent" /\ act' = NoCall
        /\ UNCHANGED <<schema, strict, flat, args, asked, request, rows, answer, reply>>
    BY <1>6 DEF Send
  <2>2. TypeOK'
    BY <2>1 DEF TypeOK, ReplyInv
  <2>3. ReplyInv'
    BY <2>1 DEF ReplyInv
  <2> QED
    BY <1>0, <2>1, <2>2, <2>3
<1>7. CASE AnswerRows
  <2>1. pc' = "shaped"
    BY <1>7 DEF AnswerRows
  <2> QED
    BY <1>0, <1>7, <2>1, RowsAreTyped
<1>8. CASE AnswerObject
  <2>1. pc' = "shaped"
    BY <1>8 DEF AnswerObject
  <2> QED
    BY <1>0, <1>8, <2>1, ObjectIsTyped
<1>9. CASE Finish
  <2>1. reply' \in Texts /\ CutIsMarked' /\ NothingLost'
    BY <1>9, FinishMarksCuts
  <2>2. /\ pc = "shaped" /\ pc' = "done"
        /\ UNCHANGED <<catalog, schema, strict, flat, act, args, asked, request, rows, answer>>
    BY <1>9 DEF Finish
  <2>3. TypeOK'
    BY <2>1, <2>2 DEF TypeOK, Names
  <2>4. ReplyInv'
    BY <2>2 DEF ReplyInv
  <2> QED
    BY <2>1, <2>3, <2>4
<1>10. CASE Return
  <2>1. /\ pc = "done" /\ pc' = "idle" /\ asked' = NothingAsked
        /\ request' = NoCall /\ rows' = NoRows /\ answer' = NoCall /\ reply' = <<>>
        /\ UNCHANGED <<catalog, schema, strict, flat, act, args>>
    BY <1>10 DEF Return
  <2>2. NothingAsked \in [dry : BOOLEAN, program : BOOLEAN, path : Endpoints \union {NoCall}]
    BY DEF NothingAsked
  <2>3. rows'.sent \in 0 .. rows'.all /\ rows'.all \in 0 .. MaxRows /\ rows'.limit \in Limits \union {1}
    <3>1. MaxRows \in Nat
      BY CallAssumption DEF CallAssumption
    <3>2. rows'.sent = 0 /\ rows'.all = 0 /\ rows'.limit = 1
      BY <2>1 DEF NoRows
    <3> QED
      BY <3>1, <3>2
  <2>4. TypeOK'
    BY <2>1, <2>2, <2>3, TextOfOne DEF TypeOK, Names
  <2>5. ReplyInv'
    BY <2>1 DEF ReplyInv
  <2> QED
    BY <1>0, <2>1, <2>4, <2>5
<1>11. CASE UNCHANGED vars
  <2>1. UNCHANGED <<catalog, schema, strict, flat, pc, act, args, asked, request, rows, answer, reply>>
    BY <1>11 DEF vars
  <2>2. TypeOK'
    BY <2>1 DEF TypeOK, Names
  <2>3. ReplyInv'
    BY <2>1 DEF ReplyInv, ReplyOfRows, ReplyOfObject, LimitGiven
  <2>4. CutIsMarked' /\ NothingLost'
    BY <2>1 DEF CutIsMarked, NothingLost, Sent, Shown, LimitGiven
  <2> QED
    BY <2>2, <2>3, <2>4
<1> QED
  BY <1>1, <1>2, <1>3, <1>4, <1>5, <1>6, <1>7, <1>8, <1>9, <1>10, <1>11 DEF Next

LEMMA NextAction == ActionInv /\ [Next]_vars => ActionInv'
BY NextCall, CatalogStep, ActionStep DEF ActionInv

(* What was asked for, the catalog and the reply hold together in every    *)
(* state: the inductive invariant of the call.                             *)
THEOREM ActionInvHolds == Spec => []ActionInv
BY InitAction, NextAction, PTL DEF Spec

(* The types: no action outside the catalog, no argument that an endpoint  *)
(* does not declare in a request, no endless line in a reply.              *)
THEOREM TypeCorrect == Spec => []TypeOK
BY ActionInvHolds, PTL DEF ActionInv

(* What was asked for is with the call until it is sent, and what was sent *)
(* agrees with it.                                                         *)
THEOREM CallInvHolds == Spec => []CallInv
BY ActionInvHolds, PTL DEF ActionInv

(* A dry run asked for at the tool level or in args is one, and a program  *)
(* asked for is named in the request, or nothing is sent, also if the      *)
(* catalog is replaced on the way; a blank dry_run in args is none.        *)
THEOREM AskedIsAlwaysSent == Spec => []AskedIsSent
BY CallInvHolds, PTL DEF CallInv

(* A request goes to the endpoint that was chosen, whatever replaces the   *)
(* catalog meanwhile; a redirected rename to it or to a namesake of it.    *)
THEOREM EndpointIsRight == Spec => []RightEndpoint
BY CallInvHolds, PTL DEF CallInv

(* Whatever sanitized names collide, with each other or with the bridge's  *)
(* own tools, every endpoint of the schema has a name (catalog.py).        *)
THEOREM EveryEndpointIsAlwaysNamed == Spec => []EveryEndpointIsNamed
<1>1. ActionInv => EveryEndpointIsNamed
  BY DEF ActionInv, CatalogInv
<1> QED
  BY <1>1, ActionInvHolds, PTL

(* And a tool that calls it, to which the other section tools send, and    *)
(* what is told of it is true, after any number of connects to different   *)
(* plugins (registry.py, sections.py, bridge.py); of actions of the        *)
(* present catalog, and without a tool for the section in flat mode.       *)
THEOREM DirectionsAlwaysHold == Spec => []DirectionsHold
<1>1. ActionInv => DirectionsHold
  BY CatalogIsTold DEF ActionInv
<1> QED
  BY <1>1, ActionInvHolds, PTL

(* Whatever the limit, the cap and the tolerance, a reply that has fewer   *)
(* rows than there are says so, if a row is left, a limit was given or the *)
(* index knows the listing's function, and _grep did not go over it        *)
(* (dispatcher.py, shaper.py).                                             *)
THEOREM CutIsAlwaysMarked == Spec => []CutIsMarked
BY ActionInvHolds, PTL DEF ActionInv

(* Whatever an object states is in the reply, or the reply says that it    *)
(* was cut, but for the fields that tables drop (MayGo); and no reply is   *)
(* longer than the cap (shaper.py).                                        *)
THEOREM NothingIsEverLost == Spec => []NothingLost
BY ActionInvHolds, PTL DEF ActionInv
=============================================================================
