-------------------------- MODULE AnnotatorProofs ---------------------------
(***************************************************************************)
(* Proofs about Annotator, for any programs, places, values, passes and    *)
(* selectors.  AnnotatorInv is inductive; that the names counted have      *)
(* taken is a conjunct of it, and that the fallback renames the function   *)
(* of its item follows from it.                                            *)
(***************************************************************************)
EXTENDS Annotator, TLAPS

Working == {"write", "current", "guard", "byname", "verify"}

LoopOK ==
    /\ pc \in {"ready", "write", "current", "guard", "byname", "verify", "save", "done"}
    /\ k \in Nat \ {0}
    /\ attempt \in 1..2
    /\ cur \in Values \union {Blank}
    /\ result \in Seq(Results)

(* A pass is a sequence of writes to distinct places.                      *)
LEMMA PassFacts ==
  ASSUME TypeOK
  PROVE  /\ pass \in Seq(Writes)
         /\ \A i, j \in 1..Len(pass) : pass[i].place = pass[j].place => i = j
<1>1. CASE pass \in Passes
  BY <1>1, PassesAssumption DEF PassesAssumption
<1>2. CASE pass = <<>>
  BY <1>2
<1> QED
  BY <1>1, <1>2 DEF TypeOK

(* The write in progress is one.                                           *)
LEMMA WriteFacts ==
  ASSUME TypeOK, InOrder, pc \in Working
  PROVE  /\ k \in 1..Len(pass) /\ Len(result) = Len(pass)
         /\ W \in Writes /\ W.place \in Places /\ W.value \in Values
<1>1. k \in 1..Len(pass) /\ Len(result) = Len(pass)
  BY PassFacts DEF InOrder, Working, TypeOK
<1>2. W \in Writes
  BY <1>1, PassFacts DEF W
<1> QED
  BY <1>1, <1>2 DEF Writes

(* A write goes to a program, and says in its own place what it says.      *)
LEMMA PutFacts ==
  ASSUME content \in [Programs -> [Places -> Values \union {Blank}]],
         NEW p \in Programs, NEW f \in Places, NEW v \in Values, Put(p, f, v)
  PROVE  /\ content' \in [Programs -> [Places -> Values \union {Blank}]]
         /\ \A q \in Programs, g \in Places : g # f => content'[q][g] = content[q][g]
BY DEF Put

LEMMA ReachedFacts ==
  ASSUME TypeOK, NEW e
  PROVE  Reached(e) \in Programs
BY DEF TypeOK, Reached

(* How the loop goes on, whatever the call in progress has done: types and *)
(* order are kept, and what the summary says of earlier writes too.        *)
LEMMA LoopStep ==
  ASSUME TypeOK, InOrder, pc \in Working, pass' = pass, dry' = dry,
         \/ \E o \in Results : Settle(o)
         \/ Abort
         \/ MayRetry /\ Retry
         \/ ~dry /\ Forget("verify")
         \/ W.place \in FnNames /\ Goto("current")
  PROVE  /\ LoopOK' /\ InOrder'
         /\ k' >= k
         /\ pc' \notin {"guard", "byname"}
         /\ result' = <<>> \/ (Len(result') = Len(pass) /\ \A i \in 1..Len(pass) : i < k => result'[i] = result[i])
<1>1. k \in 1..Len(pass) /\ Len(result) = Len(pass) /\ pass \in Seq(Writes)
  BY WriteFacts, PassFacts
<1>2. ASSUME NEW o \in Results, Settle(o)
      PROVE  /\ k' = k + 1 /\ attempt' = 1 /\ cur' = Blank
             /\ result' \in Seq(Results) /\ Len(result') = Len(result)
             /\ \A i \in 1..Len(result) : i # k => result'[i] = result[i]
             /\ pc' \in {"write", "save", "done"} /\ (pc' = "write" => k < Len(pass))
  BY <1>1, <1>2 DEF Settle, AfterWrites, TypeOK
<1>3. CASE \E o \in Results : Settle(o)
  BY <1>1, <1>2, <1>3 DEF LoopOK, InOrder, TypeOK
<1>4. CASE Abort
  BY <1>1, <1>4 DEF Abort, LoopOK, InOrder, TypeOK
<1>5. CASE MayRetry /\ Retry
  BY <1>1, <1>5 DEF MayRetry, Retry, LoopOK, InOrder, TypeOK
<1>6. CASE ~dry /\ Forget("verify")
  BY <1>1, <1>6 DEF Forget, LoopOK, InOrder, TypeOK
<1>7. CASE W.place \in FnNames /\ Goto("current")
  <2>1. W' = W
    BY <1>7 DEF W, Goto
  <2> QED
    BY <1>1, <1>7, <2>1 DEF Goto, LoopOK, InOrder, TypeOK
<1> QED
  BY <1>3, <1>4, <1>5, <1>6, <1>7

(* A write that takes leaves the types alone; if nobody was disturbed, it  *)
(* has changed its own place only.                                         *)
LEMMA TakeFacts ==
  ASSUME TypeOK, InOrder, Sending, Take
  PROVE  /\ content' \in [Programs -> [Places -> Values \union {Blank}]]
         /\ quiet' \in BOOLEAN
         /\ quiet' => quiet
         /\ quiet' => \A q \in Programs, g \in Places :
                         g # W.place => content'[q][g] = content[q][g]
<1>1. PICK f \in Hits : Put(Reached(Endpoint), f, W.value) /\ quiet' = (quiet /\ f = W.place)
  BY DEF Take
<1>2. W.place \in Places /\ W.value \in Values
  BY WriteFacts DEF Sending, Working
<1>3. f \in Places
  BY <1>1, <1>2 DEF Hits, Named, Places
<1>4. /\ content' \in [Programs -> [Places -> Values \union {Blank}]]
      /\ \A q \in Programs, g \in Places : g # f => content'[q][g] = content[q][g]
  <2>1. content \in [Programs -> [Places -> Values \union {Blank}]]
    BY DEF TypeOK
  <2>2. Reached(Endpoint) \in Programs
    BY ReachedFacts
  <2> QED
    BY <1>1, <1>2, <1>3, <2>1, <2>2, PutFacts
<1> QED
  BY <1>1, <1>4

(* The call that the plugin may hold.                                      *)
LEMMA CallFacts ==
  ASSUME TypeOK, InOrder, Sending
  PROVE  Call \in Held /\ Call.place = W.place /\ (Call.byName => W.place \in FnNames)
<1>1. W.place \in Places /\ W.value \in Values
  BY WriteFacts DEF Sending, Working
<1>2. Reached(Endpoint) \in Programs
  BY ReachedFacts
<1>3. cur \in Values \union {Blank}
  BY DEF TypeOK
<1>4. pc = "byname" => W.place \in FnNames
  BY DEF InOrder
<1> QED
  BY <1>1, <1>2, <1>3, <1>4 DEF Call, Held

(* What earlier calls left with the plugin stays what the summary says.    *)
LEMMA HeldKept ==
  ASSUME TypeOK, HeldHasFailed, pc # "done", pass' = pass, k' \in Nat, k' >= k,
         late' \subseteq late,
         \A i \in 1..Len(pass) : i < k /\ result' # <<>> => result # <<>> /\ result'[i] = result[i]
  PROVE  HeldHasFailed'
<1>1. ASSUME NEW h \in late
      PROVE  /\ h.byName => h.place \in FnNames
             /\ \E i \in 1..Len(pass) :
                   i < k' /\ pass[i].place = h.place /\ (result' # <<>> => result'[i] = "failed")
  <2>1. PICK i \in 1..Len(pass) : i < k /\ pass[i].place = h.place
                                  /\ (result # <<>> => result[i] = "failed")
    BY DEF HeldHasFailed
  <2>2. i < k'
    BY <2>1, PassFacts DEF TypeOK
  <2> QED
    BY <2>1, <2>2 DEF HeldHasFailed
<1> QED
  BY <1>1 DEF HeldHasFailed

\* The write in progress may be settled as applied.
NameSeen ==
    \/ dry
    \/ W.place \notin FnNames
    \/ /\ UNCHANGED content
       /\ listed' = {} => content[Home][W.place] = W.value

(* A call of the loop that ends one way or another, with what it may have  *)
(* done to Ghidra, keeps the invariant, if a name that it settles as       *)
(* applied has been seen in place.                                         *)
LEMMA StepKeeps ==
  ASSUME AnnotatorInv, pc \in Working, UNCHANGED <<active, passVars>>,
         \/ \E o \in Results : Settle(o) /\ (o = "applied" => NameSeen)
         \/ Abort
         \/ MayRetry /\ Retry
         \/ ~dry /\ Forget("verify")
         \/ W.place \in FnNames /\ Goto("current"),
         \/ UNCHANGED <<content, quiet>>
         \/ Sending /\ Take,
         late' = late \/ (Sending /\ Settle("failed") /\ late' = late \union {Call}),
         listed \subseteq listed', listed' \subseteq Endpoints,
         byName' \in Nat, sure' \in BOOLEAN
  PROVE  AnnotatorInv'
<1>1. TypeOK /\ InOrder /\ HeldHasFailed /\ CountedNamesTook
  BY DEF AnnotatorInv
<1>2. k \in 1..Len(pass) /\ Len(result) = Len(pass) /\ W \in Writes
  BY <1>1, WriteFacts
<1>3. /\ LoopOK' /\ InOrder'
      /\ k' >= k
      /\ pc' \notin {"guard", "byname"}
      /\ result' = <<>> \/ (Len(result') = Len(pass) /\ \A i \in 1..Len(pass) : i < k => result'[i] = result[i])
  BY <1>1, LoopStep DEF passVars
<1>4. /\ content' \in [Programs -> [Places -> Values \union {Blank}]]
      /\ quiet' \in BOOLEAN
      /\ quiet' => quiet
      /\ quiet' => \A q \in Programs, g \in Places :
                      g # W.place => content'[q][g] = content[q][g]
  <2>1. CASE UNCHANGED <<content, quiet>>
    BY <1>1, <2>1 DEF TypeOK
  <2>2. CASE Sending /\ Take
    BY <1>1, <2>2, TakeFacts
  <2> QED
    BY <2>1, <2>2
<1>5. TypeOK'
  <2>1. late' \subseteq Held
    BY <1>1, CallFacts DEF TypeOK
  <2>2. /\ pass' = pass /\ prog' = prog /\ dry' = dry /\ active' = active
    BY DEF passVars
  <2> QED
    BY <1>1, <1>3, <1>4, <2>1, <2>2 DEF TypeOK, LoopOK
<1>6. HeldHasFailed'
  <2>1. CASE late' = late
    BY <1>1, <1>2, <1>3, <2>1, HeldKept DEF passVars, Working, LoopOK
  <2>2. CASE Sending /\ Settle("failed") /\ late' = late \union {Call}
    <3>1. /\ Call.byName => Call.place \in FnNames
          /\ k < k' /\ pass'[k].place = Call.place /\ result'[k] = "failed"
      BY <1>1, <1>2, <2>2, CallFacts DEF Settle, TypeOK, passVars, W
    <3>2. ASSUME NEW h \in late
          PROVE  /\ h.byName => h.place \in FnNames
                 /\ \E i \in 1..Len(pass') :
                       /\ i < k' \/ pc' = "done"
                       /\ pass'[i].place = h.place
                       /\ result' # <<>> => result'[i] = "failed"
      <4>1. PICK i \in 1..Len(pass) : i < k /\ pass[i].place = h.place
                                      /\ (result # <<>> => result[i] = "failed")
        BY <1>1 DEF HeldHasFailed, Working
      <4>2. i < k' /\ pass' = pass /\ (result' # <<>> => result'[i] = "failed")
        BY <1>1, <1>2, <1>3, <4>1, PassFacts DEF passVars, LoopOK, TypeOK
      <4> QED
        BY <1>1, <4>1, <4>2 DEF HeldHasFailed
    <3>3. \A h \in late' : h \in late \/ h = Call
      BY <2>2
    <3>4. k \in 1..Len(pass')
      BY <1>2 DEF passVars
    <3> QED
      BY <3>1, <3>2, <3>3, <3>4 DEF HeldHasFailed
  <2> QED
    BY <2>1, <2>2
<1>7. FallbackIsFresh'
  BY <1>3 DEF FallbackIsFresh
<1>8. CountedNamesTook'
  <2> SUFFICES ASSUME quiet', listed' = {}, ~dry', NEW i \in 1..Len(result'),
                      result'[i] = "applied", pass'[i].place \in FnNames
               PROVE  content'[Home'][pass'[i].place] = pass'[i].value
    BY DEF CountedNamesTook
  <2>1. quiet /\ listed = {} /\ ~dry /\ Home' = Home /\ pass' = pass
    BY <1>4 DEF passVars, Home
  <2>2. Home \in Programs
    BY <1>1 DEF Home, TypeOK
  <2>3. i \in 1..Len(pass)
    BY <1>3
  <2>4. CASE i < k
    <3>1. result[i] = "applied" /\ i \in 1..Len(result)
      BY <1>2, <1>3, <2>3, <2>4
    <3>2. content[Home][pass[i].place] = pass[i].value
      BY <1>1, <2>1, <3>1 DEF CountedNamesTook
    <3>3. pass[i].place # W.place /\ pass[i].place \in Places
      BY <1>1, <1>2, <2>1, <2>3, <2>4, PassFacts DEF W, Places
    <3> QED
      BY <1>4, <2>1, <2>2, <3>2, <3>3
  <2>5. CASE i >= k
    <3>1. i = k /\ NameSeen
      <4>1. result # <<>> /\ result[i] = "open"
        BY <1>1, <1>2, <2>3, <2>5 DEF InOrder
      <4>2. PICK o \in Results : Settle(o) /\ (o = "applied" => NameSeen)
        BY <1>2, <4>1 DEF Abort, Retry, Forget, Goto
      <4>3. result' = [result EXCEPT ![k] = o]
        BY <4>2 DEF Settle
      <4> QED
        BY <1>1, <1>2, <2>3, <4>1, <4>2, <4>3 DEF TypeOK
    <3> QED
      BY <2>1, <3>1 DEF W, NameSeen
  <2>6. i < k \/ i >= k
    BY <1>2, <2>3
  <2> QED
    BY <2>4, <2>5, <2>6
<1> QED
  BY <1>3, <1>5, <1>6, <1>7, <1>8 DEF AnnotatorInv

LEMMA ListFacts ==
  ASSUME TypeOK, NEW e \in Endpoints, List(e)
  PROVE  /\ listed \subseteq listed' /\ listed' \subseteq Endpoints
         /\ listed' = {} => Reached(e) = Home
<1>1. listed \subseteq Endpoints
  BY DEF TypeOK
<1>2. listed' = listed \union {e} \/ (listed' = listed /\ (prog = NoProgram \/ e \in Scoped))
  BY DEF List
<1> QED
  BY <1>1, <1>2 DEF Reached, Home

(* The six outcomes of a write.                                            *)
LEMMA WritesKeep ==
  ASSUME AnnotatorInv,
         \/ WriteTakes \/ WriteIgnored \/ WriteRefused \/ WriteLost \/ WriteRaises
         \/ WriteIsSubset
  PROVE  AnnotatorInv'
<1>1. TypeOK /\ InOrder
  BY DEF AnnotatorInv
<1>2. pc \in Working /\ Sending
  BY DEF WriteTakes, WriteIgnored, WriteRefused, WriteLost, WriteRaises, WriteIsSubset,
         Sending, Working
<1>3. listed \subseteq listed' /\ listed' \subseteq Endpoints
  <2>1. Endpoint \in Endpoints
    BY DEF Endpoint, EndpointOf, Endpoints
  <2>2. List(Endpoint)
    BY DEF WriteTakes, WriteIgnored, WriteRefused, WriteLost, WriteRaises, WriteIsSubset
  <2> QED
    BY <1>1, <2>1, <2>2, ListFacts
<1>4. byName' \in Nat
  BY <1>1 DEF TypeOK, WriteTakes, WriteIgnored, WriteRefused, WriteLost, WriteRaises,
              WriteIsSubset, ghostVars
<1>5. sure' \in BOOLEAN
  BY <1>1 DEF TypeOK, WriteTakes, WriteIgnored, WriteRefused, WriteLost, WriteRaises,
              WriteIsSubset, ghostVars
<1>6. UNCHANGED <<active, passVars>>
  BY DEF WriteTakes, WriteIgnored, WriteRefused, WriteLost, WriteRaises, WriteIsSubset,
         ghidraVars, passVars
<1>7. ASSUME Accepted
      PROVE  \/ \E o \in Results : Settle(o) /\ (o = "applied" => NameSeen)
             \/ ~dry /\ Forget("verify")
  BY <1>7 DEF Accepted, NameSeen, Verified, Results
<1>8. CASE WriteTakes
  <2>1. Accepted /\ Take /\ UNCHANGED late
    BY <1>8 DEF WriteTakes
  <2> QED
    BY <1>2, <1>3, <1>4, <1>5, <1>6, <1>7, <2>1, StepKeeps
<1>9. CASE WriteIgnored
  <2>1. Accepted /\ UNCHANGED <<content, late, quiet>>
    BY <1>9 DEF WriteIgnored, ghidraVars
  <2> QED
    BY <1>2, <1>3, <1>4, <1>5, <1>6, <1>7, <2>1, StepKeeps
<1>10. CASE WriteRefused
  <2>1. Settle("existing") \/ Settle("failed")
    BY <1>10 DEF WriteRefused
  <2>2. \E o \in Results : Settle(o) /\ (o = "applied" => NameSeen)
    BY <2>1 DEF Results
  <2>3. UNCHANGED <<content, late, quiet>>
    BY <1>10 DEF WriteRefused, ghidraVars, ghostVars
  <2> QED
    BY <1>2, <1>3, <1>4, <1>5, <1>6, <2>2, <2>3, StepKeeps
<1>11. CASE WriteLost
  <2>1. Settle("failed")
    BY <1>11 DEF WriteLost
  <2>2. \E o \in Results : Settle(o) /\ (o = "applied" => NameSeen)
    BY <2>1 DEF Results
  <2>3. \/ Take /\ UNCHANGED late
        \/ late' = late \union {Call} /\ UNCHANGED <<content, quiet>>
    BY <1>11 DEF WriteLost
  <2> QED
    BY <1>2, <1>3, <1>4, <1>5, <1>6, <2>1, <2>2, <2>3, StepKeeps
<1>12. CASE WriteRaises
  <2>1. /\ Abort
        /\ UNCHANGED <<content, quiet>> \/ Take
        /\ UNCHANGED late
    BY <1>12 DEF WriteRaises
  <2> QED
    BY <1>2, <1>3, <1>4, <1>5, <1>6, <2>1, StepKeeps
<1>13. CASE WriteIsSubset
  <2>1. /\ W.place \in FnNames /\ Goto("current")
        /\ UNCHANGED <<content, late, quiet>>
    BY <1>13 DEF WriteIsSubset, ghidraVars, ghostVars
  <2> QED
    BY <1>2, <1>3, <1>4, <1>5, <1>6, <2>1, StepKeeps
<1> QED
  BY <1>8, <1>9, <1>10, <1>11, <1>12, <1>13

(* Steps that call, but write nothing, and those of the guard that end the *)
(* write.                                                                  *)
LEMMA ReadsKeep ==
  ASSUME AnnotatorInv, pc \in Working,
         UNCHANGED <<ghidraVars, passVars, byName, ghostVars>>,
         listed \subseteq listed', listed' \subseteq Endpoints,
         \/ \E o \in Results : Settle(o) /\ (o = "applied" => NameSeen)
         \/ Abort
         \/ MayRetry /\ Retry
  PROVE  AnnotatorInv'
<1>1. UNCHANGED <<active, passVars>> /\ UNCHANGED <<content, quiet>> /\ late' = late
  BY DEF ghidraVars, ghostVars
<1>2. byName' \in Nat /\ sure' \in BOOLEAN
  BY DEF AnnotatorInv, TypeOK, ghostVars
<1> QED
  BY <1>1, <1>2, StepKeeps

(* The name is read back.                                                  *)
LEMMA ReadBackKeeps ==
  ASSUME AnnotatorInv, ReadBackAgrees \/ ReadBackDiffers \/ ReadBackRaises
  PROVE  AnnotatorInv'
<1>1. /\ pc \in Working
      /\ List("get_function_by_address")
      /\ UNCHANGED <<ghidraVars, passVars, byName, ghostVars>>
  BY DEF ReadBackAgrees, ReadBackDiffers, ReadBackRaises, Working
<1>2. /\ listed \subseteq listed' /\ listed' \subseteq Endpoints
      /\ listed' = {} => Reached("get_function_by_address") = Home
  BY <1>1, ListFacts DEF AnnotatorInv, Endpoints
<1>3. CASE ReadBackAgrees
  <2>1. NameSeen
    BY <1>1, <1>2, <1>3 DEF NameSeen, ReadBackAgrees, ReadBack, ghidraVars
  <2>2. Settle("applied") /\ "applied" \in Results
    BY <1>3 DEF ReadBackAgrees, Results
  <2> QED
    BY <1>1, <1>2, <2>1, <2>2, ReadsKeep
<1>4. CASE ReadBackDiffers
  <2>1. Settle("differs") \/ (MayRetry /\ Retry)
    BY <1>4 DEF ReadBackDiffers
  <2>2. "differs" \in Results
    BY DEF Results
  <2> QED
    BY <1>1, <1>2, <2>1, <2>2, ReadsKeep
<1>5. CASE ReadBackRaises
  BY <1>1, <1>2, <1>5, ReadsKeep DEF ReadBackRaises
<1> QED
  BY <1>3, <1>4, <1>5

(* The fallback reads the name and checks it.                              *)
LEMMA FallbackKeeps ==
  ASSUME AnnotatorInv, ReadCurrent \/ GuardPasses \/ GuardRefuses
  PROVE  AnnotatorInv'
<1>1. TypeOK /\ InOrder /\ HeldHasFailed /\ FallbackIsFresh /\ CountedNamesTook
  BY DEF AnnotatorInv
<1>2. /\ pc \in Working
      /\ UNCHANGED <<ghidraVars, passVars, byName, ghostVars>>
  BY DEF ReadCurrent, GuardPasses, GuardRefuses, Working
<1>3. listed \subseteq listed' /\ listed' \subseteq Endpoints
  <2>1. List("get_function_by_address") \/ listed' = listed
    BY DEF ReadCurrent, GuardPasses, GuardRefuses
  <2>2. "get_function_by_address" \in Endpoints
    BY DEF Endpoints
  <2> QED
    BY <1>1, <2>1, <2>2, ListFacts DEF TypeOK
<1>4. CASE \/ Settle("failed")
           \/ Abort
  <2>1. Abort \/ \E o \in Results : Settle(o) /\ (o = "applied" => NameSeen)
    BY <1>4 DEF Results
  <2> QED
    BY <1>2, <1>3, <2>1, ReadsKeep
<1>5. ASSUME pc' \in {"guard", "byname"}, UNCHANGED <<k, attempt, result>>,
             cur' \in Values \union {Blank},
             pc \in {"current", "guard"},
             FallbackIsFresh'
      PROVE  AnnotatorInv'
  <2>1. TypeOK'
    BY <1>1, <1>2, <1>3, <1>5 DEF TypeOK, ghidraVars, passVars, ghostVars
  <2>2. W' = W /\ pass' = pass
    BY <1>2, <1>5 DEF W, passVars
  <2>3. InOrder'
    BY <1>1, <1>5, <2>2 DEF InOrder
  <2>4. HeldHasFailed'
    BY <1>1, <1>2, <1>5 DEF HeldHasFailed, ghidraVars, passVars
  <2>5. CountedNamesTook'
    <3>1. UNCHANGED <<content, active, pass, prog, dry, quiet, result>> /\ Home' = Home
      BY <1>2, <1>5 DEF ghidraVars, passVars, ghostVars, Home
    <3>2. listed' = {} => listed = {}
      BY <1>3
    <3> QED
      BY <1>1, <3>1, <3>2 DEF CountedNamesTook
  <2> QED
    BY <1>5, <2>1, <2>3, <2>4, <2>5 DEF AnnotatorInv
<1>6. CASE ReadCurrent /\ ~Settle("failed") /\ ~Abort
  <2>1. /\ pc = "current" /\ pc' = "guard" /\ UNCHANGED <<k, attempt, result>>
        /\ cur' = content[Reached("get_function_by_address")][W.place]
    BY <1>6 DEF ReadCurrent
  <2>2. cur' \in Values \union {Blank}
    <3>1. Reached("get_function_by_address") \in Programs /\ W.place \in Places
      BY <1>1, <1>2, ReachedFacts, WriteFacts
    <3> QED
      BY <1>1, <2>1, <3>1 DEF TypeOK
  <2>3. FallbackIsFresh'
    <3>1. W' = W /\ UNCHANGED <<content, active, prog>>
      BY <1>2, <2>1 DEF W, ghidraVars, passVars
    <3>2. Reached("get_function_by_address")' = Reached("get_function_by_address")
      BY <3>1 DEF Reached
    <3> QED
      BY <2>1, <3>1, <3>2 DEF FallbackIsFresh
  <2> QED
    BY <1>5, <2>1, <2>2, <2>3
<1>7. CASE GuardPasses
  <2>1. /\ pc = "guard" /\ pc' = "byname" /\ UNCHANGED <<k, attempt, cur, result>>
        /\ sure => ~Shared(cur)
    BY <1>7 DEF GuardPasses, Goto
  <2>2. cur' \in Values \union {Blank}
    BY <1>1, <2>1 DEF TypeOK
  <2>3. FallbackIsFresh'
    <3>1. W' = W /\ UNCHANGED <<content, active, prog, sure>>
      BY <1>2, <2>1 DEF W, ghidraVars, passVars, ghostVars
    <3>2. Reached("get_function_by_address")' = Reached("get_function_by_address")
      BY <3>1 DEF Reached
    <3>3. Shared(cur)' = Shared(cur)
      BY <2>1, <3>1 DEF Shared, Named
    <3> QED
      BY <1>1, <2>1, <3>1, <3>2, <3>3 DEF FallbackIsFresh
  <2> QED
    BY <1>5, <2>1, <2>2, <2>3
<1> QED
  BY <1>4, <1>6, <1>7 DEF GuardRefuses

(* The pass begins, and ends.                                              *)
LEMMA EndsKeep ==
  ASSUME AnnotatorInv, Save \/ Caller
  PROVE  AnnotatorInv'
<1>1. TypeOK /\ InOrder /\ HeldHasFailed /\ FallbackIsFresh /\ CountedNamesTook
  BY DEF AnnotatorInv
<1>2. CASE Save
  <2>1. /\ pc = "save" /\ pc' = "done"
        /\ UNCHANGED <<k, attempt, ghidraVars, passVars, byName, ghostVars>>
        /\ (cur' = cur /\ result' = result) \/ (cur' = Blank /\ result' = <<>>)
    BY <1>2 DEF Save, Goto, Abort
  <2>2. listed \subseteq listed' /\ listed' \subseteq Endpoints
    <3>1. List("save_program") /\ "save_program" \in Endpoints
      BY <1>2 DEF Save, Endpoints
    <3> QED
      BY <1>1, <3>1, ListFacts
  <2>3. TypeOK'
    <3>1. cur' \in Values \union {Blank} /\ result' \in Seq(Results)
      <4>1. cur \in Values \union {Blank} /\ result \in Seq(Results) /\ <<>> \in Seq(Results)
        BY <1>1 DEF TypeOK
      <4> QED
        BY <2>1, <4>1
    <3> QED
      BY <1>1, <2>1, <2>2, <3>1 DEF TypeOK, ghidraVars, passVars, ghostVars
  <2>4. InOrder'
    BY <1>1, <2>1 DEF InOrder, passVars
  <2>5. HeldHasFailed'
    BY <1>1, <2>1 DEF HeldHasFailed, ghidraVars, passVars
  <2>6. FallbackIsFresh'
    BY <2>1 DEF FallbackIsFresh
  <2>7. CountedNamesTook'
    <3>1. UNCHANGED <<content, active, pass, prog, dry, quiet>> /\ Home' = Home
      BY <2>1 DEF ghidraVars, passVars, ghostVars, Home
    <3>2. listed' = {} => listed = {}
      BY <2>2
    <3>3. CASE result' = result
      BY <1>1, <3>1, <3>2, <3>3 DEF CountedNamesTook
    <3>4. CASE result' = <<>>
      BY <3>4 DEF CountedNamesTook
    <3> QED
      BY <2>1, <3>3, <3>4
  <2> QED
    BY <2>3, <2>4, <2>5, <2>6, <2>7 DEF AnnotatorInv
<1>3. CASE Caller
  <2>1. PICK todo \in Passes, p \in Programs \union {NoProgram}, d \in BOOLEAN : Begin(todo, p, d)
    BY <1>3 DEF Caller
  <2>2. /\ pc = "ready" /\ late = {} /\ late' = {}
        /\ pass' = todo /\ prog' = p /\ dry' = d
        /\ pc' \in {"write", "save", "done"} /\ (pc' = "write" => todo # <<>>)
        /\ result' = [i \in 1..Len(todo) |-> "open"]
        /\ UNCHANGED <<content, active, k, attempt, cur, byName, listed, sure, quiet>>
    BY <1>1, <2>1 DEF Begin, InOrder, ghidraVars, ghostVars
  <2>3. todo \in Seq(Writes)
    BY PassesAssumption DEF PassesAssumption
  <2>4. result' \in Seq(Results) /\ Len(result') = Len(todo)
        /\ \A i \in 1..Len(result') : result'[i] = "open"
    BY <2>2, <2>3 DEF Results
  <2>5. TypeOK'
    BY <1>1, <2>2, <2>4 DEF TypeOK
  <2>6. k = 1
    BY <1>1, <2>2 DEF InOrder
  <2>7. InOrder'
    BY <2>2, <2>3, <2>4, <2>6 DEF InOrder
  <2>8. HeldHasFailed'
    BY <2>2 DEF HeldHasFailed
  <2>9. FallbackIsFresh'
    BY <2>2 DEF FallbackIsFresh
  <2>10. CountedNamesTook'
    BY <2>4 DEF CountedNamesTook
  <2> QED
    BY <2>5, <2>7, <2>8, <2>9, <2>10 DEF AnnotatorInv
<1> QED
  BY <1>2, <1>3

(* What the plugin makes late, and what others do.                         *)
LEMMA OthersKeep ==
  ASSUME AnnotatorInv, Others
  PROVE  AnnotatorInv'
<1>1. TypeOK /\ InOrder /\ HeldHasFailed /\ FallbackIsFresh /\ CountedNamesTook
  BY DEF AnnotatorInv
<1>2. UNCHANGED <<passVars, loopVars, reportVars>>
  BY DEF Others, LateTakes, OutsideSwitch, OutsideEdit
<1>3. W' = W /\ pass' = pass /\ result' = result /\ prog' = prog
  BY <1>2 DEF W, passVars, loopVars, reportVars
<1>4. \/ \E h \in late : LateTakes(h)
      \/ \E p \in Programs, f \in FnNames, v \in Values : OutsideEdit(p, f, v)
      \/ \E p \in Programs : OutsideSwitch(p)
  BY DEF Others
<1>5. ASSUME content' \in [Programs -> [Places -> Values \union {Blank}]],
             active' \in Programs, late' \subseteq late,
             sure' \in BOOLEAN, quiet' \in BOOLEAN,
             FallbackIsFresh', CountedNamesTook'
      PROVE  AnnotatorInv'
  <2>1. TypeOK'
    BY <1>1, <1>2, <1>5 DEF TypeOK, passVars, loopVars, reportVars
  <2>2. InOrder'
    BY <1>1, <1>2, <1>3, <1>5 DEF InOrder, passVars, loopVars, reportVars
  <2>3. HeldHasFailed'
    BY <1>1, <1>2, <1>3, <1>5 DEF HeldHasFailed, loopVars, reportVars
  <2> QED
    BY <1>5, <2>1, <2>2, <2>3 DEF AnnotatorInv
<1>6. CASE \E p \in Programs, f \in FnNames, v \in Values : OutsideEdit(p, f, v)
  <2>1. PICK p \in Programs, f \in FnNames, v \in Values : OutsideEdit(p, f, v)
    BY <1>6
  <2>2. /\ Put(p, f, v) /\ quiet' = FALSE /\ sure' = FALSE
        /\ UNCHANGED <<active, late>>
    BY <2>1 DEF OutsideEdit
  <2>3. content' \in [Programs -> [Places -> Values \union {Blank}]]
    BY <1>1, <2>2, PutFacts DEF TypeOK, Places
  <2>4. FallbackIsFresh' /\ CountedNamesTook'
    BY <2>2 DEF FallbackIsFresh, CountedNamesTook
  <2> QED
    BY <1>1, <1>5, <2>2, <2>3, <2>4 DEF TypeOK
<1>7. CASE \E p \in Programs : OutsideSwitch(p)
  <2>1. PICK p \in Programs : OutsideSwitch(p)
    BY <1>7
  <2>2. /\ active' = p /\ quiet' = (quiet /\ prog # NoProgram) /\ sure' = FALSE
        /\ UNCHANGED <<content, late>>
    BY <2>1 DEF OutsideSwitch
  <2>3. FallbackIsFresh'
    BY <2>2 DEF FallbackIsFresh
  <2>4. CountedNamesTook'
    <3>1. quiet' => quiet /\ Home' = Home
      BY <1>3, <2>2 DEF Home
    <3>2. UNCHANGED <<content, pass, dry, result, listed>>
      BY <1>2, <2>2 DEF passVars, loopVars, reportVars
    <3> QED
      BY <1>1, <3>1, <3>2 DEF CountedNamesTook
  <2>5. quiet' \in BOOLEAN /\ sure' \in BOOLEAN
    BY <2>2
  <2>6. content' \in [Programs -> [Places -> Values \union {Blank}]]
    BY <1>1, <2>2 DEF TypeOK
  <2> QED
    BY <1>5, <2>2, <2>3, <2>4, <2>5, <2>6
<1>8. CASE \E h \in late : LateTakes(h)
  <2>1. PICK h \in late : LateTakes(h)
    BY <1>8
  <2>2. h \in Held /\ (h.byName => h.place \in FnNames)
    BY <1>1 DEF TypeOK, HeldHasFailed
  <2>3. PICK f \in (IF h.byName THEN Named(h.prog, h.old) ELSE {h.place}) :
           Put(h.prog, f, h.value) /\ quiet' = (quiet /\ f = h.place)
    BY <2>1 DEF LateTakes
  <2>4. /\ late' \subseteq late /\ active' = active
        /\ sure' = (sure /\ h.place \notin FnNames)
    BY <2>1 DEF LateTakes
  <2>5. h.prog \in Programs /\ h.place \in Places /\ h.value \in Values /\ f \in Places
    BY <2>2, <2>3 DEF Held, Named, Places
  <2>6. /\ content' \in [Programs -> [Places -> Values \union {Blank}]]
        /\ \A q \in Programs, g \in Places : g # f => content'[q][g] = content[q][g]
    <3>1. content \in [Programs -> [Places -> Values \union {Blank}]]
      BY <1>1 DEF TypeOK
    <3> QED
      BY <2>3, <2>5, <3>1, PutFacts
  <2>7. FallbackIsFresh'
    <3> SUFFICES ASSUME sure', pc' \in {"guard", "byname"}
                 PROVE  /\ active' = Reached("get_function_by_address")' =>
                              content'[active'][W.place] = cur'
                        /\ pc' = "byname" => ~Shared(cur)'
      BY <1>3 DEF FallbackIsFresh
    <3>1. sure /\ h.place \notin FnNames /\ f = h.place
      BY <2>2, <2>3, <2>4
    <3>2. /\ active \in Programs /\ pc' = pc /\ cur' = cur /\ active' = active
          /\ Reached("get_function_by_address")' = Reached("get_function_by_address")
      BY <1>1, <1>2, <1>3, <2>4 DEF TypeOK, loopVars, Reached
    <3>3. \A g \in FnNames : content'[active][g] = content[active][g]
      BY <2>6, <3>1, <3>2 DEF Places
    <3>4. W.place \in FnNames
      BY <1>1, <3>2 DEF InOrder
    <3>5. Shared(cur)' = Shared(cur)
      BY <3>2, <3>3 DEF Shared, Named
    <3> QED
      BY <1>1, <3>1, <3>2, <3>3, <3>4, <3>5 DEF FallbackIsFresh
  <2>8. CountedNamesTook'
    <3> SUFFICES ASSUME quiet', listed' = {}, ~dry', NEW i \in 1..Len(result'),
                        result'[i] = "applied", pass'[i].place \in FnNames
                 PROVE  content'[Home'][pass'[i].place] = pass'[i].value
      BY DEF CountedNamesTook
    <3>1. /\ quiet /\ f = h.place /\ listed = {} /\ ~dry /\ Home' = Home
          /\ i \in 1..Len(result) /\ result[i] = "applied"
      BY <1>2, <1>3, <2>3, <2>4 DEF passVars, reportVars, Home
    <3>2. content[Home][pass[i].place] = pass[i].value
      BY <1>1, <1>3, <3>1 DEF CountedNamesTook
    <3>3. PICK j \in 1..Len(pass) : pass[j].place = h.place /\ (result # <<>> => result[j] = "failed")
      BY <1>1 DEF HeldHasFailed
    <3>4. pass[i].place # h.place
      <4>1. result # <<>> /\ Len(result) = Len(pass)
        BY <1>1, <3>1 DEF InOrder, TypeOK
      <4>2. i \in 1..Len(pass) /\ i # j
        BY <3>1, <3>3, <4>1
      <4> QED
        BY <1>1, <3>3, <4>2, PassFacts
    <3>5. Home \in Programs /\ pass[i].place \in Places
      BY <1>1, <1>3 DEF Home, TypeOK, Places
    <3> QED
      BY <1>3, <2>6, <3>1, <3>2, <3>4, <3>5
  <2>9. active' \in Programs /\ sure' \in BOOLEAN /\ quiet' \in BOOLEAN
    BY <1>1, <2>3, <2>4 DEF TypeOK
  <2> QED
    BY <1>5, <2>4, <2>6, <2>7, <2>8, <2>9
<1> QED
  BY <1>4, <1>6, <1>7, <1>8

LEMMA InitGives ==
  ASSUME Init
  PROVE  AnnotatorInv
<1>1. TypeOK
  <2>1. result \in Seq(Results) /\ byName \in Nat /\ k \in Nat \ {0} /\ attempt \in 1..2
    BY DEF Init
  <2>2. /\ pc \in {"ready", "write", "current", "guard", "byname", "verify", "save", "done"}
        /\ dry \in BOOLEAN /\ quiet \in BOOLEAN /\ sure \in BOOLEAN
    BY DEF Init
  <2> QED
    BY <2>1, <2>2 DEF Init, TypeOK
<1>2. InOrder /\ HeldHasFailed /\ FallbackIsFresh /\ CountedNamesTook
  BY DEF Init, InOrder, HeldHasFailed, FallbackIsFresh, CountedNamesTook
<1> QED
  BY <1>1, <1>2 DEF AnnotatorInv

(* The invariant of a pass: its types, the order of its summary, and why   *)
(* late calls and the fallback do it no harm.                              *)
THEOREM AnnotatorInvHolds == Spec => []AnnotatorInv
<1>1. AnnotatorInv /\ [Next]_vars => AnnotatorInv'
  <2>1. ASSUME AnnotatorInv, Next
        PROVE  AnnotatorInv'
    BY <2>1, WritesKeep, FallbackKeeps, ReadBackKeeps, EndsKeep, OthersKeep DEF Next, Apply
  <2>2. ASSUME AnnotatorInv, UNCHANGED vars
        PROVE  AnnotatorInv'
    <3>1. UNCHANGED <<content, active, late, pass, prog, dry, pc, k, attempt, cur, result,
                      byName, listed, sure, quiet>>
      BY <2>2 DEF vars, ghidraVars, passVars, loopVars, reportVars, ghostVars
    <3>2. TypeOK'
      BY <2>2, <3>1 DEF AnnotatorInv, TypeOK
    <3>3. InOrder' /\ HeldHasFailed'
      BY <2>2, <3>1 DEF AnnotatorInv, InOrder, HeldHasFailed, W
    <3>4. FallbackIsFresh' /\ CountedNamesTook'
      BY <2>2, <3>1 DEF AnnotatorInv, FallbackIsFresh, Shared, Named, Reached, W,
                        CountedNamesTook, Home
    <3> QED
      BY <3>2, <3>3, <3>4 DEF AnnotatorInv
  <2> QED
    BY <2>1, <2>2
<1> QED
  BY <1>1, InitGives, PTL DEF Spec

(* Every variable keeps its type.                                          *)
THEOREM TypeCorrect == Spec => []TypeOK
<1>1. AnnotatorInv => TypeOK
  BY DEF AnnotatorInv
<1> QED
  BY <1>1, AnnotatorInvHolds, PTL

(* A name that the summary counts as applied has taken: whatever was       *)
(* retried, lost, made late or sent by name.                               *)
THEOREM CountedNamesAreTrue == Spec => []CountedNamesTook
<1>1. AnnotatorInv => CountedNamesTook
  BY DEF AnnotatorInv
<1> QED
  BY <1>1, AnnotatorInvHolds, PTL

(* The rename by name hits the function of its item and no other.          *)
THEOREM FallbackIsSound == Spec => []FallbackHitsItsItem
<1>1. ASSUME AnnotatorInv
      PROVE  FallbackHitsItsItem
  <2> SUFFICES ASSUME pc = "byname", sure, active = Reached("rename_function"),
                      active = Reached("get_function_by_address")
               PROVE  Hits = {W.place}
    BY DEF FallbackHitsItsItem
  <2>1. content[active][W.place] = cur /\ ~Shared(cur) /\ W.place \in FnNames
    BY <1>1 DEF AnnotatorInv, FallbackIsFresh, InOrder
  <2>2. W.place \in Named(active, cur)
    BY <2>1 DEF Named
  <2>3. Named(active, cur) = {W.place}
    BY <2>1, <2>2 DEF Shared
  <2> QED
    BY <2>3 DEF Hits
<1> QED
  BY <1>1, AnnotatorInvHolds, PTL
=============================================================================
