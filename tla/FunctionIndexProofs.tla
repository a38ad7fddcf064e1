------------------------ MODULE FunctionIndexProofs -------------------------
(***************************************************************************)
(* Proofs about FunctionIndex, for any programs, entries, names and thunk  *)
(* groups.  IndexInv is inductive; that the index is true, that a rename   *)
(* by name hits one function only and that a redirected one is checked are *)
(* conjuncts of it.                                                        *)
(***************************************************************************)
EXTENDS FunctionIndex, TLAPS

(* What Ghidra does to a program keeps the program well formed.            *)
LEMMA GhidraKeepsThunks ==
  ASSUME fns \in [Programs -> Rows], \A q \in Programs : ThunksAgree(fns[q]),
         NEW p \in Programs, NEW e \in Entries, NEW n \in Names,
         RenameIn(p, e, n) \/ CreateIn(p, e, n) \/ DeleteIn(p, e)
  PROVE  fns' \in [Programs -> Rows] /\ \A q \in Programs : ThunksAgree(fns'[q])
<1> DEFINE f == fns'[p]
<1>1. fns[p] \in Rows /\ ThunksAgree(fns[p])
  OBVIOUS
<1>2. fns' = [fns EXCEPT ![p] = f]
  BY DEF RenameIn, CreateIn, DeleteIn
<1>3. f \in Rows /\ ThunksAgree(f)
  <2>1. CASE RenameIn(p, e, n)
    <3>1. f = Renamed(fns[p], e, n)
      BY <2>1 DEF RenameIn
    <3>2. f \in Rows
      BY <1>1, <3>1 DEF Renamed, Rows
    <3>3. \A d \in Entries :
             f[d] = IF Group[d] = Group[e] /\ fns[p][d] # NoFn THEN n ELSE fns[p][d]
      BY <3>1 DEF Renamed
    <3> QED
      BY <1>1, <3>2, <3>3 DEF ThunksAgree
  <2>2. CASE CreateIn(p, e, n)
    <3>1. f = [fns[p] EXCEPT ![e] = n]
      BY <2>2 DEF CreateIn
    <3>2. \A d \in Entries : f[d] = IF d = e THEN n ELSE fns[p][d]
      BY <1>1, <3>1 DEF Rows
    <3>3. \A d \in Entries : Group[d] = Group[e] /\ fns[p][d] # NoFn => n = fns[p][d]
      BY <2>2 DEF CreateIn
    <3> QED
      BY <1>1, <3>1, <3>2, <3>3 DEF ThunksAgree, Rows
  <2>3. CASE DeleteIn(p, e)
    <3>1. f = [fns[p] EXCEPT ![e] = NoFn]
      BY <2>3 DEF DeleteIn
    <3>2. \A d \in Entries : f[d] = IF d = e THEN NoFn ELSE fns[p][d]
      BY <1>1, <3>1 DEF Rows
    <3> QED
      BY <1>1, <3>1, <3>2 DEF ThunksAgree, Rows
  <2> QED
    BY <2>1, <2>2, <2>3
<1> QED
  BY <1>2, <1>3

(* resolver.rename patches one row in place or marks the index stale; it   *)
(* never makes a stale index trusted again, nor a row appear or vanish.    *)
LEMMA TrackRenameFacts ==
  ASSUME TypeOK, JobInv, job # NoJob, TrackRename(job)
  PROVE  /\ rows' \in Rows /\ stale' \in BOOLEAN
         /\ \A d \in Entries : rows'[d] = NoFn <=> rows[d] = NoFn
         /\ ~stale' => /\ ~stale
                       /\ \E e \in Entries :
                            /\ rows' = [rows EXCEPT ![e] = job.new]
                            /\ rows[e] # NoFn /\ rows[e] \notin dupes
                            /\ job.entry # NoFn => e = job.entry
                            /\ job.entry = NoFn => rows[e] = job.old
<1>1. job.new \in Names /\ job.entry \in Entries \union {NoFn}
  BY DEF TypeOK, JobInv, Jobs
<1>2. ASSUME NEW e \in Entries, PatchRow(e, job.new)
      PROVE  /\ rows' \in Rows /\ stale' \in BOOLEAN
             /\ \A d \in Entries : rows'[d] = NoFn <=> rows[d] = NoFn
             /\ ~stale' => /\ ~stale
                           /\ rows' = [rows EXCEPT ![e] = job.new]
                           /\ rows[e] # NoFn /\ rows[e] \notin dupes
  BY <1>1, <1>2, ConstantsAssumption DEF ConstantsAssumption, PatchRow, TypeOK, Rows
<1>3. CASE job.entry # NoFn /\ PatchRow(job.entry, job.new)
  BY <1>1, <1>2, <1>3
<1>4. CASE job.entry = NoFn /\ PatchNamed(job.old, job.new)
  <2>1. CASE Named(rows, job.old) = {} /\ stale' = TRUE /\ UNCHANGED rows
    BY <2>1 DEF TypeOK
  <2>2. ASSUME NEW e \in Named(rows, job.old), PatchRow(e, job.new)
        PROVE  e \in Entries /\ rows[e] = job.old
    BY DEF Named
  <2> QED
    BY <1>2, <1>4, <2>1, <2>2 DEF PatchNamed
<1>5. CASE stale' = TRUE /\ UNCHANGED rows
  BY <1>5 DEF TypeOK
<1> QED
  BY <1>3, <1>4, <1>5 DEF TrackRename

-----------------------------------------------------------------------------
(* The initial state satisfies the inductive invariant.                    *)
LEMMA InitIndexInv == Init => IndexInv
<1> SUFFICES ASSUME Init PROVE IndexInv
  OBVIOUS
<1>1. Empty \in Rows /\ NoJob \in Jobs
  BY DEF Empty, Rows, NoJob, Jobs
<1>2. TypeOK
  BY <1>1 DEF Init, TypeOK
<1>3. JobInv
  BY DEF Init, JobInv
<1>4. TruthInv
  BY DEF Init, TruthInv, PresenceInv, SharedInv, IndexIsTrue, NoArbitraryRename,
         Settled
<1> QED
  BY <1>2, <1>3, <1>4 DEF Init, IndexInv, FrameInv

-----------------------------------------------------------------------------
(* A step keeps the types, the thunks and the control.                     *)
LEMMA StepFrameInv == IndexInv /\ [Next]_vars => FrameInv'
<1> SUFFICES ASSUME IndexInv, [Next]_vars PROVE FrameInv'
  OBVIOUS
<1> USE DEF IndexInv, FrameInv, ghidraVars, indexVars, callVars
<1>0. Empty \in Rows /\ NoJob \in Jobs
  BY DEF Empty, Rows, NoJob, Jobs
<1>1. CASE UNCHANGED vars
  BY <1>1 DEF vars, TypeOK, JobInv, ThunksAgree
<1>2. CASE Ask
  <2>1. PICK p \in Selectors, n \in Names :
          \/ \E old \in Names : AskByName(p, old, n)
          \/ \E e \in Entries :
                \/ AskByAddress(p, e, n)
                \/ \E old \in Names \union {NoFn} :
                      AskRedirected(p, e, old, n) \/ AskRedirectedUnread(p, e, old, n)
    BY <1>2 DEF Ask
  <2>2. UNCHANGED <<fns, active, rows, dupes, stale>> /\ sure' \in BOOLEAN
    BY <2>1 DEF AskByName, AskByAddress, AskRedirected, AskRedirectedUnread, Start, TypeOK
  <2>3. job' \in Jobs /\ pc' \in {"guard", "byaddr"} /\ JobInv'
    <3>1. ASSUME NEW old \in Names, AskByName(p, old, n) PROVE job' \in Jobs /\ pc' \in {"guard", "byaddr"} /\ JobInv'
      BY <3>1, ConstantsAssumption DEF ConstantsAssumption, AskByName, Start, Jobs, JobInv, NoJob, Selectors
    <3>2. ASSUME NEW e \in Entries, NEW old \in Names \union {NoFn},
                 job' = [prog |-> p, entry |-> e, old |-> old, new |-> n], pc' = "byaddr"
          PROVE  job' \in Jobs /\ pc' \in {"guard", "byaddr"} /\ JobInv'
      BY <3>2 DEF Jobs, JobInv, Selectors
    <3> QED
      BY <2>1, <3>1, <3>2 DEF AskByAddress, AskRedirected, AskRedirectedUnread, Start
  <2> QED
    BY <2>2, <2>3 DEF TypeOK, ThunksAgree
<1>3. CASE Rename
  <2>1. CASE GuardRefreshes \/ GuardPasses
    BY <2>1 DEF GuardRefreshes, GuardPasses, TypeOK, JobInv, ThunksAgree
  <2>2. CASE GuardRefuses
    BY <1>0, <2>2 DEF GuardRefuses, TypeOK, JobInv, ThunksAgree
  <2>3. ASSUME Sending, Finish PROVE pc' \in {"idle"} /\ job' \in Jobs /\ JobInv'
    BY <1>0, <2>3 DEF Finish, JobInv
  <2>4. ASSUME Sending
        PROVE  Target(job) \in Programs /\ job # NoJob /\ job.new \in Names /\ Candidates \subseteq Entries
    <3>1. job # NoJob
      BY <2>4, ConstantsAssumption DEF ConstantsAssumption, Sending, JobInv, NoJob
    <3>2. job.new \in Names /\ job.prog \in Programs \union {NoProgram} /\ active \in Programs
      BY <3>1 DEF JobInv, TypeOK, Jobs
    <3>3. Candidates \subseteq Entries
      BY DEF Candidates, JobInv, Named
    <3> QED
      BY <3>1, <3>2, <3>3 DEF Target
  <2>5. CASE SendRename
    <3>1. PICK e \in Candidates : RenameIn(Target(job), e, job.new)
      BY <2>5 DEF SendRename
    <3>2. fns' \in [Programs -> Rows] /\ \A p \in Programs : ThunksAgree(fns'[p])
      BY <2>4, <2>5, <3>1, GhidraKeepsThunks DEF SendRename, TypeOK
    <3>3. rows' \in Rows /\ stale' \in BOOLEAN /\ UNCHANGED dupes
      BY <2>4, <2>5, TrackRenameFacts DEF SendRename, TrackRename
    <3>4. active' \in Programs /\ sure' \in BOOLEAN
      BY <2>5 DEF SendRename, TypeOK
    <3> QED
      BY <2>3, <2>5, <3>2, <3>3, <3>4 DEF SendRename, TypeOK, ThunksAgree
  <2>6. CASE SendDryRun
    <3>1. rows' \in Rows /\ stale' \in BOOLEAN /\ UNCHANGED dupes
      BY <2>4, <2>6, TrackRenameFacts DEF SendDryRun, TrackRename
    <3> QED
      BY <2>3, <2>6, <3>1 DEF SendDryRun, TypeOK, ThunksAgree
  <2>7. CASE SendFails
    BY <2>3, <2>7 DEF SendFails, TypeOK, ThunksAgree
  <2> QED
    BY <1>3, <2>1, <2>2, <2>5, <2>6, <2>7 DEF Rename
<1>4. CASE Refresh
  <2>1. AfterRefresh => pc' \in {"idle", "guard"} /\ (pc' = "idle" <=> job = NoJob)
    BY DEF AfterRefresh
  <2>2. CASE Rebuild
    <3>1. rows' \in Rows /\ dupes' \in SUBSET Names
      BY <2>2 DEF Rebuild, Duplicates, TypeOK
    <3> QED
      BY <2>1, <2>2, <3>1 DEF Rebuild, TypeOK, JobInv, ThunksAgree
  <2>3. CASE RebuildRefused
    BY <1>0, <2>1, <2>3 DEF RebuildRefused, TypeOK, JobInv, ThunksAgree
  <2>4. CASE RebuildRaises
    BY <2>4 DEF RebuildRaises, TypeOK, JobInv, ThunksAgree
  <2> QED
    BY <1>4, <2>2, <2>3, <2>4 DEF Refresh
<1>5. CASE OtherCall
  <2>1. CASE RenameComponents
    <3>1. UNCHANGED <<fns, active, rows, dupes, pc, job, sure>> /\ stale' \in BOOLEAN
      BY <2>1 DEF RenameComponents
    <3> QED
      BY <3>1 DEF TypeOK, JobInv, ThunksAgree
  <2>4. CASE Find
    BY <2>4 DEF Find, TypeOK, JobInv, ThunksAgree
  <2>2. ASSUME NEW p \in Programs, Switch(p) PROVE FrameInv'
    BY <2>2 DEF Switch, TypeOK, JobInv, ThunksAgree
  <2>5. ASSUME NEW p \in Programs, Connect(p) PROVE FrameInv'
    BY <2>5 DEF Connect, TypeOK, JobInv, ThunksAgree
  <2>3. ASSUME NEW p \in Programs, NEW e \in Entries,
               Delete(p, e) \/ \E n \in Names : Create(p, e, n)
        PROVE  FrameInv'
    <3>1. fns' \in [Programs -> Rows] /\ \A q \in Programs : ThunksAgree(fns'[q])
      <4>1. CASE Delete(p, e)
        <5>1. fns[p][e] \in Names
          BY <4>1 DEF Delete, DeleteIn, TypeOK, Rows
        <5> QED
          BY <4>1, <5>1, GhidraKeepsThunks DEF Delete, TypeOK
      <4>2. CASE \E n \in Names : Create(p, e, n)
        BY <4>2, GhidraKeepsThunks DEF Create, TypeOK
      <4> QED
        BY <2>3, <4>1, <4>2
    <3>2. pc' = "refresh" /\ pc = "idle" /\ UNCHANGED <<active, rows, dupes, stale, job, sure>>
      BY <2>3 DEF Delete, Create
    <3> QED
      BY <3>1, <3>2 DEF TypeOK, JobInv, ThunksAgree
  <2> QED
    BY <1>5, <2>1, <2>2, <2>3, <2>4, <2>5 DEF OtherCall
<1>6. CASE Outside
  <2>1. PICK p \in Programs :
          \/ OutsideSwitch(p)
          \/ \E e \in Entries :
                \/ OutsideDelete(p, e)
                \/ \E n \in Names : OutsideRename(p, e, n) \/ OutsideCreate(p, e, n)
    BY <1>6 DEF Outside
  <2>2. CASE OutsideSwitch(p)
    BY <2>2 DEF OutsideSwitch, TypeOK, JobInv, ThunksAgree
  <2>3. CASE Unheard(p)
    <3>1. fns' \in [Programs -> Rows] /\ \A q \in Programs : ThunksAgree(fns'[q])
      <4>1. ASSUME NEW e \in Entries, DeleteIn(p, e) PROVE <3>1!1 /\ <3>1!2
        <5>1. fns[p][e] \in Names
          BY <4>1 DEF DeleteIn, TypeOK, Rows
        <5> QED
          BY <4>1, <5>1, GhidraKeepsThunks DEF TypeOK
      <4>2. ASSUME NEW e \in Entries, NEW n \in Names, RenameIn(p, e, n) \/ CreateIn(p, e, n)
            PROVE  <3>1!1 /\ <3>1!2
        BY <4>2, GhidraKeepsThunks DEF TypeOK
      <4>3. CASE OutsideSwitch(p)
        BY <4>3 DEF OutsideSwitch, TypeOK
      <4> QED
        BY <2>1, <4>1, <4>2, <4>3 DEF OutsideDelete, OutsideRename, OutsideCreate
    <3>2. sure' \in BOOLEAN /\ UNCHANGED <<active, rows, dupes, stale, pc, job>>
      BY <2>3 DEF Unheard, TypeOK
    <3> QED
      BY <3>1, <3>2 DEF TypeOK, JobInv, ThunksAgree
  <2> QED
    BY <2>1, <2>2, <2>3 DEF OutsideDelete, OutsideRename, OutsideCreate
<1> QED
  BY <1>1, <1>2, <1>3, <1>4, <1>5, <1>6 DEF Next

-----------------------------------------------------------------------------
(* Three easy ways for a step to keep TruthInv.                            *)

\* What it says is only said of an index nothing went past.
LEMMA UnsureKeepsTruth == ~sure' => TruthInv'
BY DEF TruthInv, PresenceInv, SharedInv, IndexIsTrue, NoArbitraryRename

\* Nothing is said while a rebuild is due.
LEMMA RefreshKeepsTruth == pc' = "refresh" => TruthInv'
BY DEF TruthInv, PresenceInv, SharedInv, IndexIsTrue, NoArbitraryRename, Settled

\* Nothing it is said of has changed.
LEMMA FrameKeepsTruth ==
  ASSUME TruthInv, pc # "refresh", UNCHANGED <<active, rows, dupes, stale, sure>>,
         fns'[active] = fns[active],
         pc' \in {"idle", "guard"} \/ UNCHANGED <<pc, job>>
  PROVE  TruthInv'
<1>1. PresenceInv' /\ SharedInv' /\ IndexIsTrue'
  BY DEF TruthInv, PresenceInv, SharedInv, IndexIsTrue, Settled
<1>2. CASE pc' \in {"idle", "guard"}
  BY <1>1, <1>2 DEF TruthInv, NoArbitraryRename
<1>3. CASE UNCHANGED <<pc, job>>
  <2>1. Target(job)' = Target(job)
    BY <1>3 DEF Target
  <2>2. NoArbitraryRename'
    BY <1>3, <2>1 DEF TruthInv, NoArbitraryRename, Named
  <2> QED
    BY <1>1, <2>2 DEF TruthInv
<1> QED
  BY <1>2, <1>3

(* A rebuilt index is true, and knows the names that thunks share.         *)
LEMMA RebuildMakesTruth == FrameInv /\ Rebuild => TruthInv'
<1> SUFFICES ASSUME FrameInv, Rebuild PROVE TruthInv'
  OBVIOUS
<1>1. rows' = fns[active] /\ dupes' = Duplicates(fns[active]) /\ UNCHANGED <<fns, active>>
  BY DEF Rebuild, ghidraVars
<1>2. pc' \in {"idle", "guard"}
  BY DEF Rebuild, AfterRefresh
<1>3. PresenceInv' /\ IndexIsTrue'
  BY <1>1 DEF PresenceInv, IndexIsTrue
<1>4. SharedInv'
  <2> SUFFICES ASSUME NEW d \in Entries, NEW e \in Entries, Group[d] = Group[e], d # e,
                      rows'[d] # NoFn, rows'[e] # NoFn
               PROVE  rows'[d] \in dupes'
    BY DEF SharedInv
  <2>1. fns[active] \in Rows /\ ThunksAgree(fns[active])
    BY DEF FrameInv, TypeOK
  <2>2. fns[active][d] = fns[active][e] /\ fns[active][d] \in Names
    BY <1>1, <2>1 DEF ThunksAgree, Rows
  <2> QED
    BY <1>1, <2>2 DEF Duplicates
<1> QED
  BY <1>2, <1>3, <1>4 DEF TruthInv, NoArbitraryRename

(* The index follows a rename Ghidra has made: a row patched in place is   *)
(* the only one that changed, because a function with thunks has a name    *)
(* the index knows to be shared, and a name asked for belongs to one       *)
(* function.                                                               *)
LEMMA RenameKeepsTruth == IndexInv /\ SendRename => TruthInv'
<1> SUFFICES ASSUME IndexInv, SendRename, sure' PROVE TruthInv'
  BY UnsureKeepsTruth
<1> USE DEF IndexInv
<1>1. sure /\ Target(job) = active /\ pc' = "idle" /\ Sending /\ UNCHANGED <<active, dupes>>
  BY DEF SendRename, Finish, TrackRename
<1>2. TypeOK /\ JobInv /\ job # NoJob
  BY <1>1, ConstantsAssumption DEF ConstantsAssumption, FrameInv, Sending, JobInv, NoJob
<1>3. job.new \in Names /\ job.new # NoFn /\ active \in Programs /\ fns[active] \in Rows
  BY <1>2, ConstantsAssumption DEF ConstantsAssumption, JobInv, TypeOK
<1>4. PICK e \in Candidates : RenameIn(active, e, job.new)
  BY <1>1 DEF SendRename
<1>5. e \in Entries /\ fns[active][e] # NoFn /\ fns'[active] = Renamed(fns[active], e, job.new)
  BY <1>2, <1>3, <1>4 DEF Candidates, RenameIn, Named, JobInv, TypeOK
<1>6. \A d \in Entries : fns'[active][d] = IF Group[d] = Group[e] /\ fns[active][d] # NoFn
                                           THEN job.new ELSE fns[active][d]
  BY <1>5 DEF Renamed
<1>7. \A d \in Entries : rows'[d] = NoFn <=> rows[d] = NoFn
  BY <1>2, TrackRenameFacts DEF SendRename
<1>8. PresenceInv'
  <2>1. \A d \in Entries : rows[d] = NoFn <=> fns[active][d] = NoFn
    BY <1>1 DEF TruthInv, PresenceInv, Settled, Sending
  <2> QED
    BY <1>1, <1>3, <1>6, <1>7, <2>1 DEF PresenceInv
<1>9. ASSUME ~stale' PROVE SharedInv' /\ IndexIsTrue'
  <2>1. /\ ~stale
        /\ \E c \in Entries :
             /\ rows' = [rows EXCEPT ![c] = job.new]
             /\ rows[c] # NoFn /\ rows[c] \notin dupes
             /\ job.entry # NoFn => c = job.entry
             /\ job.entry = NoFn => rows[c] = job.old
    BY <1>2, <1>9, TrackRenameFacts DEF SendRename
  <2>2. PICK c \in Entries :
             /\ rows' = [rows EXCEPT ![c] = job.new]
             /\ rows[c] # NoFn /\ rows[c] \notin dupes
             /\ job.entry # NoFn => c = job.entry
             /\ job.entry = NoFn => rows[c] = job.old
    BY <2>1
  <2>3. rows = fns[active]
    BY <1>1, <2>1 DEF TruthInv, IndexIsTrue, Settled, Sending
  <2>4. c = e
    <3>1. CASE pc = "byaddr"
      BY <1>2, <1>4, <2>2, <3>1, ConstantsAssumption DEF ConstantsAssumption, Candidates, JobInv
    <3>2. CASE pc = "byname"
      <4>1. job.entry = NoFn /\ Candidates = Named(fns[active], job.old)
        BY <1>1, <1>2, <3>2 DEF Candidates, JobInv
      <4>2. c \in Named(fns[active], job.old)
        BY <2>2, <2>3, <4>1 DEF Named
      <4> QED
        BY <1>1, <1>4, <3>2, <4>1, <4>2 DEF TruthInv, NoArbitraryRename
    <3> QED
      BY <1>1, <3>1, <3>2 DEF Sending
  <2>5. \A d, f \in Entries :
           Group[d] = Group[f] /\ d # f /\ rows[d] # NoFn /\ rows[f] # NoFn => rows[d] \in dupes
    BY <1>1, <2>1 DEF TruthInv, SharedInv, Settled, Sending
  <2>6. \A d \in Entries : d # e /\ Group[d] = Group[e] => rows[d] = NoFn
    BY <1>5, <2>2, <2>3, <2>4, <2>5
  <2>7. \A d \in Entries : rows'[d] = IF d = e THEN job.new ELSE rows[d]
    BY <1>3, <2>2, <2>3, <2>4 DEF Rows
  <2>8. rows' = fns'[active]
    <3>1. \A d \in Entries : rows'[d] = fns'[active][d]
      BY <1>5, <1>6, <2>3, <2>6, <2>7
    <3>2. rows' \in Rows /\ fns'[active] \in Rows
      BY <1>3, <1>5, <2>2, <2>3 DEF Rows, Renamed
    <3> QED
      BY <3>1, <3>2 DEF Rows
  <2>9. SharedInv'
    BY <1>1, <2>5, <2>6, <2>7 DEF SharedInv
  <2> QED
    BY <1>1, <2>8, <2>9 DEF IndexIsTrue
<1>10. SharedInv' /\ IndexIsTrue'
  BY <1>9 DEF SharedInv, IndexIsTrue
<1> QED
  BY <1>1, <1>8, <1>10 DEF TruthInv, NoArbitraryRename

(* A change made behind the bridge's back keeps what is said of the index, *)
(* or makes the index one that something went past.                        *)
LEMMA OutsideKeepsTruth == IndexInv /\ Outside => TruthInv'
<1> SUFFICES ASSUME IndexInv, Outside, sure' PROVE TruthInv'
  BY UnsureKeepsTruth
<1>1. PICK p \in Programs :
        \/ OutsideSwitch(p)
        \/ \E e \in Entries :
              \/ OutsideDelete(p, e)
              \/ \E n \in Names : OutsideRename(p, e, n) \/ OutsideCreate(p, e, n)
  BY DEF Outside
<1>2. Unheard(p)
  BY <1>1 DEF OutsideSwitch, OutsideDelete, OutsideRename, OutsideCreate
<1>3. p # active /\ sure /\ UNCHANGED <<active, rows, dupes, stale, pc, job>>
  BY <1>2 DEF Unheard, indexVars, callVars
<1>4. fns'[active] = fns[active]
  BY <1>1, <1>3 DEF OutsideSwitch, OutsideDelete, OutsideRename, OutsideCreate,
                    DeleteIn, RenameIn, CreateIn, IndexInv, FrameInv, TypeOK
<1>5. CASE pc = "refresh"
  BY <1>3, <1>5, RefreshKeepsTruth
<1>6. CASE pc # "refresh"
  BY <1>3, <1>4, <1>6, FrameKeepsTruth DEF IndexInv
<1> QED
  BY <1>5, <1>6

(* A step keeps what is said of the index and the rename in progress.      *)
LEMMA StepTruthInv == IndexInv /\ [Next]_vars => TruthInv'
<1> SUFFICES ASSUME IndexInv, [Next]_vars PROVE TruthInv'
  OBVIOUS
<1> USE DEF IndexInv, ghidraVars, indexVars, callVars
<1>1. CASE UNCHANGED vars
  <2>1. UNCHANGED <<fns, active, rows, dupes, stale, pc, job, sure>>
    BY <1>1 DEF vars
  <2> QED
    BY <2>1, FrameKeepsTruth, RefreshKeepsTruth
<1>2. CASE Ask
  <2>1. ASSUME NEW p \in Selectors, NEW old \in Names, NEW n \in Names, AskByName(p, old, n)
        PROVE  TruthInv'
    BY <2>1, FrameKeepsTruth DEF AskByName, Start
  <2>2. ASSUME NEW p \in Selectors, NEW e \in Entries, NEW old \in Names \union {NoFn},
               NEW n \in Names,
               Start("byaddr", [prog |-> p, entry |-> e, old |-> old, new |-> n])
        PROVE  TruthInv'
    <3>1. UNCHANGED <<fns, active, rows, dupes, stale, sure>> /\ pc = "idle" /\ pc' = "byaddr"
      BY <2>2 DEF Start
    <3>2. PresenceInv' /\ SharedInv' /\ IndexIsTrue'
      BY <3>1 DEF TruthInv, PresenceInv, SharedInv, IndexIsTrue, Settled
    <3> QED
      BY <3>1, <3>2 DEF TruthInv, NoArbitraryRename
  <2>3. ASSUME NEW p \in Selectors, NEW e \in Entries, NEW n \in Names, AskByAddress(p, e, n)
        PROVE  TruthInv'
    BY <2>2, <2>3 DEF AskByAddress
  <2>4. ASSUME NEW p \in Selectors, NEW e \in Entries, NEW old \in Names \union {NoFn},
               NEW n \in Names, AskRedirected(p, e, old, n)
        PROVE  TruthInv'
    BY <2>2, <2>4 DEF AskRedirected
  <2>5. ASSUME NEW p \in Selectors, NEW e \in Entries, NEW old \in Names \union {NoFn},
               NEW n \in Names, AskRedirectedUnread(p, e, old, n)
        PROVE  TruthInv'
    BY <2>5, UnsureKeepsTruth DEF AskRedirectedUnread
  <2> QED
    BY <1>2, <2>1, <2>3, <2>4, <2>5 DEF Ask
<1>3. CASE Rename
  <2>1. CASE GuardRefreshes
    BY <2>1, RefreshKeepsTruth DEF GuardRefreshes
  <2>2. CASE GuardPasses
    <3>1. UNCHANGED <<fns, active, rows, dupes, stale, job, sure>> /\ pc = "guard" /\ pc' = "byname"
      BY <2>2 DEF GuardPasses
    <3>2. PresenceInv' /\ SharedInv' /\ IndexIsTrue'
      BY <3>1 DEF TruthInv, PresenceInv, SharedInv, IndexIsTrue, Settled
    <3>3. ASSUME sure PROVE \A d, e \in Named(fns[active], job.old) : d = e
      <4>1. job.old \in Names /\ job.old # NoFn
        BY <3>1, ConstantsAssumption DEF ConstantsAssumption, FrameInv, JobInv
      <4>2. CASE rows = Empty
        <5>1. \A e \in Entries : fns[active][e] = NoFn
          BY <3>1, <3>3, <4>2 DEF TruthInv, PresenceInv, Settled, Empty
        <5> QED
          BY <4>1, <5>1 DEF Named
      <4>3. CASE ~stale /\ ~Ambiguous
        BY <3>1, <3>3, <4>3 DEF TruthInv, IndexIsTrue, Settled, Ambiguous
      <4> QED
        BY <2>2, <4>2, <4>3 DEF GuardPasses
    <3>4. Target(job)' = Target(job)
      BY <3>1 DEF Target
    <3>5. NoArbitraryRename'
      BY <3>1, <3>3, <3>4 DEF NoArbitraryRename, Named
    <3> QED
      BY <3>1, <3>2, <3>5 DEF TruthInv
  <2>3. CASE GuardRefuses
    BY <2>3, FrameKeepsTruth DEF GuardRefuses
  <2>4. CASE SendRename
    BY <2>4, RenameKeepsTruth
  <2>5. CASE SendDryRun
    BY <2>5, UnsureKeepsTruth DEF SendDryRun
  <2>6. CASE SendFails
    BY <2>6, FrameKeepsTruth DEF SendFails, Sending, Finish
  <2> QED
    BY <1>3, <2>1, <2>2, <2>3, <2>4, <2>5, <2>6 DEF Rename
<1>4. CASE Refresh
  BY <1>4, RebuildMakesTruth, UnsureKeepsTruth DEF Refresh, RebuildRefused, RebuildRaises
<1>5. CASE OtherCall
  <2>1. CASE RenameComponents
    <3>1. UNCHANGED <<fns, active, rows, pc, sure>> /\ stale' /\ pc = "idle"
      BY <2>1 DEF RenameComponents
    <3>2. PresenceInv'
      BY <3>1 DEF TruthInv, PresenceInv, Settled
    <3> QED
      BY <3>1, <3>2 DEF TruthInv, SharedInv, IndexIsTrue, NoArbitraryRename
  <2> QED
    BY <1>5, <2>1, RefreshKeepsTruth DEF OtherCall, Find, Switch, Connect, Delete, Create
<1>6. CASE Outside
  BY <1>6, OutsideKeepsTruth
<1> QED
  BY <1>1, <1>2, <1>3, <1>4, <1>5, <1>6 DEF Next

-----------------------------------------------------------------------------
(* IndexInv holds in every state.                                          *)
THEOREM IndexInvHolds == Spec => []IndexInv
<1>1. IndexInv /\ [Next]_vars => IndexInv'
  BY StepFrameInv, StepTruthInv DEF IndexInv
<1> QED
  BY <1>1, InitIndexInv, PTL DEF Spec

(* Every variable keeps its type.                                          *)
THEOREM TypeCorrect == Spec => []TypeOK
<1>1. IndexInv => TypeOK
  BY DEF IndexInv, FrameInv
<1> QED
  BY <1>1, IndexInvHolds, PTL

(* The index that is patched in place, rebuilt or marked stale after each  *)
(* call agrees with the active program whenever it is trusted, unless      *)
(* something went past it since.                                           *)
THEOREM IndexStaysTrue == Spec => []IndexIsTrue
<1>1. IndexInv => IndexIsTrue
  BY DEF IndexInv, TruthInv
<1> QED
  BY <1>1, IndexInvHolds, PTL

(* The guard that reads the index lets no rename by name in the active     *)
(* program through that more than one function could answer to, unless     *)
(* something went past the index or its rebuild failed.                    *)
THEOREM GuardIsSound == Spec => []NoArbitraryRename
<1>1. IndexInv => NoArbitraryRename
  BY DEF IndexInv, TruthInv
<1> QED
  BY <1>1, IndexInvHolds, PTL

====
