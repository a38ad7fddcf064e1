----------------------------- MODULE Annotator ------------------------------
(***************************************************************************)
(* A labelling pass: BatchAnnotator.apply (src/library/annotator.py), as   *)
(* ghidra_annotate calls it.  A pass is a sequence of writes, each made by *)
(* a call of its own.  The name of a function is read back after its write *)
(* and written once more if it differs; a name that is refused by the      *)
(* token-subset policy is tried again through the rename by name.          *)
(*                                                                         *)
(* Ghidra is external: it may answer a write it did not make, refuse it,   *)
(* or lose its reply and make it later.  Others edit and switch programs   *)
(* during the pass; a read that makes the bridge reconnect to another      *)
(* instance is a switch, and as many edits as the instances differ by.     *)
(***************************************************************************)
EXTENDS Naturals, Sequences, FiniteSets

CONSTANTS
    Programs,    \* the open programs
    FnNames,     \* the functions, by entry address, as places for a name
    DataNames,   \* the globals, likewise
    Notes,       \* prototypes, types, comments and batches of labels
    Values,      \* what can be written to a place
    Blank,       \* what a global without a label, or a note not written, holds
    Passes,      \* the passes a caller asks for
    Scoped,      \* the endpoints that take a program selector
    NoProgram,   \* the caller names no program
    MaxLate      \* bound on calls that are held by the plugin

Places == FnNames \union DataNames \union Notes
Writes == [place : Places, value : Values]

\* A pass sets each place once: items list distinct addresses.
ASSUME PassesAssumption ==
    \A todo \in Passes :
        /\ todo \in Seq(Writes)
        /\ \A i, j \in 1..Len(todo) : todo[i].place = todo[j].place => i = j
ASSUME ConstantsAssumption ==
    /\ NoProgram \notin Programs
    /\ Blank \notin Values
    /\ DataNames \intersect FnNames = {}
    /\ Notes \intersect (FnNames \union DataNames) = {}
    /\ MaxLate \in Nat

VARIABLES
    content,   \* Ghidra: what each place holds, per program
    active,    \* Ghidra: the program a call without a selector goes to
    late,      \* calls the plugin holds whose reply was lost
    pc,        \* where apply stands
    pass,      \* the writes asked for
    prog,      \* _program: the selector to add, or NoProgram
    dry,       \* dry_run
    k,         \* which write is in progress
    attempt,   \* the loop counter of _run
    cur,       \* the name that the fallback has read
    result,    \* what the summary says of each write; empty if apply raised
    byName,    \* the count name_via_byname_path
    listed,    \* _unscoped
    sure,      \* ghost: the function index is true of the active program
    quiet      \* ghost: nobody else interfered with the pass

ghidraVars == <<content, active, late>>
passVars   == <<pass, prog, dry>>
loopVars   == <<pc, k, attempt, cur>>
reportVars == <<result, byName, listed>>
ghostVars  == <<sure, quiet>>
vars       == <<ghidraVars, passVars, loopVars, reportVars, ghostVars>>

Results == {"open", "applied", "existing", "failed", "differs"}

Endpoints == {"rename_function_by_address", "create_label", "note",
              "get_function_by_address", "rename_function", "save_program"}

\* A call the plugin holds: a write for a place, made by its address, or by the
\* old name of a function.
Held == [prog : Programs, place : Places, byName : BOOLEAN,
         old : Values \union {Blank}, value : Values]

TypeOK ==
    /\ content \in [Programs -> [Places -> Values \union {Blank}]]
    /\ active \in Programs
    /\ late \subseteq Held
    /\ pc \in {"ready", "write", "current", "guard", "byname", "verify", "save", "done"}
    /\ pass \in Passes \union {<<>>}
    /\ prog \in Programs \union {NoProgram}
    /\ dry \in BOOLEAN
    /\ k \in Nat \ {0}
    /\ attempt \in 1..2
    /\ cur \in Values \union {Blank}
    /\ result \in Seq(Results)
    /\ byName \in Nat
    /\ listed \subseteq Endpoints
    /\ sure \in BOOLEAN
    /\ quiet \in BOOLEAN

\* One pass; what earlier ones left is in what the functions are named.
Init ==
    /\ content \in [Programs -> [Places -> Values \union {Blank}]]
    /\ \A p \in Programs, place \in Places :
          content[p][place] = Blank <=> place \notin FnNames
    /\ active \in Programs
    /\ late = {}
    /\ pc = "ready" /\ k = 1 /\ attempt = 1 /\ cur = Blank
    /\ pass = <<>> /\ prog = NoProgram /\ dry = FALSE
    /\ result = <<>> /\ byName = 0 /\ listed = {}
    /\ sure \in BOOLEAN
    /\ quiet = TRUE

-----------------------------------------------------------------------------
(* The calls.  Operators marked "as if" are not part of the model: each is *)
(* a definition with a plausible bug put in.                               *)

W == pass[k]

\* STEPS and GLOBAL_STEPS; the other endpoints differ in nothing that matters.
EndpointOf(place) ==
    CASE place \in FnNames   -> "rename_function_by_address"
      [] place \in DataNames -> "create_label"
      [] OTHER               -> "note"

\* The write in progress: by address, or by the name the fallback has read.
Sending  == pc \in {"write", "byname"}
Endpoint == IF pc = "byname" THEN "rename_function" ELSE EndpointOf(W.place)

\* as if the selector was added only to the first write of an item
ReachedAtFirst(e) ==
    IF prog # NoProgram /\ e \in Scoped /\ pc = "write" THEN prog ELSE active

\* _call adds the selector where there is one to add.
Reached(e) == IF prog # NoProgram /\ e \in Scoped THEN prog ELSE active

\* _call also lists the endpoints that have none.
List(e) == listed' = IF prog = NoProgram \/ e \in Scoped THEN listed ELSE listed \union {e}

Put(p, place, v) == content' = [content EXCEPT ![p] = [@ EXCEPT ![place] = v]]

\* The functions of a program that have a name.
Named(p, n) == {f \in FnNames : content[p][f] = n}

\* What the write in progress changes if it takes.
Hits == IF pc = "byname" THEN Named(Reached("rename_function"), cur) ELSE {W.place}

\* The write in progress takes.
Take ==
    \E f \in Hits :
        /\ Put(Reached(Endpoint), f, W.value)
        /\ quiet' = (quiet /\ f = W.place)

\* The call as the plugin may hold it.
Call == [prog |-> Reached(Endpoint), place |-> W.place, byName |-> pc = "byname",
         old |-> cur, value |-> W.value]

-----------------------------------------------------------------------------
(* The loop of _run.                                                       *)

\* The writes are done: save, if the caller wants to.
AfterWrites == IF dry THEN {"done"} ELSE {"save", "done"}

\* The write in progress is counted or becomes an error; on to the next.
Settle(o) ==
    /\ result' = [result EXCEPT ![k] = o]
    /\ k' = k + 1
    /\ attempt' = 1
    /\ pc' \in (IF k < Len(pass) THEN {"write"} ELSE AfterWrites)
    /\ cur' = Blank

Goto(step) == pc' = step /\ UNCHANGED <<k, attempt, cur, result>>

\* The name that the fallback has read is needed no longer.
Forget(step) == pc' = step /\ cur' = Blank /\ UNCHANGED <<k, attempt, result>>

\* An exception leaves apply, and there is no summary.
Abort == pc' = "done" /\ result' = <<>> /\ cur' = Blank /\ UNCHANGED <<k, attempt>>

\* as if no write was read back
VerifiedNone == {}

\* VERIFY has a row for the field "name", and globals have that field, too.
Verified == FnNames \union DataNames

\* The reply was no error.
Accepted ==
    IF dry \/ W.place \notin Verified THEN Settle("applied") ELSE Forget("verify")

\* "one clean retry"
MayRetry == attempt = 1

\* as if the retry did not count
RetryForever == pc' = "write" /\ UNCHANGED <<k, attempt, cur, result>>

\* `continue`: the write is made once more.
Retry == pc' = "write" /\ attempt' = attempt + 1 /\ UNCHANGED <<k, cur, result>>

-----------------------------------------------------------------------------
(* The steps of apply.                                                     *)

Begin(todo, p, d) ==
    /\ pc = "ready"
    /\ pass' = todo /\ prog' = p /\ dry' = d
    /\ pc' \in (IF todo # <<>> THEN {"write"} ELSE IF d THEN {"done"} ELSE {"save", "done"})
    /\ result' = [i \in 1..Len(todo) |-> "open"]
    /\ UNCHANGED <<ghidraVars, k, attempt, cur, byName, listed, ghostVars>>

\* A write takes and is answered.  The index follows it if it went to the
\* active program.
WriteTakes ==
    /\ Sending
    /\ ~dry
    /\ List(Endpoint)
    /\ Take
    /\ Accepted
    /\ byName' = IF pc = "byname" THEN byName + 1 ELSE byName
    /\ sure' = (sure /\ (W.place \in FnNames => Reached(Endpoint) = active))
    /\ UNCHANGED <<active, late, passVars>>

\* It is answered as done, and is not, on a dry run or otherwise.
WriteIgnored ==
    /\ Sending
    /\ List(Endpoint)
    /\ Accepted
    /\ byName' = IF pc = "byname" THEN byName + 1 ELSE byName
    /\ sure' = (sure /\ W.place \notin FnNames)
    /\ UNCHANGED <<ghidraVars, passVars, quiet>>

\* An error reply; one that says "already exists" has a count of its own.
WriteRefused ==
    /\ Sending
    /\ List(Endpoint)
    /\ Settle("existing") \/ Settle("failed")
    /\ UNCHANGED <<ghidraVars, passVars, byName, ghostVars>>

\* The same, for want of a reply: the write has taken, or the plugin holds it.
WriteLost ==
    /\ Sending
    /\ ~dry
    /\ List(Endpoint)
    /\ Settle("failed")
    /\ \/ /\ Take
          /\ sure' = (sure /\ W.place \notin FnNames)
          /\ UNCHANGED late
       \/ /\ Cardinality(late) < MaxLate
          /\ late' = late \union {Call}
          /\ UNCHANGED <<content, quiet, sure>>
    /\ UNCHANGED <<active, passVars, byName>>

\* The reply breaks off, of a write that has taken or has not.
WriteRaises ==
    /\ Sending
    /\ List(Endpoint)
    /\ Abort
    /\ \/ UNCHANGED <<content, quiet>>
       \/ ~dry /\ Take
    /\ sure' = (sure /\ W.place \notin FnNames)
    /\ UNCHANGED <<active, late, passVars, byName>>

\* The error reply of the token-subset policy sends the name to the fallback.
WriteIsSubset ==
    /\ pc = "write"
    /\ W.place \in FnNames
    /\ List(Endpoint)
    /\ Goto("current")
    /\ UNCHANGED <<ghidraVars, passVars, byName, ghostVars>>

\* _rename_by_name reads the name the function has now.
ReadCurrent ==
    /\ pc = "current"
    /\ List("get_function_by_address")
    /\ \/ /\ cur' = content[Reached("get_function_by_address")][W.place]
          /\ pc' = "guard"
          /\ UNCHANGED <<k, attempt, result>>
       \/ Settle("failed")
       \/ Abort
    /\ UNCHANGED <<ghidraVars, passVars, byName, ghostVars>>

\* as if the guard trusted the address it came from
SharedNever(n) == FALSE

\* ambiguous_name looks in the index of the active program.
Shared(n) == \E d, e \in Named(active, n) : d # e

GuardPasses ==
    /\ pc = "guard"
    /\ sure => ~Shared(cur)
    /\ Goto("byname")
    /\ UNCHANGED <<ghidraVars, passVars, byName, listed, ghostVars>>

\* It also refuses a function that has a thunk.
GuardRefuses ==
    /\ pc = "guard"
    /\ Settle("failed")
    /\ UNCHANGED <<ghidraVars, passVars, byName, listed, ghostVars>>

\* Only what is read at the address of a function is a name.
ReadBack == content[Reached("get_function_by_address")][W.place]

ReadBackAgrees ==
    /\ pc = "verify"
    /\ List("get_function_by_address")
    /\ W.place \in FnNames
    /\ ReadBack = W.value
    /\ Settle("applied")
    /\ UNCHANGED <<ghidraVars, passVars, byName, ghostVars>>

\* Another name, no name, or no answer.
ReadBackDiffers ==
    /\ pc = "verify"
    /\ List("get_function_by_address")
    /\ \/ MayRetry /\ Retry
       \/ ~MayRetry /\ Settle("differs")
    /\ UNCHANGED <<ghidraVars, passVars, byName, ghostVars>>

ReadBackRaises ==
    /\ pc = "verify"
    /\ List("get_function_by_address")
    /\ Abort
    /\ UNCHANGED <<ghidraVars, passVars, byName, ghostVars>>

\* Its count and its error do not matter to the writes.
Save ==
    /\ pc = "save"
    /\ List("save_program")
    /\ Goto("done") \/ Abort
    /\ UNCHANGED <<ghidraVars, passVars, byName, ghostVars>>

-----------------------------------------------------------------------------
(* The plugin and the others.                                              *)

\* The plugin makes a call whose reply was lost long ago.
LateTakes(h) ==
    /\ h \in late
    /\ late' = late \ {h}
    /\ \E f \in (IF h.byName THEN Named(h.prog, h.old) ELSE {h.place}) :
          /\ Put(h.prog, f, h.value)
          /\ quiet' = (quiet /\ f = h.place)
    /\ sure' = (sure /\ h.place \notin FnNames)
    /\ UNCHANGED <<active, passVars, loopVars, reportVars>>

\* Edits of other places would change nothing for the pass.
OutsideEdit(p, f, v) ==
    /\ Put(p, f, v)
    /\ quiet' = FALSE
    /\ sure' = FALSE
    /\ UNCHANGED <<active, late, passVars, loopVars, reportVars>>

\* A pass that names its program does not mind.
OutsideSwitch(p) ==
    /\ active' = p
    /\ quiet' = (quiet /\ prog # NoProgram)
    /\ sure' = FALSE
    /\ UNCHANGED <<content, late, passVars, loopVars, reportVars>>

-----------------------------------------------------------------------------

Apply ==
    \/ WriteTakes \/ WriteIgnored \/ WriteRefused \/ WriteLost \/ WriteRaises
    \/ WriteIsSubset \/ ReadCurrent \/ GuardPasses \/ GuardRefuses
    \/ ReadBackAgrees \/ ReadBackDiffers \/ ReadBackRaises
    \/ Save

Caller ==
    \E todo \in Passes, p \in Programs \union {NoProgram}, d \in BOOLEAN : Begin(todo, p, d)

Others ==
    \/ \E h \in late : LateTakes(h)
    \/ \E p \in Programs :
          OutsideSwitch(p) \/ (\E f \in FnNames, v \in Values : OutsideEdit(p, f, v))

Next == Apply \/ Caller \/ Others

Spec == Init /\ [][Next]_vars

\* The bridge's thread goes on, and each call ends.
FairSpec == Spec /\ WF_vars(Apply)

-----------------------------------------------------------------------------
(* Properties.                                                             *)

\* The program the pass is meant for.
Home == IF prog = NoProgram THEN active ELSE prog

(* A name that the summary counts as applied is the name the function has, *)
(* "counted only if it took" (README.md:102), whatever was retried, sent   *)
(* by name, or lost, as long as nobody else interfered and the summary     *)
(* does not list endpoints as not enforced.                                *)
CountedNamesTook ==
    quiet /\ listed = {} /\ ~dry =>
        \A i \in 1..Len(result) :
            result[i] = "applied" /\ pass[i].place \in FnNames =>
                content[Home][pass[i].place] = pass[i].value

(* The rename by name that the fallback is about to send hits the function *)
(* of its item and no other, if the index can be trusted and both calls go *)
(* to its program: the guard in _rename_by_name (annotator.py:100-108).    *)
FallbackHitsItsItem ==
    pc = "byname" /\ sure
        /\ active = Reached("rename_function") /\ active = Reached("get_function_by_address") =>
            Hits = {W.place}

(* The summary is as long as the pass, and says nothing yet of the writes  *)
(* that are to come.                                                       *)
InOrder ==
    /\ pc = "ready" => k = 1 /\ result = <<>> /\ late = {}
    /\ Len(result) \in {0, Len(pass)}
    /\ \A i \in 1..Len(result) : i >= k => result[i] = "open"
    /\ pc \in {"write", "current", "guard", "byname", "verify"} =>
          k <= Len(pass) /\ Len(result) = Len(pass)
    /\ pc \in {"current", "guard", "byname"} => W.place \in FnNames
    /\ pc = "verify" => ~dry

(* A call that the plugin holds is one that the summary says has failed,   *)
(* or the pass has ended without a summary; by name, it is a function's.   *)
HeldHasFailed ==
    \A h \in late :
        /\ h.byName => h.place \in FnNames
        /\ \E i \in 1..Len(pass) :
              /\ i < k \/ pc = "done"
              /\ pass[i].place = h.place
              /\ result # <<>> => result[i] = "failed"

(* What the fallback has read and checked stays true as long as the index  *)
(* can be trusted.                                                         *)
FallbackIsFresh ==
    /\ pc \in {"guard", "byname"} /\ sure /\ active = Reached("get_function_by_address") =>
          content[active][W.place] = cur
    /\ pc = "byname" /\ sure => ~Shared(cur)

(* The inductive invariant: why the names that are counted are true and    *)
(* the fallback is sound, whatever the plugin does late.                   *)
AnnotatorInv ==
    TypeOK /\ InOrder /\ HeldHasFailed /\ FallbackIsFresh /\ CountedNamesTook

(* A pass ends, though names be reverted as fast as they are written.      *)
EveryPassEnds == pc = "write" ~> pc = "done"

(* "verified after the call and counted only if it took" (README.md:102):  *)
(* a global's name that is reported to differ has not taken.               *)
LabelErrorsAreReal ==
    quiet /\ listed = {} =>
        \A i \in 1..Len(result) :
            result[i] = "differs" /\ pass[i].place \in DataNames =>
                content[Home][pass[i].place] # pass[i].value
=============================================================================
