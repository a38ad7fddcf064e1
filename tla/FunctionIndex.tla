--------------------------- MODULE FunctionIndex ----------------------------
(***************************************************************************)
(* The bridge's copy of the function list: AddressResolver's index         *)
(* (src/library/resolver.py) and the hooks and guards of ActionDispatcher  *)
(* (src/library/dispatcher.py) that keep it current through renames,       *)
(* creations, deletions and program switches, and that decide by it which  *)
(* renames by name are safe.                                               *)
(*                                                                         *)
(* Ghidra is external: programs, functions, thunks, and what it does with  *)
(* a write.  Others change it too: the person at the GUI, scripts that     *)
(* call the plugin directly, and writes of the bridge whose reply was lost *)
(* and that take effect late (GhidraClient shows when).  Their changes are *)
(* the Outside actions.                                                    *)
(***************************************************************************)
EXTENDS Naturals

CONSTANTS
    Programs,   \* the open programs
    Entries,    \* entry addresses
    Names,      \* function names
    Group,      \* Group[e] = Group[d]: one is a thunk of the other
    NoFn,       \* no function at an entry; no name given
    NoProgram   \* no program selector given

ASSUME EntriesAssumption == Entries \subseteq Nat
ASSUME ConstantsAssumption ==
    /\ NoFn \notin Names \union Entries
    /\ NoProgram \notin Programs

VARIABLES
    fns,       \* Ghidra: the name of the function at each entry, per program
    active,    \* Ghidra: the program a call without a selector goes to
    rows,      \* resolver.entries and resolver.names
    dupes,     \* resolver._dupes
    stale,     \* resolver.stale
    pc,        \* where the call in progress stands
    job,       \* the rename in progress
    sure       \* ghost: nothing went past the index since its last listing

ghidraVars == <<fns, active>>
indexVars  == <<rows, dupes, stale>>
callVars   == <<pc, job>>
vars       == <<ghidraVars, indexVars, callVars, sure>>

Rows     == [Entries -> Names \union {NoFn}]
Empty    == [e \in Entries |-> NoFn]

\* A rename: of what, by name or by address, where, to what.
Jobs  == [prog : Programs \union {NoProgram}, entry : Entries \union {NoFn},
          old : Names \union {NoFn}, new : Names \union {NoFn}]
NoJob == [prog |-> NoProgram, entry |-> NoFn, old |-> NoFn, new |-> NoFn]

\* A thunk reports the name of its implementation.
ThunksAgree(f) ==
    \A d, e \in Entries :
        Group[d] = Group[e] /\ f[d] # NoFn /\ f[e] # NoFn => f[d] = f[e]

TypeOK ==
    /\ fns \in [Programs -> Rows]
    /\ active \in Programs
    /\ rows \in Rows
    /\ dupes \in SUBSET Names
    /\ stale \in BOOLEAN
    /\ pc \in {"idle", "guard", "byname", "byaddr", "refresh"}
    /\ job \in Jobs
    /\ sure \in BOOLEAN

\* The bridge has connected and is about to index the program.
Init ==
    /\ fns \in [Programs -> Rows]
    /\ \A p \in Programs : ThunksAgree(fns[p])
    /\ active \in Programs
    /\ rows = Empty
    /\ dupes = {}
    /\ stale = FALSE
    /\ pc = "refresh"
    /\ job = NoJob
    /\ sure = TRUE

-----------------------------------------------------------------------------
(* What Ghidra does.                                                       *)

Named(f, n) == {e \in Entries : f[e] = n}

\* Whichever address was asked for, the implementation is renamed and all its
\* thunks follow.
Renamed(f, e, n) ==
    [d \in Entries |-> IF Group[d] = Group[e] /\ f[d] # NoFn THEN n ELSE f[d]]

\* A new thunk takes the name of its group, another function the one asked for.
CreateIn(p, e, n) ==
    /\ fns[p][e] = NoFn
    /\ \A d \in Entries : Group[d] = Group[e] /\ fns[p][d] # NoFn => n = fns[p][d]
    /\ fns' = [fns EXCEPT ![p] = [@ EXCEPT ![e] = n]]

DeleteIn(p, e) ==
    /\ fns[p][e] # NoFn
    /\ fns' = [fns EXCEPT ![p] = [@ EXCEPT ![e] = NoFn]]

RenameIn(p, e, n) ==
    /\ fns[p][e] # NoFn
    /\ fns' = [fns EXCEPT ![p] = Renamed(@, e, n)]

-----------------------------------------------------------------------------
(* The index.  Operators marked "as if" are not part of the model: each is *)
(* a definition with a plausible bug put in.                               *)

\* refresh_functions: the names listed at more than one entry.
Duplicates(f) == {n \in Names : \E d, e \in Entries : d # e /\ f[d] = n /\ f[e] = n}

\* as if a name known to be shared was patched like any other
PatchShared(e, n) ==
    \/ /\ rows[e] # NoFn
       /\ rows' = [rows EXCEPT ![e] = n]
       /\ UNCHANGED stale
    \/ /\ rows[e] = NoFn
       /\ stale' = TRUE
       /\ UNCHANGED rows

\* resolver.rename with an address: patch the row, or give up and mark the
\* index stale if there is no row or its name is known to be shared.
PatchRow(e, n) ==
    \/ /\ rows[e] # NoFn
       /\ rows[e] \notin dupes
       /\ rows' = [rows EXCEPT ![e] = n]
       /\ UNCHANGED stale
    \/ /\ rows[e] \in dupes \union {NoFn}
       /\ stale' = TRUE
       /\ UNCHANGED rows

\* resolver.rename with the old name: the first row that carries it.
PatchNamed(old, n) ==
    \/ \E e \in Named(rows, old) :
          /\ \A d \in Named(rows, old) : e <= d
          /\ PatchRow(e, n)
    \/ /\ Named(rows, old) = {}
       /\ stale' = TRUE
       /\ UNCHANGED rows

\* _track_rename on a reply that is not an error: by address if the call gave
\* one, else by the old name.  Of an argument it cannot read (an address in some
\* other notation, a name passed as old_name) it only marks the index stale.
TrackRename(j) ==
    /\ \/ j.entry # NoFn /\ PatchRow(j.entry, j.new)
       \/ j.entry = NoFn /\ PatchNamed(j.old, j.new)
       \/ stale' = TRUE /\ UNCHANGED rows
    /\ UNCHANGED dupes

\* refresh_functions done or given up: back to the guard, or the call is over.
AfterRefresh == pc' = IF job = NoJob THEN "idle" ELSE "guard"

\* refresh_functions: list_functions is answered for the program active now,
\* and the index is built from the answer.  The bridge does nothing between the
\* two, so a change made meanwhile counts as one made right after.
Rebuild ==
    /\ pc = "refresh"
    /\ rows' = fns[active]
    /\ dupes' = Duplicates(fns[active])
    /\ stale' = FALSE
    /\ sure' = TRUE
    /\ AfterRefresh
    /\ UNCHANGED <<ghidraVars, job>>

\* list_functions was answered with an error: no line of it is a function, so
\* the index is empty, and not stale.
RebuildRefused ==
    /\ pc = "refresh"
    /\ rows' = Empty
    /\ dupes' = {}
    /\ stale' = FALSE
    /\ AfterRefresh
    /\ sure' = FALSE
    /\ UNCHANGED <<ghidraVars, job>>

\* list_functions raised.  _refresh_index, _refresh_program_state, ghidra_find
\* and ambiguous_name all swallow it; the guard takes it for "not ambiguous".
RebuildRaises ==
    /\ pc = "refresh"
    /\ pc' = IF job = NoJob THEN "idle" ELSE "byname"
    /\ sure' = FALSE
    /\ UNCHANGED <<ghidraVars, indexVars, job>>

-----------------------------------------------------------------------------
(* Renames.                                                                *)

\* The program a write goes to.
Target(j) == IF j.prog = NoProgram THEN active ELSE j.prog

Start(step, j) ==
    /\ pc = "idle"
    /\ pc' = step
    /\ job' = j
    /\ UNCHANGED <<ghidraVars, indexVars, sure>>

\* rename_function_by_address, and batch_rename_function_components with a
\* function_name.
AskByAddress(p, e, n) ==
    Start("byaddr", [prog |-> p, entry |-> e, old |-> NoFn, new |-> n])

\* _name_at_entry reads the live program, the active one even if the rename
\* selects another; the function must be there and hold the old name, if given.
NameAtEntryAgrees(e, old) == fns[active][e] # NoFn /\ old \in {NoFn, fns[active][e]}

\* rename_function with an address: _redirect_rename checks and then routes the
\* write through rename_function_by_address.  A refusal changes nothing.
AskRedirected(p, e, old, n) ==
    /\ NameAtEntryAgrees(e, old)
    /\ Start("byaddr", [prog |-> p, entry |-> e, old |-> old, new |-> n])

\* The same when the read raises: (None, None) lets the rename pass unchecked.
AskRedirectedUnread(p, e, old, n) ==
    /\ pc = "idle"
    /\ pc' = "byaddr"
    /\ job' = [prog |-> p, entry |-> e, old |-> old, new |-> n]
    /\ sure' = FALSE
    /\ UNCHANGED <<ghidraVars, indexVars>>

\* rename_function without an address goes through _block_ambiguous_rename.
AskByName(p, old, n) ==
    Start("guard", [prog |-> p, entry |-> NoFn, old |-> old, new |-> n])

\* addresses_named rebuilds a stale index first, unless it is empty:
\* ambiguous_name does not get that far then.
GuardRefreshes ==
    /\ pc = "guard"
    /\ rows # Empty /\ stale
    /\ pc' = "refresh"
    /\ UNCHANGED <<ghidraVars, indexVars, job, sure>>

\* as if a name was taken for ambiguous only when its index row said so
AmbiguousByDupes == job.old \in dupes

Ambiguous == \E d, e \in Named(rows, job.old) : d # e

GuardPasses ==
    /\ pc = "guard"
    /\ rows = Empty \/ (~stale /\ ~Ambiguous)
    /\ pc' = "byname"
    /\ UNCHANGED <<ghidraVars, indexVars, job, sure>>

GuardRefuses ==
    /\ pc = "guard"
    /\ rows # Empty /\ ~stale /\ Ambiguous
    /\ pc' = "idle"
    /\ job' = NoJob
    /\ UNCHANGED <<ghidraVars, indexVars, sure>>

Sending == pc \in {"byname", "byaddr"}

\* What Ghidra may pick for the rename in progress: the entry asked for, or any
\* that carries the old name.
Candidates ==
    IF pc = "byaddr" THEN {job.entry} ELSE Named(fns[Target(job)], job.old)

Finish == pc' = "idle" /\ job' = NoJob

\* The rename took and the reply says so.
SendRename ==
    /\ Sending
    /\ \E e \in Candidates : RenameIn(Target(job), e, job.new)
    /\ TrackRename(job)
    /\ sure' = (sure /\ Target(job) = active)
    /\ Finish
    /\ UNCHANGED active

\* With dry_run the reply says what would happen; the hook cannot tell.  A
\* failure worded without "error" near its start looks the same to it.
SendDryRun ==
    /\ Sending
    /\ \E e \in Candidates : fns[Target(job)][e] # NoFn
    /\ TrackRename(job)
    /\ sure' = FALSE
    /\ Finish
    /\ UNCHANGED ghidraVars

\* An error reply: refused, failed or lost.  The hook leaves the index alone.
SendFails ==
    /\ Sending
    /\ Finish
    /\ UNCHANGED <<ghidraVars, indexVars, sure>>

\* batch_rename_function_components without a function_name: the hook cannot
\* tell what was renamed.
RenameComponents ==
    /\ pc = "idle"
    /\ stale' = TRUE
    /\ UNCHANGED <<ghidraVars, rows, dupes, callVars, sure>>

-----------------------------------------------------------------------------
(* The other calls that concern the index.                                 *)

\* create_function and delete_function, with or without a selector: on success
\* _refresh_index rebuilds.  It looks for "success":true in the shaped reply; a
\* success it does not recognise there is an Outside change.
Create(p, e, n) ==
    /\ pc = "idle"
    /\ CreateIn(p, e, n)
    /\ pc' = "refresh"
    /\ UNCHANGED <<active, indexVars, job, sure>>

Delete(p, e) ==
    /\ pc = "idle"
    /\ DeleteIn(p, e)
    /\ pc' = "refresh"
    /\ UNCHANGED <<active, indexVars, job, sure>>

\* as if a switch left the rebuild to the next call
SwitchLazily(p) ==
    /\ pc = "idle"
    /\ active' = p
    /\ UNCHANGED <<fns, indexVars, callVars, sure>>

\* switch_program, open_program, close_program: _program_changed marks the index
\* stale, whatever the reply, and has it rebuilt.
Switch(p) ==
    /\ pc = "idle"
    /\ active' = p
    /\ stale' = TRUE
    /\ pc' = "refresh"
    /\ UNCHANGED <<fns, rows, dupes, job, sure>>

\* connect and reconnect end in _refresh_program_state, with the program that
\* the instance they found has active; nothing marks the index stale.
Connect(p) ==
    /\ pc = "idle"
    /\ active' = p
    /\ pc' = "refresh"
    /\ UNCHANGED <<fns, indexVars, job, sure>>

\* ghidra_find rebuilds a stale index; on an empty one it returns at once.
Find ==
    /\ pc = "idle"
    /\ rows # Empty
    /\ stale
    /\ pc' = "refresh"
    /\ UNCHANGED <<ghidraVars, indexVars, job, sure>>

-----------------------------------------------------------------------------
(* Changes the bridge does not hear of, at any moment.                     *)

Unheard(p) ==
    /\ sure' = (sure /\ p # active)
    /\ UNCHANGED <<active, indexVars, callVars>>

OutsideRename(p, e, n) == RenameIn(p, e, n) /\ Unheard(p)

OutsideCreate(p, e, n) == CreateIn(p, e, n) /\ Unheard(p)

OutsideDelete(p, e) == DeleteIn(p, e) /\ Unheard(p)

OutsideSwitch(p) ==
    /\ active' = p
    /\ sure' = FALSE
    /\ UNCHANGED <<fns, indexVars, callVars>>

-----------------------------------------------------------------------------

Selectors == Programs \union {NoProgram}

Ask ==
    \E p \in Selectors, n \in Names :
        \/ \E old \in Names : AskByName(p, old, n)
        \/ \E e \in Entries :
              \/ AskByAddress(p, e, n)
              \/ \E old \in Names \union {NoFn} :
                    AskRedirected(p, e, old, n) \/ AskRedirectedUnread(p, e, old, n)

Rename ==
    \/ GuardRefreshes \/ GuardPasses \/ GuardRefuses
    \/ SendRename \/ SendDryRun \/ SendFails

Refresh == Rebuild \/ RebuildRefused \/ RebuildRaises

OtherCall ==
    \/ RenameComponents
    \/ Find
    \/ \E p \in Programs :
          \/ Switch(p) \/ Connect(p)
          \/ \E e \in Entries : Delete(p, e) \/ (\E n \in Names : Create(p, e, n))

Outside ==
    \E p \in Programs :
        \/ OutsideSwitch(p)
        \/ \E e \in Entries :
              \/ OutsideDelete(p, e)
              \/ \E n \in Names : OutsideRename(p, e, n) \/ OutsideCreate(p, e, n)

Next == Ask \/ Rename \/ Refresh \/ OtherCall \/ Outside

Spec == Init /\ [][Next]_vars

-----------------------------------------------------------------------------
(* Properties.                                                             *)

\* No rebuild is due in the call in progress.
Settled == pc # "refresh"

(* The index agrees with the active program or is marked stale, unless     *)
(* something went past it since its listing was taken: the hooks of        *)
(* dispatcher.py:385-403 and 503-520 cover every call that changes it, and *)
(* resolver.rename never patches a row whose thunks would follow.          *)
IndexIsTrue == Settled /\ ~stale /\ sure => rows = fns[active]

(* A rename by name that is about to be sent can hit one function only, if *)
(* nothing went past the index: _block_ambiguous_rename, also when the     *)
(* index is empty, stale or was rebuilt in between.  Not so of a rename in *)
(* another program than the active one, whose index it is all the same     *)
(* (dispatcher.py:487).                                                    *)
NoArbitraryRename ==
    pc = "byname" /\ Target(job) = active /\ sure =>
        \A d, e \in Named(fns[active], job.old) : d = e

(* "The index is updated in place on every rename" (README.md:91) with     *)
(* "dry_run: true works on every write" (README.md:61): a dry run does not *)
(* make a true index wrong.                                                *)
DryRunKeepsIndexTrue ==
    [][SendDryRun /\ Target(job) = active /\ ~stale /\ rows = fns[active]
        => stale' \/ rows' = fns'[active']]_vars

-----------------------------------------------------------------------------
(* The inductive invariant behind the safety properties.                   *)

\* What the call in progress carries.
JobInv ==
    /\ pc = "idle" => job = NoJob
    /\ pc = "byaddr" => job.entry \in Entries
    /\ pc \in {"guard", "byname"} => job # NoJob
    /\ job # NoJob => job.new \in Names
    /\ job # NoJob /\ pc # "byaddr" => job.entry = NoFn /\ job.old \in Names

\* Even a stale index knows where functions are.
PresenceInv ==
    Settled /\ sure =>
        \A e \in Entries : rows[e] = NoFn <=> fns[active][e] = NoFn

\* The index knows every name that thunks share.
SharedInv ==
    Settled /\ sure /\ ~stale =>
        \A d, e \in Entries :
            Group[d] = Group[e] /\ d # e /\ rows[d] # NoFn /\ rows[e] # NoFn =>
                rows[d] \in dupes

\* Types, what Ghidra keeps to, and the control of the bridge.
FrameInv ==
    /\ TypeOK
    /\ \A p \in Programs : ThunksAgree(fns[p])
    /\ JobInv

\* How the index and the rename in progress relate to the program.
TruthInv ==
    /\ PresenceInv
    /\ SharedInv
    /\ IndexIsTrue
    /\ NoArbitraryRename

IndexInv == FrameInv /\ TruthInv
=============================================================================
