----------------------------- MODULE ActionCall -----------------------------
(***************************************************************************)
(* A call of a section tool, from its arguments to the request and from    *)
(* the answer to the reply (src/library/registry.py, dispatcher.py,        *)
(* shaper.py), on the catalog as it then is.  The checks of a rename that  *)
(* depend on the program (is the name unique, is it at the address) are    *)
(* FunctionIndex's; here they pass or refuse.                              *)
(*                                                                         *)
(* An answer of rows, a listing or a page, is text; other endpoints answer *)
(* with an object.                                                         *)
(***************************************************************************)
EXTENDS Catalog, Shaper

CONSTANTS
    Values,      \* Values[k]: what argument k may hold, "absent" among it
    Params,      \* Params[e]: those the endpoint declares
    Required,    \* Required[e]: those marked as required
    SelectorKeys, \* parameters that select a program
    Writes,      \* the POST endpoints
    Default,     \* Default[e]: what parameters it declares a default for, and which
    RenameName,  \* the action name "rename_function"
    ByAddress,   \* the endpoint /rename_function_by_address
    ImportPath,  \* the endpoint /import_file
    ImportArgs,  \* what the static tool import_file passes
    Paged,       \* _LIMIT_CAPPED: endpoints that cut at limit without a word
    Listing,     \* the endpoint /disassemble_function
    Tolerance,   \* rows that _DISASM_GAP_TOLERANCE explains
    MaxRows,     \* bound on the rows there are
    Limits,      \* values of the argument limit
    Answers,     \* objects that are answered
    NoCall

Keys == DOMAIN Values

ASSUME CallAssumption ==
    /\ {"program", "dry_run", "address", "limit", "new"} \subseteq Keys
    /\ \A k \in Keys :
          /\ "absent" \in Values[k]
          /\ Values[k] \subseteq {"absent", "blank"} \union (IF k = "dry_run" THEN {"yes", "no"} ELSE {"value"})
    /\ "no" \in Values["dry_run"]
    /\ \A e \in Endpoints : Required[e] \subseteq Params[e] /\ Params[e] \subseteq Keys
    /\ \A e \in Endpoints : /\ DOMAIN Default[e] \subseteq Params[e]
                            /\ \A k \in DOMAIN Default[e] : Default[e][k] \in Values[k] \ {"absent"}
    /\ "program" \in SelectorKeys /\ ByAddress \in Endpoints
    /\ ImportArgs \subseteq Keys \ {"address", "dry_run", "program"}
    /\ MaxRows \in Nat /\ Limits \subseteq Nat \ {0} /\ Tolerance \in Nat
    /\ \A o \in Answers : IsAnswer(o)

VARIABLES
    schema,      \* the schema loaded last
    strict,      \* require_program
    pc,          \* where the call stands
    act,         \* the action, or NoCall
    args,        \* its arguments, or NoCall
    asked,       \* ghost: what the caller asked for
    request,     \* the request sent, or NoCall
    rows,        \* how many rows there are, and how many were answered
    answer,      \* the object answered, or NoCall
    reply        \* the lines of the reply

config   == <<catalogVars, schema, strict>>
callVars == <<pc, act, args, asked, request, rows, answer, reply>>
vars     == <<config, callVars>>

\* "blank" is None or "", "no" anything else _to_bool does not take for true.
Args      == {a \in [Keys -> UNION Range(Values)] : \A k \in Keys : a[k] \in Values[k]}
Given(a)  == {k \in Keys : a[k] # "absent"}
Filled(a) == {k \in Keys : a[k] \notin {"absent", "blank"}}

NoRows       == [all |-> 0, sent |-> 0, limit |-> 1, known |-> FALSE]
NothingAsked == [dry |-> FALSE, program |-> FALSE, path |-> NoCall]

\* What a line of a reply may hold: entries of a field, rows, notes of the bridge.
Words == {"row", "header", "cap", "short", "limit", "grep"} \union UNION {DOMAIN o.fields : o \in Answers}
Fact  == Words \X Nat
Texts == {s \in Seq(SUBSET Fact) : \A n \in DOMAIN s : IsFiniteSet(s[n])}

\* The names of actions there may be.
EveryName == UNION {DOMAIN FromSchema(s) : s \in Schemas}

TypeOK ==
    /\ schema \in Schemas \union {<<>>} /\ strict \in BOOLEAN /\ flat \in BOOLEAN
    /\ pc \in {"idle", "called", "resolved", "bound", "sent", "shaped", "done"}
    /\ act \in EveryName \union {NoCall}
    /\ \/ args = NoCall /\ pc \notin {"called", "resolved"}
       \/ DOMAIN args = Keys /\ \A k \in Keys : args[k] \in Values[k] \union {"blank"}
    /\ asked \in [dry : BOOLEAN, program : BOOLEAN, path : Endpoints \union {NoCall}]
    /\ request = NoCall \/ (request.to \in Endpoints /\ request.keys \subseteq Params[request.to])
    /\ rows.sent \in 0 .. rows.all /\ rows.all \in 0 .. MaxRows /\ rows.limit \in Limits \union {1}
    /\ answer \in Answers \union {NoCall}
    /\ reply \in Texts

Init ==
    /\ CatalogInit
    /\ schema = <<>> /\ strict \in BOOLEAN
    /\ pc = "idle" /\ act = NoCall /\ args = NoCall
    /\ asked = NothingAsked /\ request = NoCall /\ rows = NoRows
    /\ answer = NoCall /\ reply = <<>>

\* Where the bridge may connect: between two calls, or where a call reads from Ghidra
\* and reconnects (dispatcher.py:530): the name at the entry of a redirected rename,
\* the index for the guard of one by name, the answer itself if it is of a GET, and
\* what hints and hooks look up for the reply.
Reading ==
    \/ pc \in {"idle", "resolved", "shaped"}
    \/ pc = "bound" /\ act = RenameName
    \/ pc = "sent" /\ request.to \notin Writes

Connect(s) ==
    /\ Reading
    /\ Load(s)
    /\ schema' = s
    /\ UNCHANGED <<strict, callVars>>

\* The reply is with the caller.
Return ==
    /\ pc = "done"
    /\ pc' = "idle" /\ asked' = NothingAsked
    /\ request' = NoCall /\ rows' = NoRows /\ answer' = NoCall /\ reply' = <<>>
    /\ UNCHANGED <<config, act, args>>

-----------------------------------------------------------------------------
(* To the request.                                                         *)

Called(n, a, want) ==
    /\ pc' = "called"
    /\ act' = n /\ args' = a /\ asked' = want
    /\ UNCHANGED <<config, request, rows, answer, reply>>

\* as if dry_run at the tool level was taken for an argument of no action
DefaultedNever(a, tool) == a

\* args.setdefault("dry_run", dry_run)
Defaulted(a, tool) == IF a["dry_run"] = "absent" THEN [a EXCEPT !["dry_run"] = tool] ELSE a

\* A rename by name that has an address; it goes to the endpoint that takes one.
ByItsAddress(n, a) == n = RenameName /\ a["address"] = "value"
Chosen(n, a)       == IF ByItsAddress(n, a) THEN ByAddress ELSE catalog[n]

\* The handler of a section tool, for an action it lists.  Who says yes to
\* dry_run at the tool level, in args or in both, and nothing else in either,
\* asks for a dry run.
CallSection(s, n, a, tool) ==
    /\ s \in SectionTools /\ n \in members[s]
    /\ LET said == {a["dry_run"], tool} \ {"absent"} IN
       Called(n, Defaulted(a, tool),
              [dry |-> said = {"yes"}, program |-> a["program"] = "value", path |-> Chosen(n, a)])

\* A write that has no dry_run of its own takes one all the same.
SyntheticDryRun(e) == e \in Writes /\ "dry_run" \notin Params[e]
Allowed(e)         == Params[e] \union (IF SyntheticDryRun(e) THEN {"dry_run"} ELSE {})

\* What the caller of a tool of its own leaves out of the arguments: the default,
\* dry_run False, or None.
Omitted(e, k) ==
    IF k \in DOMAIN Default[e] THEN Default[e][k]
    ELSE IF k = "dry_run" /\ SyntheticDryRun(e) THEN "no" ELSE "blank"

\* A tool of its own: whatever the endpoint takes is in kwargs.
CallOwn(n, a) ==
    /\ n \in OwnTools
    /\ LET e      == catalog[n]
           kwargs == [k \in Keys |-> IF k \notin Allowed(e) \/ a[k] # "absent" THEN a[k] ELSE Omitted(e, k)] IN
       /\ Given(a) \subseteq Allowed(e)
       /\ Required[e] \subseteq Given(a) \union DOMAIN Default[e]
       /\ Called(n, kwargs,
                 [dry |-> a["dry_run"] = "yes", program |-> a["program"] = "value", path |-> Chosen(n, kwargs)])

\* as if the wrapper knew the name of its endpoint
ActionByGuess(e) == {n \in Names : n = Append(Base[e], 2)}

\* action_for_path
ActionForPath(e) == OfPath(e)

\* The static tool import_file, which calls the endpoint it wraps.
CallImport(a) ==
    /\ Given(a) = ImportArgs
    /\ \E n \in ActionForPath(ImportPath) :
          Called(n, a, [dry |-> FALSE, program |-> FALSE, path |-> ImportPath])

Redirectable == pc = "called" /\ ByItsAddress(act, args)

\* as if the redirect took along only what the other endpoint requires
CarriedBare == {"address", "new"}

\* What _redirect_rename takes along; of these, a None stays behind.
Carried == {"address", "new", "program", "dry_run"}

\* The redirect of a rename by name that has an address, if there is an endpoint for
\* it and a new name: its action is known before the name at the entry is read.
Resolve ==
    /\ Redirectable /\ args["new"] = "value"
    /\ act' \in ActionForPath(ByAddress)
    /\ \E none \in BOOLEAN :
          args' = [k \in Keys |-> IF k \in Carried /\ ~(none /\ args[k] = "blank") THEN args[k] ELSE "absent"]
    /\ pc' = "resolved"
    /\ UNCHANGED <<config, asked, request, rows, answer, reply>>

\* Which arguments must be there is not up to the selector of the program.
MustHave(e)  == Required[e] \ {"program"}
Selectors(e) == Params[e] \intersect SelectorKeys

\* _validate: nothing unknown, nothing missing, and all selectors if there must be.
Valid(e) ==
    /\ Given(args) \subseteq Allowed(e)
    /\ MustHave(e) \subseteq Given(args)
    /\ strict => Selectors(e) \subseteq Given(args)

\* _prepare leaves out what is blank.
SentKeys(e) == Filled(args) \intersect Params[e]

\* The action is looked up in the catalog as it is by then, and with it the endpoint
\* of the request, which takes what is valid; a true dry_run also if not declared.
LookUp ==
    /\ pc = "resolved" \/ (pc = "called" /\ ~Redirectable)
    /\ act \in Names
    /\ LET e == catalog[act] IN
       /\ Valid(e)
       /\ request' = [to |-> e, keys |-> SentKeys(e), dry |-> args["dry_run"] = "yes"]
    /\ pc' = "bound" /\ args' = NoCall
    /\ UNCHANGED <<config, act, asked, rows, answer, reply>>

\* An address without its endpoint or without a new name, a name that is not the
\* function's, not unique or not known, arguments that are not valid, or a failed
\* check: an error, and nothing is sent.
Refuse ==
    /\ pc \in {"called", "resolved", "bound"}
    /\ pc' = "done"
    /\ act' = NoCall /\ args' = NoCall /\ request' = NoCall
    /\ UNCHANGED <<config, asked, rows, answer, reply>>

\* The guard has passed it.
Send ==
    /\ pc = "bound"
    /\ pc' = "sent" /\ act' = NoCall
    /\ UNCHANGED <<config, args, asked, request, rows, answer, reply>>

-----------------------------------------------------------------------------
(* From the answer to the reply.                                           *)

LimitGiven == "limit" \in request.keys

\* Ghidra answers with rows: a paged endpoint with at most limit of them, or if
\* there was no limit with as many as its own; a listing may stop short.
AnswerRows ==
    /\ pc = "sent" /\ request.to \in Paged \union {Listing}
    /\ \E all \in 0 .. MaxRows, lim \in Limits, known \in BOOLEAN : \E sent \in 0 .. all :
          /\ request.to \in Paged /\ LimitGiven => sent = IF lim < all THEN lim ELSE all
          /\ rows' = [all |-> all, sent |-> sent, limit |-> lim, known |-> known]
          /\ reply' \in Capped([j \in 1 .. sent |-> {<<"row", j>>}])
    /\ pc' = "shaped"
    /\ UNCHANGED <<config, act, args, asked, request, answer>>

AnswerObject ==
    /\ pc = "sent" /\ request.to \notin Paged \union {Listing}
    /\ \E o \in Answers : answer' = o /\ reply' \in Capped(JsonStage(o, request.to))
    /\ pc' = "shaped"
    /\ UNCHANGED <<config, act, args, asked, request, rows>>

\* An error, of the status or of the connection.
AnswerFails ==
    /\ pc = "sent"
    /\ pc' = "done"
    /\ UNCHANGED <<config, act, args, asked, request, rows, answer, reply>>

Shown == Cardinality({j \in DOMAIN reply : \E n \in 1 .. MaxRows : reply[j] = {<<"row", n>>}})

\* _check_disasm_truncation, if the index holds the function: the last row shown
\* is too far from the end of the body.
StopsShort == request.to = Listing /\ rows.known /\ Shown > 0 /\ Shown + Tolerance < rows.all

\* _warn_limit_reached counts the lines, the note of cap_stage among them.
FullPage == request.to \in Paged /\ LimitGiven /\ Len(reply) >= rows.limit

\* The lines that match.
Matching(lines, kept) ==
    LET some[n \in 0 .. Len(lines)] ==
            IF n = 0 THEN <<>>
            ELSE IF lines[n] \in kept THEN Append(some[n - 1], lines[n]) ELSE some[n - 1]
    IN some[Len(lines)]

\* The hooks; then _grep, which goes over the notes as it does over the rows.
Finish ==
    /\ pc = "shaped"
    /\ LET noted == reply \o (IF StopsShort THEN <<Note("short")>> ELSE <<>>)
                         \o (IF FullPage THEN <<Note("limit")>> ELSE <<>>)
       IN \/ reply' = noted
          \/ \E kept \in SUBSET ToSet(noted) :
                reply' = Append(Matching(noted, kept), Note("grep"))
    /\ pc' = "done"
    /\ UNCHANGED <<config, act, args, asked, request, rows, answer>>

-----------------------------------------------------------------------------
Call ==
    /\ pc = "idle"
    /\ \E a \in Args :
          \/ \E n \in Names, s \in DOMAIN members, tool \in Values["dry_run"] \ {"blank"} : CallSection(s, n, a, tool)
          \/ \E n \in Names : CallOwn(n, a)
          \/ CallImport(a)

Next ==
    \/ \E s \in Schemas : Connect(s)
    \/ Call \/ Resolve \/ LookUp \/ Refuse \/ Send \/ AnswerRows \/ AnswerObject \/ AnswerFails \/ Finish \/ Return

Spec == Init /\ [][Next]_vars

-----------------------------------------------------------------------------
(* Properties.                                                             *)

\* Of the schema last read every endpoint has a name of its own, and so an action
\* (catalog.py:33-38): none is replaced by one whose sanitized name is the same.
EveryEndpointIsNamed == schema # <<>> => NamesAreOwn(schema)

Sent == request # NoCall /\ pc # "bound"

\* A dry run asked for is one, and a program asked for is named in the request,
\* or nothing is sent; through the redirect of a rename, too, and on whatever catalog
\* it ends up.  "silently dropping them once turned a dry run create_function into a
\* real write" (registry.py:82).
AskedIsSent ==
    Sent => /\ asked.dry => request.dry
            /\ asked.program => "program" \in request.keys

\* An endpoint to which some build gives the name that another gives to e.
Namesake(d, e) ==
    \E s, t \in Schemas : \E n \in DOMAIN FromSchema(s) \intersect DOMAIN FromSchema(t) :
        FromSchema(s)[n] = d /\ FromSchema(t)[n] = e

\* A call goes to the endpoint that was chosen, under whatever name that is catalogued
\* (catalog.py:54-57), also if the catalog is replaced while the call reads something;
\* a redirected rename may end up at a namesake, of which RedirectGoesByAddress speaks.
RightEndpoint ==
    Sent => request.to = asked.path \/ (asked.path = ByAddress /\ Namesake(request.to, ByAddress))

\* A rename with an address is to be routed "through /rename_function_by_address, which
\* is address-authoritative" (dispatcher.py:442-443).  Violated: between action_for_path
\* and catalog.get the name at the entry is read; if that reconnects to another build,
\* the name may be another endpoint's.
RedirectGoesByAddress == Sent /\ asked.path = ByAddress => request.to = ByAddress

\* A reply with fewer rows than there are says so, whichever of the cap, the
\* limit asked for and the plugin cut them, and when two of them did.  Not so if
\* _grep went over it, if no limit was given and Ghidra took its own, if a listing
\* is short by what the tolerance explains or is of a function the index does not
\* know, or if no row is left to tell by.
CutIsMarked ==
    /\ Note("grep") \notin ToSet(reply)
    /\ pc = "done" /\ Sent /\ Shown > 0
    /\ request.to \in Paged => LimitGiven
    /\ Shown + (IF request.to = Listing THEN Tolerance ELSE 0) < rows.all
    /\ request.to = Listing => rows.known
    => ToSet(reply) \intersect {Note("cap"), Note("limit"), Note("short")} # {}

\* What an object states comes through the shaper, whatever becomes of it, and a
\* reply of it is no longer than the cap.
NothingLost ==
    pc = "done" /\ answer # NoCall /\ Note("grep") \notin ToSet(reply) =>
        Faithful(answer, request.to, reply)

-----------------------------------------------------------------------------
(* The inductive invariant behind AskedIsSent and RightEndpoint.           *)

\* The endpoint of a call as it was chosen, or with the name that one had.
OnTheWayTo(e) == e = asked.path \/ (asked.path = ByAddress /\ Namesake(e, ByAddress))

\* A call on its way has an action and the arguments that were asked for; until it
\* is redirected the catalog is the one it was chosen from.
OnItsWay ==
    /\ pc \in {"called", "resolved"} =>
          /\ DOMAIN args = Keys
          /\ asked.dry => args["dry_run"] = "yes"
          /\ asked.program => args["program"] = "value"
    /\ pc = "called" => act \in Names /\ asked.path = Chosen(act, args)
    /\ pc = "resolved" =>
          /\ asked.path = ByAddress
          /\ \E s \in Schemas : act \in DOMAIN FromSchema(s) /\ FromSchema(s)[act] = ByAddress

\* A request agrees with what was asked for, and keeps it.
Agreed ==
    /\ OnTheWayTo(request.to)
    /\ asked.dry => request.dry
    /\ asked.program => "program" \in request.keys

CallInv ==
    /\ OnItsWay
    /\ pc \in {"idle", "called", "resolved"} => request = NoCall
    /\ request # NoCall => Agreed
    /\ AskedIsSent /\ RightEndpoint

-----------------------------------------------------------------------------
(* And behind the others.                                                  *)

\* The tools are those of the catalog, and this is that of the schema, if one was read.
CatalogInv ==
    /\ EveryEndpointIsNamed
    /\ \/ schema = <<>> /\ Names = {}
       \/ schema \in Schemas /\ catalog = FromSchema(schema)
    /\ Range(catalog) \subseteq Endpoints
    /\ Names \subseteq DOMAIN sectionOf
    /\ DOMAIN members = {sectionOf[n] : n \in Names}
    /\ \A s \in DOMAIN members : members[s] = {n \in Names : sectionOf[n] = s}

\* The rows as they were answered, or cut with a note.
ReplyOfRows ==
    /\ request.to \in Paged \union {Listing}
    /\ \/ Note("cap") \in ToSet(reply)
       \/ /\ reply = [j \in 1 .. rows.sent |-> {<<"row", j>>}]
          /\ request.to \in Paged /\ LimitGiven =>
                rows.sent = IF rows.limit < rows.all THEN rows.limit ELSE rows.all

ReplyOfObject ==
    /\ request.to \notin Paged \union {Listing}
    /\ answer # NoCall => Faithful(answer, request.to, reply)

\* A reply is of rows or of an object, and there is nothing of a call that is over.
ReplyInv ==
    /\ pc \notin {"called", "resolved", "bound"} => act = NoCall
    /\ pc \notin {"called", "resolved"} => args = NoCall
    /\ pc \notin {"shaped", "done"} => rows = NoRows /\ answer = NoCall /\ reply = <<>>
    /\ pc = "shaped" => \/ answer = NoCall /\ ReplyOfRows
                        \/ rows = NoRows /\ ReplyOfObject

ActionInv ==
    /\ TypeOK /\ CatalogInv /\ CallInv /\ ReplyInv
    /\ CutIsMarked /\ NothingLost
=============================================================================
