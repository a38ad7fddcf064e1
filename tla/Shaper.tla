------------------------------- MODULE Shaper -------------------------------
(***************************************************************************)
(* What the bridge makes of an answer before the caller sees it            *)
(* (src/library/shaper.py): an object becomes text blocks, a table or one  *)
(* line of JSON, and what is too long is cut.                              *)
(*                                                                         *)
(* What an object states is a set of facts, <<field, j>> for the j-th      *)
(* entry of a field; a reply is a sequence of lines, each the set of the   *)
(* facts it shows.  A fact stands for so many characters.                  *)
(***************************************************************************)
EXTENDS Naturals, Sequences, FiniteSets, SequencesExt

CONSTANTS
    Cap,         \* max_chars: facts that fit into a reply
    Bulk         \* Bulk[e]: FIELD_DROPS of the endpoint

ASSUME CapAssumption == Cap \in Nat \ {0}

Kinds == {"flat", "code", "messages", "records", "ragged", "nested"}

\* A field holds a number, a truth value or a string ("flat"), a string of
\* several lines ("code"), a list of strings of which the first are lint
\* ("messages"), a list of records alike and flat ("records") or not ("ragged"),
\* or anything else ("nested").  size is how many entries it has.
Value(kind, size, lint) == [kind |-> kind, size |-> size, lint |-> lint]
Flat                    == Value("flat", 1, 0)

\* An answer: its fields, those of data if it is {"success": true, "data": ...}.
IsAnswer(o) ==
    /\ o.wrapped \in BOOLEAN
    /\ IsFiniteSet(DOMAIN o.fields)
    /\ \A f \in DOMAIN o.fields : o.fields[f] \in [kind : Kinds, size : Nat, lint : Nat]

Facts(fields)   == UNION {{<<f, j>> : j \in 1 .. fields[f].size} : f \in DOMAIN fields}
Of(fields, K)   == {f \in DOMAIN fields : fields[f].kind \in K}

LintKeys == {"warnings", "errors"}
DropMeta == {"success", "message", "truncated"}

\* A line of the bridge's own.
Note(what) == {<<what, 0>>}

-----------------------------------------------------------------------------
\* FIELD_DROPS: a note instead of what only the server can use.
Elided(fields, e) == [f \in DOMAIN fields |-> IF f \in Bulk[e] THEN Flat ELSE fields[f]]

LintOf(fields) == {x \in Facts(fields) : x[1] \in LintKeys /\ x[2] <= fields[x[1]].lint}

\* Lint goes, and with its last message the list.
Unlinted(fields) ==
    [f \in {g \in DOMAIN fields : g \notin LintKeys \/ fields[g].lint < fields[g].size} |-> fields[f]]

\* as if what else is structured did not matter
IsTableAnyway(fields, key) == Of(fields, {"records", "ragged"}) = {key} /\ fields[key].kind = "records"

\* One list of records, alike and flat, and nothing else that is structured.
IsTable(fields, key) ==
    /\ Of(fields, {"records", "ragged"}) = {key} /\ fields[key].kind = "records"
    /\ Of(fields, {"nested", "messages"}) = {}

\* The other fields on a line, a header, and a line for each record.
Table(fields, key) ==
    LET meta == Facts([f \in Of(fields, {"flat", "code"}) \ DropMeta |-> fields[f]])
    IN (IF meta = {} THEN <<>> ELSE <<meta>>) \o <<Note("header")>>
           \o [j \in 1 .. fields[key].size |-> {<<key, j>>}]

\* Code that several fields hold is not put into JSON.
Blocks(fields) == LET fs == SetToSeq(DOMAIN fields) IN [n \in DOMAIN fs |-> Facts([f \in {fs[n]} |-> fields[f]])]

Lines(fields, shown) ==
    IF DOMAIN fields # {} /\ Of(fields, {"code"}) = DOMAIN fields THEN Blocks(fields)
    ELSE IF \E key \in DOMAIN fields : IsTable(fields, key)
         THEN Table(fields, CHOOSE key \in DOMAIN fields : IsTable(fields, key))
         ELSE <<shown>>

\* json_stage; an object that was data of another is shown as it is.
JsonStage(answer, e) ==
    IF answer.wrapped THEN Lines(answer.fields, Facts(answer.fields))
    ELSE LET kept == Unlinted(Elided(answer.fields, e))
         IN Lines(kept, Facts(kept) \ LintOf(kept))

-----------------------------------------------------------------------------
\* The facts of all lines, each with the place it has.
Cells(lines)  == UNION {{n} \X lines[n] : n \in DOMAIN lines}
Length(lines) == Cardinality(Cells(lines))

\* As many lines as fit.
Whole(lines) ==
    SubSeq(lines, 1, CHOOSE n \in 0 .. Len(lines) :
                        /\ Length(SubSeq(lines, 1, n)) <= Cap
                        /\ n = Len(lines) \/ Length(SubSeq(lines, 1, n + 1)) > Cap)

\* as if what had to be cut was cut without a note
CappedSilently(lines) == {Whole(lines)}

\* cap_stage cuts at a line end, or within a line if that left less than half,
\* and says so.
Capped(lines) ==
    IF Length(lines) <= Cap THEN {lines}
    ELSE LET whole == Whole(lines) IN
         IF 2 * Length(whole) > Cap THEN {Append(whole, Note("cap"))}
         ELSE {whole \o <<part, Note("cap")>> :
                  part \in {s \in SUBSET lines[Len(whole) + 1] : Cardinality(s) = Cap - Length(whole)}}

-----------------------------------------------------------------------------
\* What a reply may leave out without a word: lint, what only the server can use,
\* and the fields "never worth a line" beside a table (shaper.py:19-40).
MayGo(answer, e) ==
    {x \in Facts(answer.fields) :
        \/ x[1] \in DropMeta /\ Of(answer.fields, {"records"}) # {}
        \/ ~answer.wrapped /\ (x \in LintOf(answer.fields) \/ (x[1] \in Bulk[e] /\ x[2] > 1))}

\* What an answer states is in the reply, or the reply says that it was cut, and
\* is not longer than it may be: "as small as it can be without losing data"
\* (shaper.py:1).
Faithful(answer, e, reply) ==
    /\ Note("cap") \in ToSet(reply) \/ Facts(answer.fields) \ MayGo(answer, e) \subseteq UNION ToSet(reply)
    /\ Length([n \in DOMAIN reply |-> reply[n] \ Note("cap")]) <= Cap
=============================================================================
