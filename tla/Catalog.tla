------------------------------ MODULE Catalog -------------------------------
(***************************************************************************)
(* From the schema of the connected Ghidra to the tools that are offered:  *)
(* the names of the endpoints (src/library/catalog.py), their sections     *)
(* (src/library/sections.py) and the section tools                         *)
(* (src/library/registry.py).  It happens anew with every connect.  What   *)
(* ghidra_tools and ghidra_help tell of them (src/library/bridge.py).      *)
(***************************************************************************)
EXTENDS Naturals, Sequences, FiniteSets, SequencesExt

CONSTANTS
    Endpoints,   \* HTTP paths of a plugin, in any build of it
    Schemas,     \* schemas: sequences of endpoints
    Base,        \* Base[e]: its sanitized name, a sequence of parts
    Static,      \* names of the tools the bridge always offers
    Route,       \* Route[k]: the endpoint that has such a tool's name for its path, if any
    Category,    \* Category[e]: the upstream category
    ByTool,      \* the section table: name to section
    ByCategory,  \* the section table: upstream category to section
    Expose,      \* names to offer as tools of their own
    MaxHits      \* rows of a reply of ghidra_tools: 40

ASSUME CatalogAssumption ==
    /\ \A s \in Schemas : s \in Seq(Endpoints)
    /\ \A e \in Endpoints : \E n \in 0 .. Len(Base[e]) : Base[e] = [i \in 1 .. n |-> Base[e][i]]
    /\ IsFiniteSet(Static)
    /\ MaxHits \in Nat

VARIABLES
    catalog,     \* catalog.by_name: name to endpoint
    members,     \* sections.members: what each section took from the catalog
    sectionOf,   \* sections.section_of, which is never cleared
    flat         \* one tool for each endpoint, no section tools

catalogVars == <<catalog, members, sectionOf, flat>>

Names  == DOMAIN catalog
OfPath(e) == {n \in Names : catalog[n] = e}

CatalogInit == catalog = <<>> /\ members = <<>> /\ sectionOf = <<>> /\ flat \in BOOLEAN

-----------------------------------------------------------------------------
\* as if the number added was never counted up
OwnNameOnce(base, used) == IF base \in used THEN Append(base, 2) ELSE base

\* A name that is taken gets the first number, from 2 on, that makes it new.
OwnName(base, used) ==
    IF base \notin used THEN base
    ELSE LET free == {n \in 2 .. Cardinality(used) + 2 : Append(base, n) \notin used}
         IN Append(base, CHOOSE n \in free : \A m \in free : n <= m)

Entered(cat, e) ==
    LET name == OwnName(Base[e], Static \union DOMAIN cat)
    IN [n \in DOMAIN cat \union {name} |-> IF n = name THEN e ELSE cat[n]]

\* from_schema, in the order of the schema.
FromSchema(schema) ==
    LET cat[n \in 0 .. Len(schema)] == IF n = 0 THEN <<>> ELSE Entered(cat[n - 1], schema[n])
    IN cat[Len(schema)]

\* By name, else by category, else the category is the section.
Section(n, e) ==
    IF n \in DOMAIN ByTool THEN ByTool[n]
    ELSE IF Category[e] \in DOMAIN ByCategory THEN ByCategory[Category[e]]
    ELSE Category[e]

\* The sections that took a name, and what they took.
Members(sec) == [s \in Range(sec) |-> {n \in DOMAIN sec : sec[n] = s}]

\* as if a name kept the section it got first
FirstSection(sec) ==
    [n \in DOMAIN sec \union DOMAIN sectionOf |-> IF n \in DOMAIN sectionOf THEN sectionOf[n] ELSE sec[n]]

\* assign writes over the sections of the names there are, and keeps the others.
LastSection(sec) ==
    [n \in DOMAIN sec \union DOMAIN sectionOf |-> IF n \in DOMAIN sec THEN sec[n] ELSE sectionOf[n]]

\* The schema is read: new names, new sections and new tools in place of the old.
Load(schema) ==
    /\ catalog' = FromSchema(schema)
    /\ LET sec == [n \in DOMAIN catalog' |-> Section(n, catalog'[n])] IN
       members' = Members(sec) /\ sectionOf' = LastSection(sec)
    /\ UNCHANGED flat

\* The section tools and the tools of their own that are offered.
SectionTools == IF flat THEN {} ELSE DOMAIN members
OwnTools     == IF flat THEN Names ELSE Expose \intersect Names

\* Where a section tool sends the caller of an action it does not have.
Hints(s, n) == IF n \notin members[s] /\ n \in DOMAIN sectionOf THEN {sectionOf[n]} ELSE {}

-----------------------------------------------------------------------------
\* What is told of an action: its route, and the section tool to call it through.
Row(n) == [action |-> n, section |-> sectionOf[n], routes |-> {catalog[n]}]

\* ghidra_tools for the actions found: how many there are, and rows for the best of
\* them, which these are depends on the words.
Tools(hits) ==
    {[matches |-> Cardinality(hits), rows |-> {Row(n) : n \in best}] :
        best \in {b \in SUBSET hits :
                    Cardinality(b) = IF Cardinality(hits) > MaxHits THEN MaxHits ELSE Cardinality(hits)}}

\* ghidra_help of a static tool, whose name may be without its prefix, tells the
\* route it wraps; of any other name, the action.
Prefixed(n)    == <<"ghidra_">> \o n
IsStaticKey(n) == {n, Prefixed(n)} \intersect Static # {}

StaticHelp(k) ==
    [action |-> k, section |-> "bridge", routes |-> {catalog[n] : n \in UNION {OfPath(e) : e \in Route[k]}}]

Help(n) ==
    IF ~IsStaticKey(n) THEN Row(n) ELSE StaticHelp(IF n \in Static THEN n ELSE Prefixed(n))

-----------------------------------------------------------------------------
\* Every endpoint of the schema has a name, its own and no static tool's
\* (catalog.py:35): no endpoint takes another's place in by_name.
NamesAreOwn(schema) ==
    /\ Range(catalog) = ToSet(schema) /\ Cardinality(Names) = Len(schema)
    /\ Names \intersect Static = {}

\* "Anything unmapped falls into a section named after its upstream category so
\* nothing is ever hidden" (sections.py:6-7): whatever was connected before, an
\* action can be called through the section tool that it is told to be in, and any
\* other section tool sends there; in flat mode, which has none, under its name.
\* Nothing is said of an action of an earlier catalog: a section tool sends the
\* caller of one to where that was.
CanBeCalled(n) ==
    IF flat THEN n \in OwnTools
    ELSE /\ sectionOf[n] \in SectionTools
         /\ \A s \in SectionTools :
               IF s = sectionOf[n] THEN n \in members[s] ELSE n \notin members[s] /\ Hints(s, n) = {sectionOf[n]}

\* All that is told of an action, by ghidra_tools of a section or of all and, unless
\* a static tool's name is in its way, by ghidra_help, is its route and the section
\* that took it (which in flat mode is told all the same and is no tool); rows that are left out are counted.
\* Of a static tool ghidra_help tells the route it wraps, whatever its name is.
DirectionsHold ==
    /\ \A n \in Names : CanBeCalled(n) /\ (~IsStaticKey(n) => Help(n) = Row(n))
    /\ \A hits \in {Names} \union Range(members) : \A told \in Tools(hits) :
          /\ \A row \in told.rows :
                row.action \in hits \intersect members[row.section] /\ row.routes = {catalog[row.action]}
          /\ told.matches > Cardinality(told.rows) => Cardinality(told.rows) = MaxHits
          /\ told.matches = Cardinality(told.rows) => told.rows = {Row(n) : n \in hits}
    /\ \A k \in Static : Help(k).routes = Route[k] \intersect Range(catalog)
=============================================================================
