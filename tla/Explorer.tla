------------------------------ MODULE Explorer ------------------------------
(***************************************************************************)
(* ghidra_explore (src/library/explorer.py): the root function is read,    *)
(* then the edges below it, which are names; the bridge walks them breadth *)
(* first, has the first max_functions of the walk decompiled and lists the *)
(* rest.  Each read is a call of its own: it may fail, and a function may  *)
(* be renamed between two of them.  A call with several roots is one walk  *)
(* after another; the callers of the root are read and passed on, which    *)
(* changes nothing here.  max_functions and code are chosen when they are  *)
(* looked at.                                                              *)
(***************************************************************************)
EXTENDS Integers, Sequences, SequencesExt, FiniteSets

CONSTANTS
    Fns,        \* functions of the program
    Names,      \* their names
    Graphs,     \* call graphs: sets of pairs of functions
    Namings,    \* what the functions may be called at first
    NoFn,       \* an address in no function
    Depths,     \* values of depth
    Limits,     \* values of max_functions, any integers
    CapEdges,   \* edge lines that fit into a reply
    MaxRenames  \* bound on renames

ASSUME GraphsAssumption ==
    /\ IsFiniteSet(Fns)
    /\ \A G \in Graphs : G \subseteq Fns \X Fns
    /\ Namings \subseteq [Fns -> Names]
    /\ NoFn \notin Fns
ASSUME NumbersAssumption ==
    Depths \subseteq Nat /\ Limits \subseteq Int /\ CapEdges \in Nat /\ MaxRenames \in Nat

VARIABLES
    calls,     \* Ghidra: who calls whom
    name,      \* Ghidra: what each function is called
    renames,   \* renames so far, at most MaxRenames
    pc,        \* where the walk stands
    arg,       \* the address and the depth asked for
    root,      \* the name the walk starts from
    edges,     \* the edges of the reply, between names
    order, i,  \* the walk
    report,    \* what the reply says
    whole      \* ghost: the reads of this walk were complete and of one state

ghidraVars == <<calls, name, renames>>
walkVars   == <<edges, order, i>>
vars       == <<ghidraVars, pc, arg, root, walkVars, report, whole>>

Nothing == [leaf |-> FALSE, code |-> <<>>, skipped |-> <<>>]
NoArg   == [at |-> NoFn, depth |-> 0]
Steps   == 0 .. Cardinality(Fns)

TypeOK ==
    /\ calls \in Graphs
    /\ name \in [Fns -> Names]
    /\ renames \in 0 .. MaxRenames
    /\ pc \in {"idle", "root", "contain", "edges", "walk", "done"}
    /\ arg \in [at : Fns \union {NoFn}, depth : Depths \union {0}]
    /\ root \in Names \union {NoFn}
    /\ edges \subseteq Names \X Names
    /\ order \in Seq(Names) /\ Len(order) <= Cardinality(Fns) + 1
    /\ i \in 0 .. Len(order)
    /\ report \in [leaf : BOOLEAN, code : Seq(Names), skipped : Seq(Names)]
    /\ whole \in BOOLEAN

Init ==
    /\ calls \in Graphs
    /\ name \in Namings /\ renames = 0
    /\ pc = "idle" /\ arg = NoArg /\ root = NoFn
    /\ edges = {} /\ order = <<>> /\ i = 0
    /\ report = Nothing
    /\ whole = TRUE

-----------------------------------------------------------------------------
(* The walk.                                                               *)

\* The nodes at most n edges from a start, for n up to the number of functions.
Within(E, start) ==
    LET near[n \in Steps] ==
            IF n = 0 THEN {start}
            ELSE near[n - 1] \union {e[2] : e \in {d \in E : d[1] \in near[n - 1]}}
    IN near

\* What the plugin reports of a function's callees: the calls made by what is
\* less than depth calls away.
CallsBelow(f, depth) ==
    {e \in calls : \E n \in Steps : n < depth /\ e[1] \in Within(calls, f)[n]}

Named(E) == {<<name[e[1]], name[e[2]]>> : e \in E}

\* The callees of a node that the walk has not met; they are appended in the
\* order of the reply, whatever that is.
Unseen(n) == {c \in Names : <<n, c>> \in edges} \ ToSet(order)

\* as if new nodes were visited next and not last
AppendedInFront(new) == SubSeq(order, 1, i) \o new \o SubSeq(order, i + 1, Len(order))

\* as if the first new callee ended the loop over them
AppendedFirst(new) == IF new = <<>> THEN order ELSE Append(order, Head(new))

Appended(new) == order \o new

\* as if a node left the queue only when it led on
NextIfNew(new) == IF new = <<>> THEN i ELSE i + 1

NextOf(new) == i + 1

\* Python's order[:max] stops |max| before the end if max is negative.
CutAt(max) ==
    LET n == Len(order) IN
    IF max >= 0 THEN (IF max < n THEN max ELSE n) ELSE (IF n + max > 0 THEN n + max ELSE 0)

\* as if the rest began one further
RestAfter(max) == SubSeq(order, CutAt(max) + 2, Len(order))

Wanted(max) == SubSeq(order, 1, CutAt(max))
Rest(max)   == SubSeq(order, CutAt(max) + 1, Len(order))

-----------------------------------------------------------------------------
Explore ==
    /\ pc \in {"idle", "done"}
    /\ pc' = "root"
    /\ arg' \in [at : Fns \union {NoFn}, depth : Depths]
    /\ root' = NoFn /\ edges' = {} /\ order' = <<>> /\ i' = 0
    /\ report' = Nothing
    /\ whole' = TRUE
    /\ UNCHANGED ghidraVars

Rooted(f) ==
    /\ root' = name[f]
    /\ pc' = "edges"

\* The plugin finds the function whose body holds the address.
RootFound ==
    /\ pc = "root" /\ arg.at \in Fns
    /\ Rooted(arg.at)
    /\ UNCHANGED <<ghidraVars, arg, walkVars, report, whole>>

RootNotFound ==
    /\ pc = "root"
    /\ pc' = "contain"
    /\ UNCHANGED <<ghidraVars, arg, root, walkVars, report, whole>>

\* The resolver asks once more, and the reply is the header alone if there is
\* no function this time either.
Contained ==
    /\ pc = "contain" /\ arg.at \in Fns
    /\ Rooted(arg.at)
    /\ UNCHANGED <<ghidraVars, arg, walkVars, report, whole>>

NotContained ==
    /\ pc = "contain"
    /\ pc' = "done"
    /\ whole' = FALSE
    /\ UNCHANGED <<ghidraVars, arg, root, walkVars, report>>

\* The reply has gone through the shaper, whose note on a cut is no edge; an
\* error reply has no edge either.
EdgesRead ==
    /\ pc = "edges"
    /\ LET all == Named(CallsBelow(arg.at, arg.depth)) IN
       /\ \/ Cardinality(all) <= CapEdges /\ edges' = all
          \/ Cardinality(all) > CapEdges /\ edges' \in {E \in SUBSET all : Cardinality(E) = CapEdges}
          \/ edges' = {}
       /\ whole' = (whole /\ edges' = all)
    /\ order' = <<root>> /\ i' = 0
    /\ report' = [report EXCEPT !.leaf = (edges' = {})]
    /\ pc' = "walk"
    /\ UNCHANGED <<ghidraVars, arg, root>>

Visit ==
    /\ pc = "walk" /\ i < Len(order)
    /\ \E new \in SetToSeqs(Unseen(order[i + 1])) : order' = Appended(new) /\ i' = NextOf(new)
    /\ UNCHANGED <<ghidraVars, pc, arg, root, edges, report, whole>>

\* The walk is over: with code=False it is the edges alone that are replied.
Walked ==
    /\ pc = "walk" /\ i = Len(order)
    /\ pc' = "done"
    /\ \/ report' = report
       \/ \E max \in Limits :
              report' = [report EXCEPT !.code = Wanted(max), !.skipped = Rest(max)]
    /\ UNCHANGED <<ghidraVars, arg, root, walkVars, whole>>

\* Someone renames a function in Ghidra.
Rename ==
    /\ renames < MaxRenames /\ renames' = renames + 1
    /\ \E f \in Fns, n \in Names : n # name[f] /\ name' = [name EXCEPT ![f] = n]
    /\ whole' = (whole /\ pc = "idle")
    /\ UNCHANGED <<calls, pc, arg, root, walkVars, report>>

Bridge == RootFound \/ RootNotFound \/ Contained \/ NotContained \/ EdgesRead \/ Visit \/ Walked

Next == Explore \/ Bridge \/ Rename

Spec     == Init /\ [][Next]_vars
FairSpec == Spec /\ WF_vars(Bridge)

-----------------------------------------------------------------------------
(* Properties.                                                             *)

Near(n) == Within(edges, root)[n]

\* Whatever the graph, cycles and shared names included, and also when its
\* nodes were renamed or cut away in between: the walk meets no name twice and
\* comes to the nearer ones first (_explore_one's loop).
NearestFirst ==
    \A j, k \in 1 .. Len(order) : j < k =>
        /\ order[j] # order[k]
        /\ \A n \in Steps : order[k] \in Near(n) => order[j] \in Near(n)

\* Every name the reply's edges lead to is decompiled or listed as skipped,
\* exactly once and nothing else is, for any max_functions, negative ones
\* included.
NothingLeftOut ==
    report.code # <<>> \/ report.skipped # <<>> =>
        /\ ToSet(report.code \o report.skipped) = Near(Cardinality(Fns))
        /\ Len(report.code \o report.skipped) = Cardinality(Near(Cardinality(Fns)))

\* If no read was cut or failed and nobody renamed anything between them, the
\* names walked are those of the functions at most depth calls away.
WalkCoversSubtree ==
    pc = "done" /\ whole =>
        \A n \in Names :
            n \in ToSet(order) <=>
                \E f \in Fns, d \in Steps :
                    n = name[f] /\ d <= arg.depth /\ f \in Within(calls, arg.at)[d]

\* A walk ends, in a graph with cycles, too.
EveryWalkEnds == pc = "root" ~> pc = "done"

-----------------------------------------------------------------------------
(* The inductive invariant behind the first three.                         *)

Leads(m, n) == <<m, n>> \in edges

\* The queue starts from the root and holds what the nodes before i lead to,
\* everything that they do and nothing else.
QueueInv ==
    order # <<>> =>
        /\ order[1] = root
        /\ \A k \in 1 .. i : \A n \in Names : Leads(order[k], n) => n \in ToSet(order)
        /\ \A k \in 2 .. Len(order) : \E p \in 1 .. i : p < k /\ Leads(order[p], order[k])

LedTo(E) == {e[2] : e \in E}

\* The edges of a reply lead to no more names than there are functions.
EdgesInv == IsFiniteSet(LedTo(edges)) /\ Cardinality(LedTo(edges)) <= Cardinality(Fns)

\* What there is at each stage of a call, and that a report is of a whole walk.
StageInv ==
    /\ pc \in {"idle", "root", "contain", "edges"} => order = <<>>
    /\ pc = "edges" => arg.at \in Fns /\ root \in Names
    /\ pc = "walk" => order # <<>>
    /\ pc = "done" => i = Len(order) /\ report.code \o report.skipped \in {<<>>, order}
    /\ pc # "done" => report.code = <<>> /\ report.skipped = <<>>

\* What was read while nobody renamed anything still is as it was read.
WholeInv ==
    whole =>
        /\ pc \in {"edges", "walk", "done"} => arg.at \in Fns /\ root = name[arg.at]
        /\ pc \in {"walk", "done"} =>
               order # <<>> /\ edges = Named(CallsBelow(arg.at, arg.depth))

ExplorerInv == TypeOK /\ QueueInv /\ EdgesInv /\ StageInv /\ WholeInv /\ NearestFirst
=============================================================================
