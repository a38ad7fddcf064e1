---------------------------- MODULE IndexQueries ----------------------------
(***************************************************************************)
(* What is asked of the index: ghidra_find with its call counts, and       *)
(* ghidra_where (src/library/resolver.py, src/library/bridge.py).  The     *)
(* index itself, and how it follows the program, is FunctionIndex; renames *)
(* by name and selectors are left to it, a rename by address stands for    *)
(* all.  Added here are the memory blocks and the counts, which are loaded *)
(* when a query first needs them and dropped with every rebuild.           *)
(***************************************************************************)
EXTENDS FunctionIndex, FiniteSets

CONSTANTS
    Calls,      \* Calls[p]: who calls whom in a program, while both exist
    Mapped,     \* Mapped[p]: the addresses in the memory block of p
    Queries,    \* calls of ghidra_find
    Last,       \* the last address; entries are at most that
    None        \* no counts, query or reply

Addrs  == 0 .. Last
Counts == [callees : [Entries -> Nat], callers : [Entries -> Nat]]

ASSUME QueriesAssumption ==
    /\ Last \in Nat /\ Entries \subseteq Addrs /\ IsFiniteSet(Entries)
    /\ Calls \in [Programs -> SUBSET (Entries \X Entries)]
    /\ Mapped \in [Programs -> SUBSET Addrs]
    /\ Queries \subseteq [like : SUBSET Names, region : {"all", "block"}, most : Nat,
                          least : Nat, sort : BOOLEAN, counted : BOOLEAN, limit : Nat]
    /\ \A q \in Queries : q.sort => q.counted
    /\ None \notin Counts \union Queries

VARIABLES
    blocks,    \* resolver.blocks: the program they are of, or NoProgram if empty
    counts,    \* resolver._callees and _callers, or None
    query,     \* the ghidra_find in progress
    found,     \* the reply of ghidra_find, until something happens
    where,     \* the reply of ghidra_where, until something happens
    placed,    \* ghost: the blocks are those of the active program
    known,     \* ghost: whom the edges were about, as far as the index knew
    refused    \* ghost: the counts are of an error reply

queryVars == <<blocks, counts, query, found, where, placed, known, refused>>
allVars   == <<vars, queryVars>>

QTypeOK ==
    /\ TypeOK
    /\ blocks \in Programs \union {NoProgram}
    /\ counts = None \/ counts \in Counts
    /\ query \in Queries \union {None}
    /\ found = None \/ (found.matches \subseteq Entries /\ found.shown \subseteq found.matches)
    /\ where = None \/ (/\ where.at \in Addrs
                        /\ where.previous \in Entries \union {NoFn}
                        /\ where.name \in Names \union {NoFn})
    /\ placed \in BOOLEAN /\ refused \in BOOLEAN
    /\ known \subseteq Entries

QInit ==
    /\ Init
    /\ blocks = active
    /\ counts = None /\ query = None /\ found = None /\ where = None
    /\ placed = TRUE /\ refused = FALSE
    /\ known = {}

-----------------------------------------------------------------------------
(* Counts.                                                                 *)

\* The edges that get_full_call_graph lists; it writes them as names.
Edges(p) == {c \in Calls[p] : fns[p][c[1]] # NoFn /\ fns[p][c[2]] # NoFn}

\* by_name: a name stands for the first entry that carries it.
OfName(n) == {e \in Named(rows, n) : \A d \in Named(rows, n) : e <= d}

\* _load_call_counts: what each entry gets of the edges of p, by the names that
\* the index has of it at that moment.
CountsBy(p) ==
    [callees |-> [e \in Entries |-> Cardinality({c \in Edges(p) : e \in OfName(fns[p][c[1]])})],
     callers |-> [e \in Entries |-> Cardinality({c \in Edges(p) : e \in OfName(fns[p][c[2]])})]]

Zero    == [e \in Entries |-> 0]
NoEdges == [callees |-> Zero, callers |-> Zero]

\* The true counts of a function.
Callees(e) == Cardinality({c \in Edges(active) : c[1] = e})
Callers(e) == Cardinality({c \in Edges(active) : c[2] = e})

\* The functions of p that the index has under the name they have, with nobody
\* else of that name in either.
KnownIn(p) ==
    {e \in Entries : /\ rows[e] = fns[p][e]
                     /\ \A d \in Entries : d # e => rows[d] # rows[e] /\ fns[p][d] # fns[p][e]}

-----------------------------------------------------------------------------
(* The index under the queries.                                            *)

Idle == pc = "idle" /\ query = None

Forget == found' = None /\ where' = None

\* What is noted of counts goes with them, and when the index is no longer sure.
GhostsOfCounts ==
    IF counts' = None \/ ~sure' THEN known' = {} /\ refused' = FALSE ELSE UNCHANGED <<known, refused>>

\* as if the counts outlived the listing they were made with
CountsKept == counts

\* refresh_functions drops the counts.
CountsDropped == None

\* as if a rebuild that raised was swallowed and the query went on
QRefreshSwallowed ==
    /\ \/ Rebuild /\ counts' = CountsDropped
       \/ RebuildRefused /\ counts' = CountsDropped
       \/ RebuildRaises /\ UNCHANGED counts
    /\ UNCHANGED <<blocks, query, found, where, placed>>
    /\ GhostsOfCounts

\* A rebuild, for a query or after another call.  A query goes on after an
\* error reply, with an empty index; if the read raises it fails.
QRefresh ==
    /\ \/ Rebuild /\ counts' = CountsDropped /\ UNCHANGED query
       \/ RebuildRefused /\ counts' = CountsDropped /\ UNCHANGED query
       \/ RebuildRaises /\ query' = None /\ UNCHANGED counts
    /\ UNCHANGED <<blocks, found, where, placed>>
    /\ GhostsOfCounts

\* Calls that leave the blocks alone.
Edit ==
    /\ query = None
    /\ \/ SendRename \/ SendDryRun \/ SendFails
       \/ RenameComponents
       \/ \E e \in Entries :
             \/ Delete(active, e)
             \/ \E n \in Names : Create(active, e, n) \/ AskByAddress(NoProgram, e, n)
    /\ Forget
    /\ UNCHANGED <<blocks, counts, query, placed>>
    /\ GhostsOfCounts

\* resolver.refresh after a switch or at the end of a connect: the blocks are
\* read first; an error reply leaves none.
Move(p) ==
    /\ query = None
    /\ Switch(p) \/ Connect(p)
    /\ blocks' \in {p, NoProgram}
    /\ placed' = (blocks' = p)
    /\ Forget
    /\ UNCHANGED <<counts, query>>
    /\ GhostsOfCounts

\* The read of the blocks raises, and the functions are not read either.
MoveBlind(p) ==
    /\ Idle
    /\ active' = p
    /\ stale' \in {stale, TRUE}
    /\ sure' = FALSE /\ placed' = FALSE
    /\ Forget
    /\ UNCHANGED <<fns, rows, dupes, callVars, blocks, counts, query>>
    /\ GhostsOfCounts

\* Between two listings there is one such change at most: a bound.
World ==
    /\ sure
    /\ Outside
    /\ placed' = (placed /\ active' = active)
    /\ Forget
    /\ UNCHANGED <<blocks, counts, query>>
    /\ GhostsOfCounts

-----------------------------------------------------------------------------
(* ghidra_find.                                                            *)

\* as if a stale index was good enough to be searched
SearchedStale == UNCHANGED pc

\* A stale index is rebuilt before it is searched.
RebuiltIfStale == IF stale THEN pc' = "refresh" ELSE UNCHANGED pc

AskFind(q) ==
    /\ Idle /\ rows # Empty
    /\ RebuiltIfStale
    /\ query' = q
    /\ Forget
    /\ UNCHANGED <<ghidraVars, indexVars, job, sure, blocks, counts, placed, known, refused>>

Loading == pc = "idle" /\ query # None /\ query.counted /\ counts = None

LoadAnswered ==
    /\ Loading
    /\ counts' = CountsBy(active)
    /\ known' = KnownIn(active) /\ refused' = FALSE
    /\ UNCHANGED <<vars, blocks, query, found, where, placed>>

\* An error reply has no edges: nobody calls anybody, until the next rebuild.
LoadRefused ==
    /\ Loading
    /\ counts' = NoEdges
    /\ known' = KnownIn(active) /\ refused' = TRUE
    /\ UNCHANGED <<vars, blocks, query, found, where, placed>>

LoadRaises ==
    /\ Loading
    /\ query' = None
    /\ UNCHANGED <<vars, blocks, counts, found, where, placed, known, refused>>

\* The read reconnects: index and blocks are replaced before the edges come
\* back, and these are counted by the names of the index as it was.
LoadReconnects(p) ==
    /\ Loading
    /\ active' = p
    /\ rows' = fns[p] /\ dupes' = Duplicates(fns[p]) /\ stale' = FALSE
    /\ blocks' = p
    /\ counts' = CountsBy(p)
    /\ sure' = TRUE /\ placed' = TRUE
    /\ known' = KnownIn(p) /\ refused' = FALSE
    /\ UNCHANGED <<fns, callVars, query, found, where>>

Region(q) ==
    CASE q.region = "all" -> Entries
      [] q.region = "block" /\ blocks # NoProgram -> Mapped[blocks] \intersect Entries
      [] OTHER -> {}

Matching(q) ==
    {e \in Region(q) :
        /\ rows[e] \in q.like
        /\ q.counted => counts.callees[e] <= q.most /\ counts.callers[e] >= q.least}

\* Row d comes before row e.
Before(q, d, e) ==
    IF q.sort /\ counts.callers[d] # counts.callers[e]
    THEN counts.callers[d] > counts.callers[e]
    ELSE d < e

Shown(q) == {e \in Matching(q) : Cardinality({d \in Matching(q) : Before(q, d, e)}) < q.limit}

Answer ==
    /\ pc = "idle" /\ query # None
    /\ ~Loading
    /\ found' = [query |-> query, matches |-> Matching(query), shown |-> Shown(query)]
    /\ query' = None
    /\ UNCHANGED <<vars, blocks, counts, where, placed, known, refused>>

-----------------------------------------------------------------------------
(* ghidra_where.                                                           *)

\* as if any row below the end of the index would do
PreviousOfAll(a) == {e \in Entries : rows[e] # NoFn /\ \A d \in Entries : rows[d] # NoFn => d <= e}

\* bisect_right - 1: the last row at or before an address.
Previous(a) ==
    {e \in Entries : /\ e <= a /\ rows[e] # NoFn
                     /\ \A d \in Entries : d <= a /\ rows[d] # NoFn => d <= e}

\* describe: the function at the address is asked of Ghidra; where there is none,
\* in a block, the index names the previous one, stale or not.
Described(a) ==
    LET inBlock == a \in Mapped[blocks]
        here    == a \in Entries /\ fns[active][a] # NoFn
        last    == IF inBlock /\ ~here /\ Previous(a) # {} THEN CHOOSE e \in Previous(a) : TRUE ELSE NoFn
    IN [at |-> a, mapped |-> inBlock, function |-> here,
        previous |-> last, name |-> IF last = NoFn THEN NoFn ELSE rows[last]]

AskWhere(a) ==
    /\ Idle /\ blocks # NoProgram
    /\ where' = Described(a)
    /\ found' = None
    /\ UNCHANGED <<vars, blocks, counts, query, placed, known, refused>>

-----------------------------------------------------------------------------
Load == LoadAnswered \/ LoadRefused \/ LoadRaises \/ \E p \in Programs : LoadReconnects(p)

QNext ==
    \/ QRefresh \/ Edit \/ World \/ Load \/ Answer
    \/ \E p \in Programs : Move(p) \/ MoveBlind(p)
    \/ \E q \in Queries : AskFind(q)
    \/ \E a \in Addrs : AskWhere(a)

QSpec == QInit /\ [][QNext]_allVars

-----------------------------------------------------------------------------
(* Properties.                                                             *)

\* Counts that were answered stay those of the functions they are listed with
\* through renames, creations, deletions and switches: of every function that the
\* index knew under its name, as the only one, when they were counted, also when
\* that was by the index from before a reconnection.  An error reply in place of
\* the edges is left to LeavesAreLeaves.
CountsAreOfRows ==
    counts # None /\ Settled /\ sure /\ ~refused =>
        \A e \in known : counts.callees[e] = Callees(e) /\ counts.callers[e] = Callers(e)

Satisfies(q, e) ==
    /\ fns[active][e] \in q.like
    /\ q.region = "block" => e \in Mapped[active]
    /\ q.counted => Callees(e) <= q.most /\ Callers(e) >= q.least

\* A reply of ghidra_find matches every function that satisfies the query and
\* no other, if nothing went past the index and the blocks since they were read
\* (an error reply to the listing counts as that); by counts, if the edges were
\* answered, and of the functions that the index knew under their name, as the
\* only one, when the edges came.  What limit leaves out is no better than what
\* is shown, by the counts there are, and only a full reply leaves anything out.
FindIsExact ==
    found # None =>
        /\ /\ sure
           /\ found.query.region = "block" => placed
           /\ found.query.counted => ~refused
           => \A e \in IF found.query.counted THEN known ELSE Entries :
                   e \in found.matches <=> Satisfies(found.query, e)
        /\ found.shown # found.matches => Cardinality(found.shown) = found.query.limit
        /\ found.query.counted /\ found.query.sort =>
               \A e \in found.shown, d \in found.matches \ found.shown :
                   counts.callers[d] <= counts.callers[e]

\* "max_callees=0 -> leaf functions" (bridge.py:317): by counts, a reply matches
\* no function with more callees than asked for, if the index knew it when the
\* edges were asked for.  Violated: an error reply counts as a graph without edges.
LeavesAreLeaves ==
    found # None /\ sure /\ found.query.counted =>
        \A e \in known \intersect found.matches : Callees(e) <= found.query.most

\* ghidra_where does not rebuild a stale index: what it says of an address is
\* true all the same, since a stale index still knows where functions are; the
\* name it gives the previous one is the function's if the index is not stale; a
\* stale one may have any (resolver.py:164).
WhereIsTrue ==
    where # None /\ sure /\ placed =>
        /\ where.mapped <=> where.at \in Mapped[active]
        /\ where.mapped /\ ~where.function =>
               \A e \in Entries : e <= where.at /\ fns[active][e] # NoFn =>
                   where.previous # NoFn /\ e <= where.previous
        /\ where.previous # NoFn =>
               /\ where.previous <= where.at /\ fns[active][where.previous] # NoFn
               /\ ~stale => where.name = fns[active][where.previous]

-----------------------------------------------------------------------------
(* The inductive invariant behind the three.                               *)

\* A query goes on with an index that is not stale, or after its rebuild; a
\* reply is looked at while nothing else goes on; blocks that were read are
\* those of the active program until that changes.
QueryInv ==
    /\ pc \in {"idle", "byaddr", "refresh"}
    /\ pc = "refresh" => job = NoJob
    /\ query # None => pc \in {"idle", "refresh"} /\ (pc = "idle" => ~stale)
    /\ found # None \/ where # None => pc = "idle" /\ query = None
    /\ placed => blocks = active

QueriesInv ==
    /\ IndexInv /\ QTypeOK /\ QueryInv
    /\ CountsAreOfRows /\ FindIsExact /\ WhereIsTrue
=============================================================================
