# GhidraMCP bridge: TLA+ specifications

GhidraMCP is a bridge between an MCP client (a language-model front end) and one
or more running Ghidra instances.  Each Ghidra runs an HTTP plugin; the bridge
fetches the plugin's schema, groups its endpoints into section tools, and adds
tools of its own that work on indexes it keeps.  This directory models the parts
of the bridge (`src/library/`) that keep state, checks them with TLC on small
instances and proves their safety properties with TLAPS for every value of the
constants.

## The system

| Component | State | Operations | Talks to |
|---|---|---|---|
| HTTP client (`client.py`) | kept-alive socket, time of last use, lock | `request` (retries by method), `get_json`, `close` | the plugin, over TCP or a Unix socket |
| Dispatcher (`dispatcher.py`) | hooks by action | `call` (validate, guard, send, shape, hint, hook), `raw`, `_send` (one reconnection for a read) | client, resolver, shaper, `Bridge.reconnect` |
| Resolver (`resolver.py`) | memory blocks, entries and names, `_dupes`, `stale`, call counts | `refresh`, `rename`, `find`, `describe`, `addresses_named` | dispatcher.raw |
| Bridge (`bridge.py`) | client, project, cached program name, pending MCP calls | `connect`, `auto_connect`, `reconnect`, the static tools | everything |
| Registry, catalog, sections | tools offered, endpoints by name, section of each | `register`, `from_schema`, `assign` | MCP server |
| Scanner (`discovery.py`, `uds.py`) | none | `scan`, `find` | sockets in a directory, a range of ports |
| Annotator (`annotator.py`) | target program of the pass | `apply`: writes, read-backs, one retry, fallback, save | dispatcher.call |
| Explorer (`explorer.py`) | none | `explore`: breadth-first walk, cut at `max_functions` | dispatcher.call, resolver |
| Shaper (`shaper.py`) | none | `shape`: unwrap, table, tidy, cap | |

`tooldef`, `address`, `config`, the entry point and the stdio driver under
`test/` keep no state; what the first three decide of a call is in `ActionCall`.
`original/` is the upstream bridge, kept for reference and not imported.

**Concurrency.** The tools are synchronous functions that FastMCP runs on the
event-loop thread: one tool call at a time.  The bridge can be interleaved with
itself only at the awaits of `connect_instance` (`bridge.py:185`) and of the
poller that `import_file` starts (`bridge.py:356`).  But a call can nest in
another: `_send` reconnects, `reconnect` connects, `connect` reads the program,
and that read is again a `_send`.  And the rest of the world does not wait:
the plugin runs requests whose client has given up, a person edits the program
in Ghidra's GUI, scripts call the plugin directly, instances stop and others
start at their address.

**What is hard** is listed line by line in `PROJECT.json` under `hazards`.  In
short: resending a write; knowing what a failed write has done; an index that
must stay true through changes it is only partly told of; guards that decide by
that index; a reconnection in the middle of another connect; a pass of many
writes whose summary must say what became of each.

**What makes each part correct.**
- Client: a write runs at most once, and what a caller is told of it is true;
  no request goes into a socket the server has dropped; a call returns.
- Index: it agrees with the program or says it is stale; a rename by name that
  is let through hits one function.
- Connection: client, project, catalog, tools and indexes belong to one
  instance; the tools offered are those of the catalog; every call returns.
- Annotator: a name counted as applied has taken, in the program the pass names;
  the fallback by name renames its own function; a pass ends.
- Queries: `ghidra_find` answers for the program as it is, as far as the index can
  know it; `ghidra_where` finds the right function also in a stale index; call counts
  stay with the functions they are of.
- Explorer: the functions decompiled are the nearest ones, and what is not
  decompiled is listed.
- Scanner and import: a Ghidra is listed once and not hidden by another; an
  analysis that is announced as complete is.
- Catalog: every endpoint has a name, and help, search and hints lead to a tool that
  runs it.
- A call: what was asked for is what is sent, to the endpoint it was asked of, even
  if the catalog is replaced under it.
- Shaper: nothing is lost without a word, and a reply that was cut says so.

## The modules

| Module | What it is |
|---|---|
| `RemoteCall` | abstract: what the client promises of a call |
| `GhidraClient` | the client, the loop of `_send`, the socket and the plugin |
| `MCGhidraClient` | the instance that TLC checks |
| `GhidraClientProofs` | its theorems, with the refinement of `RemoteCall` |
| `FunctionIndex` | the resolver's index, the rename guards and the hooks |
| `MCFunctionIndex`, `FunctionIndexProofs` | its instance and its theorems |
| `BridgeConnection` | connect, reconnect, scan, catalog, tools, nested calls |
| `MCBridgeConnection`, `BridgeConnectionProofs` | its instance and its theorems |
| `Annotator` | a labelling pass: writes, read-backs, one retry, the fallback by name |
| `MCAnnotator`, `AnnotatorProofs` | its instance and its theorems |
| `IndexQueries` | extends `FunctionIndex`: `ghidra_find`, `ghidra_where`, memory blocks, call counts |
| `MCIndexQueries`, `IndexQueriesProofs` | its instance and its theorems |
| `Explorer` | `ghidra_explore`: the reads, the walk and its cut |
| `MCExplorer`, `ExplorerProofs` | its instance and its theorems |
| `Instances` | which Ghidras there are, the scan of sockets and ports, the poller of `import_file` |
| `MCInstances`, `InstancesProofs` | its instance and its theorems |
| `Catalog` | names, sections and section tools of a schema; `ghidra_tools` and `ghidra_help` |
| `Shaper` | pure operators: from what an answer states to the lines of a reply |
| `ActionCall` | extends both: a call from its arguments to the request and from the answer to the reply |
| `MCActionCall`, `ActionCallProofs` | its instance and the theorems of all three |

In each module the operators whose comment starts with "as if" are not used by
the specification.  Each is one of its definitions with a plausible bug put in;
`PROJECT.json` pairs it with the property that TLC then finds violated.

### GhidraClient

One action per way a step of `request()` can go: `SendDelivered`,
`SendVanishes`, `SendFails` for `conn.request`; `ReceiveReply`, `ReceiveTorn`,
`ReceiveFails` for `getresponse` and `read`; `ReconnectSucceeds` and
`ReconnectFails` for the reconnection of `_send`.  `attempt` is the loop counter
of `request()`, `round` that of `_send`.  `outcome` is what the caller gets:
`answered` (any status read in full), `unsent` (a `SendFailed`), `lost` (an
OSError after the send, `None` of `get_json`, or the error reply of a read) or
`raised` (an exception that is no OSError).  `link` is the socket as it really
is, which the client cannot see: `expired` when the server dropped it for being
idle, `dead` when Ghidra went away.  The client looks at `idle` only.

The plugin may hold a request (`inbox`), run it and answer with any status, or
hold it past the client's timeout (`orphans`) and run it later.  `Crash` empties
all of that and may tear a response that is on its way.

Assumptions, besides the types of the constants: `ClientIdle < ServerIdle`, the
reason given for `KEEPALIVE_IDLE_MAX` in `client.py:48`; a send that fails
delivered nothing, which is what `SendFailed` (`client.py:57-59`) takes it to
mean; one call at a time (the lock, and the event loop).  A redirect, a body that is not UTF-8, a malformed status line and
the `OSError` at the end of `request()`, which no path reaches, are left out.

### FunctionIndex

`fns` is the program in Ghidra: a name or nothing at each entry, in each open
program; `Group` says which entries are a thunk and its implementation, which
always report one name.  `rows`, `dupes` and `stale` are the fields of the
resolver.  `pc` and `job` hold the rename in progress, because the program may
change between its steps: the guard reads the index, perhaps after a rebuild;
the write goes out; the hook patches the index by the reply.

`SendDryRun` is a reply that is no error although nothing changed: a dry run, or
a failure without `"error"` in its first 40 characters, which is all the hook
looks at.  `RebuildRefused` is an error reply to `list_functions`: no line of it
parses, so the index is empty and not stale.  `RebuildRaises` is a torn reply,
which every caller swallows.  `Connect` is the rebuild at the end of a connect.

`sure` is a ghost: it falls when something goes past the index (a change by
hand, a dry run, a failed read, a rename in another program) and rises with the
next good rebuild.  `IndexIsTrue` and `NoArbitraryRename` promise nothing while it is
down; what a dry run does to the index is the run of `DryRunKeepsIndexTrue`.  Of a
rename in a program that is not the active one, and of a redirected one, no property is
stated: the first is guarded by the wrong index (see the divergences), and between the
read of the name at an entry and the write nothing can come but a change in the GUI,
which no check over HTTP could exclude.

### BridgeConnection

`stack` holds the calls in progress: a `connect` at its schema, at its blocks or
at its functions, or an ordinary read; `try` is the loop of `_send` around the
read.  `ReadReconnects` pushes a `connect` frame, `ConnectReturns` pops it, and
the `_send` below goes on with its second round or its error reply.  An outer
connect that goes on reads from whatever `bridge.client` is now, as the getter
`lambda: self.client` does.  `serving` says what listens at each address; an
instance may stop and another start there between the scan and the connect.  A
stranger is a server in the scanned range that answers with something else than
JSON: `json.loads` raises after `client` and `project` were replaced.  `Homes`
says at which addresses a server may listen.

`catalog`, `blocks` and `funcs` are modelled by the instance they were read
from, which is what matters of them.  `calm` is a ghost: true from the moment a
schema was read of the instance the scan promised until something fails.

Left out: an instance seen at both a Unix socket and a port, the program-name
probe (it changes the cached name only), tools that write (they never reconnect)
and the error texts.  Assumed: no section is named like a static tool
(`ToolsAssumption`), true of the table in `sections.py`, and not checked by the
code for a sections file of the user's.

### Annotator

A pass is a sequence of writes to distinct places, in the order `apply` makes
them: the names of functions, of globals, and everything else (prototypes,
types, comments, a batch of labels) as notes, which are never read back.  `pc`
is where `_run` stands: `write` before the call, `current`, `guard` and `byname`
in the fallback `_rename_by_name`, `verify` before the read-back, `save` after
the last write.  `k` and `attempt` are its loops; `result` is what the summary
will say of each write, emptied by `Abort` when an exception leaves `apply` and
no summary is returned.  `Reached` is where a call goes: to the program named if
the endpoint has a selector, else to the active one, and then `listed`
(`_unscoped`) gets the endpoint.

A call has the outcomes of `GhidraClient` as the annotator sees them.  A write
may take, be answered as done and not take, be refused, be lost (having taken,
or held by the plugin and made by `LateTakes` any time later), or raise.  A read
that reconnects to another instance is an `OutsideSwitch` with as many
`OutsideEdit`s as the functions' names differ by.  The guard of the
fallback reads the index, which is not repeated here: `sure` is the ghost of
`FunctionIndex` and means that the index is true of the active program; without
it the guard may decide either way.  `quiet` is a ghost, too: nobody else has
changed a function's name or the target of the pass, and no rename by name has
hit another function.

`CountedNamesTook` promises something only of a pass that was quiet, was no dry
run and lists no endpoint as not enforced: the summary itself warns of the
latter, and a name that someone changes after the read-back is nobody's mistake.

Left out: whether the save worked, and the program name in the reply.  A pass
sets each place once (`PassesAssumption`); the code does not check that.

### IndexQueries

The queries run on the index of `FunctionIndex`, with its actions for what
changes it: a rename by address (`Edit`) stands for all that the hook patches,
`Move` and `MoveBlind` for a switch that the bridge is told of or not.  Added
are `blocks` (the program whose memory blocks the resolver holds) and `counts`.
A query is a step, except that one with filters on calls first loads the counts,
which is a read of its own: it may be answered, refused (and then the counts are
empty, not missing), raise, or reconnect and so replace index and blocks under
the query.  `found` and `where` are the reply, until something else happens.

A stale index is searched by `ghidra_where` as it is, so `where` has the name of the
previous function as the row tells it, beside its entry.

`known` is a ghost: the functions that the index had under their own name, as the
only ones of it, when the edges came (the calls of others are all counted for the
first of the name, or for nobody).  After a reconnection these are names of the old
index against edges of the new program.  `refused` is one, too: the counts are of an
error reply.  `CountsAreOfRows` and `FindIsExact` speak of the known ones, and by counts
of answered edges only; what a refused reply leads to is the run of `LeavesAreLeaves`.
`FindIsExact` compares a reply with the program itself, not with the index, as long as
`sure` and `placed` say that nothing has gone past either.

### Explorer

One walk: `RootFound` or the second attempt `Contained`, `EdgesRead`, a `Visit`
for each node, `Walked`.  The edges of the reply are between *names*, so
functions that share one are one node, and the reply may be cut by the cap (any
edges that fit) or fail (none).  Functions may be renamed between the reads.
The order in which a node's callees are appended is that of the reply, so any.
`max_functions` may be negative, which Python's slices take from the end.
`whole` is a ghost: every read of this walk was complete and of one state.

### Instances

A scan is `ListSockets`, a `ProbeSocket` for each socket, `KnockPorts`, a `Knock`
for each open port, and anything may start, stop, crash or open a program in
between.  A socket file outlives a crash and may be seen along several paths; a
process id may be taken again, by a Ghidra or by something else.  `found` has the
records, `of` in them is the process behind one, which the bridge cannot see.
`Import` and `follow` are the poller, which runs at any `await` and asks whichever
instance is connected by then.  `answered`, `steady` and `moved` are ghosts.

### Catalog, Shaper and ActionCall

A name is a sequence of parts, so that a number can be added to it: `Base` is what
`sanitize_name` makes of an endpoint's name, which is not modelled itself.
`Load` is what `connect` does with a schema; `sectionOf` is never cleared, as in
the code (`LastSection`).  `SectionTools` and `OwnTools` are what is registered, with
`flat` and without.  `Tools` is the reply of `ghidra_tools`: the number of actions found
and rows of at most `MaxHits` of them (40 in the code); `Help` is that of `ghidra_help`,
and `Hints` where a section tool sends the caller of an action it does not have.

An answer is a function from fields to values of a few kinds, and states a set of
facts; a reply is a sequence of lines, each a set of facts, and the cap counts
facts.  `JsonStage` and `Capped` are the stages of the shaper in their order.  A
line of the bridge's own (`Note`) is a fact as well, and so is counted where the
code counts its line.

`ActionCall` follows one call: `CallSection`, `CallOwn` or `CallImport`; `Resolve`, the
redirect of a rename that has an address; `LookUp`, which finds the action in the
catalog, validates and prepares the request; `Send` or `Refuse`; an answer; and `Finish`,
which is the hooks, the count of lines against the limit and `_grep`.  These are steps
of their own because the code reads from Ghidra between them, and a read may reconnect
and replace the catalog: `Connect` is possible between two calls and wherever `Reading`
holds.  Arguments are absent, blank (`None` or `""`), or have a value, for `dry_run` yes
or no; `asked` is a ghost with what the caller said and the endpoint that was chosen.
The checks of a rename that depend on the program are
`FunctionIndex`'s; here they may refuse any call.

Left out: coercion of values, `ARG_LIMITS`, the lists of comments
(`PAYLOAD_NORMALIZERS`), the hints that add a line to an error or to a decompiled
`halt_baddata()`, the one default the bridge adds by itself (`DEFAULT_ARGS`), and what
`text_stage` does to white space.

## The runs

| Run | Bounds | What it shows |
|---|---|---|
| `client` | 2 POSTs, 1 GET, 1 probe; idle limits 1 and 2 | no write runs twice, what is told of it is true, no stale socket, bounded load; every call returns; the client implements `RemoteCall`; 1,053,702 states |
| `index_safety` | 2 programs, 3 entries of which 2 share a name, 2 names | index and guards; 998,218 states |
| `index_dry_run` | the same | violation: a dry run makes a true index wrong |
| `index_queries` | 2 programs, 2 entries, 2 names, 3 queries | the replies of `ghidra_find` and `ghidra_where` are those of the program; 2,054,898 states |
| `find_counts` | the same | violation: a refused call graph makes every function a leaf |
| `connection` | 3 addresses, 2 Ghidras and a stranger, 2 faults, 1 waiting reply | the bridge is of one piece and every call returns; 394,987 states |
| `instances` | 3 processes, 2 with sockets, 2 that share a pid, 2 that share a project; 3 changes, 1 poll | who is listed, and what is announced as analyzed; 1,033,184 states |
| `annotate_pass` | 2 programs, 2 functions, 1 global, 1 note, 2 values, 5 passes of at most 2 writes, 1 held call | the summary of a pass is true and the pass ends; 496,806 states |
| `annotate_label` | the same | violation: a global's name that took is reported to differ |
| `explore` | 64 graphs of 4 functions, 2 namings, depths 1 and 2, limits -1, 0 and 2, 3 edges to a reply, 1 rename | the walk is sorted, complete and ends; 371,920 states |
| `action_call` | 3 schemas, 9 endpoints, 6 arguments, 11 objects, at most 5 rows, a cap of 3, 2 hits | names, sections and directions, requests and replies; 402,100 states |
| `redirect_reconnect` | the same | violation: a redirected rename reaches another endpoint |

Why the bounds are enough.  *Client*: calls interact only through the socket and
the copies that outlive them, so two writes with a read and a probe between them
show every pair; `idle` needs one value within the client's limit, one past
it, and one past the server's.  The numbers of crashes, restarts and orphans are not bounded:
the state is finite by itself.  *Index*: a shared name needs two entries, a
clash with an unrelated function a third; a wrong program needs two.
*Connection*: `MaxFaults` bounds crashes and lost replies together.  Two faults
suffice for a connect nested in a connect nested in a call; without a bound the
stack is unbounded, as it is in the code, where every level can lose its
connection again.  One waiting reply is one `connect_instance` overtaken by other
calls.  *Annotator*: writes of one pass interact through names and through
calls made late, so two writes suffice: to two functions with different names,
with one name, and to a function and a global; `MaxLate` bounds the calls the
plugin holds, one of which can already come back in any later step.  There is
one pass: what an earlier one left behind is in what the functions are named at
first.  Edits and switches from outside are not bounded.  The rename by name is
the endpoint without a selector.  *Queries*: counts go wrong between two functions,
or between two programs; the queries differ in what they need loaded and in
whether `limit` cuts.  *Explorer*: four functions give diamonds, cycles through
and past the root and two functions of one name at different depths; a cut by
`CapEdges` needs more than three calls; `MaxRenames` is 1 because a walk has three reads.
*Instances*: two sockets, a port without one, a pid taken again and a shared
project are what the records are told apart by.  `MaxChanges` bounds starts, stops
and openings; the run was made once with 4 changes and 2 polls (3.3 million
states) without another result.  *A call*: the schemas are builds with and
without the endpoint a redirect needs, one with another endpoint of its name, and both
orders of two endpoints that want the same name; two hits are fewer than a section
may have; the rows and objects straddle the cap, and half of it, from both
sides.  The invariants are proved without any of these
bounds except `MaxFaults`, `MaxAwaiting`, `MaxLate`, `MaxChanges` and `MaxPolls`, which are
arbitrary numbers in the proofs.

Symmetry is used in `index_safety`, where programs and names are
interchangeable; `client` has a liveness property and does without.  Deadlock
is checked in every run: the environment can always take a step.

**Fairness.** `client`, `connection`, `annotate_pass` and `explore` assume weak fairness of the
bridge's own steps: its thread is not suspended, and every socket operation ends
because each has a timeout (`client.py:110-115`).  Nothing is assumed of Ghidra,
the network or the user.  The bound on faults does stand behind
`EveryToolReturns`: it says that a call returns if the connection is lost a
finite number of times.  The other modules state no liveness and no fairness: a
poll of `import_file` may never be made, and a call of an action is a straight line.

### What the violation runs show

Each is a place where the code does something else than its documentation says;
`findings` in `PROJECT.json` has the lines.
1. `DryRunKeepsIndexTrue`: the hook that patches the index does not look at
   `dry_run`.
2. `LabelErrorsAreReal`: the verifier is chosen by the field `name`, which
   globals have, too, and reads a function.
3. `LeavesAreLeaves`: an error reply to `get_full_call_graph` is taken for a graph
   without edges, and kept until the next rebuild.
4. `RedirectGoesByAddress`: the action of a redirect is found, then the name at the
   entry is read, then the action is looked up; if the read reconnects to a build
   that gives the name to another endpoint, the request goes there.

### Other divergences

Met while modelling, and not made runs of their own:
- A reply that breaks off raises `IncompleteRead`, which goes past
  `except OSError` in `_send` (`dispatcher.py:529`), although `request()` promises
  OSErrors (`client.py:151`).  `GhidraClient` has it as the outcome `raised`.
- The uniqueness guard looks at the index of the active program also for a rename
  in another one (`dispatcher.py:487`), and the check of a redirected rename reads the
  name at the entry in the active program (`dispatcher.py:457`, `resolver.py:138`)
  although the write carries the selector of another (`dispatcher.py:469`);
  `NoArbitraryRename` leaves other programs out.
- With `require_program`, a blank program counts as given when the selectors are
  checked (`dispatcher.py:200`), and is left out of the request afterwards
  (`dispatcher.py:214`).
- An error reply to `list_functions` leaves an index that is empty and not stale
  (`resolver.py:64`): `ghidra_find` then finds nothing, and the guard knows no name.
- A section tool sends the caller by `section_of`, which remembers the sections of
  catalogs that are gone (`registry.py:91`).
- `reconnect` adopts another project whose name contains the lost one
  (`bridge.py:140`, `discovery.py:24`), and the reply of `connect_instance` is made
  of the scan's record after an await (`bridge.py:186`); `BridgeConnection` has both.
- `name_via_byname_path` is counted before the read-back (`annotator.py:132`).
- A table drops `success`, `message` and `truncated` (`shaper.py:30`), so a failure
  or a page the server cut reads like a whole one if it has a list of records;
  `NothingLost` leaves these three fields out.
- Server-only fields and lint are not looked for inside `{success, data}`, which is
  unwrapped after that (`shaper.py:72-90`); and `_refresh_index` looks for
  `"success":true` after the unwrapping (`dispatcher.py:515`).
- `_grep` can drop the note that the reply was cut (`dispatcher.py:263`), and the
  note of the cap counts as a row against the limit (`dispatcher.py:357`).
- `_comment_entries` drops entries without an address or a comment, although it
  promises to pass on what it does not recognise (`dispatcher.py:66-67, 89-91`).
- A blank `dry_run` in `args` wins over one at the tool level (`registry.py:84`).
- A redirected rename loses the arguments it does not carry before they are
  validated (`dispatcher.py:462-474`).
- In flat mode `ghidra_help` and `ghidra_tools` still name section tools, which are
  not registered (`registry.py:53-57`, `tooldef.py:121, 130`); and an endpoint
  called like a static tool without `ghidra_` has no help (`bridge.py:196`).
- `ghidra_where` does not rebuild a stale index, so the name it gives may be an old
  one (`resolver.py:161-164`), and `ghidra_find` gives up on an empty one before it
  looks whether it is stale (`bridge.py:321`).
- A socket that does not answer hides the project although the port did
  (`discovery.py:117-119`); a program opened again after a restart is announced as
  analyzed (`bridge.py:358`).
- A failed or cut read of the edges is reported as "leaf: no callees"
  (`explorer.py:83-84`).

## The proofs

TLAPS checks, for every value of the constants that satisfies the named
assumptions:

| Theorem | States |
|---|---|
| `GhidraClientProofs!ClientInvHolds` | `Spec => []ClientInv` |
| `TypeCorrect`, `WritesRunAtMostOnce`, `WriteReportsAreTrue`, `NoStaleSocketIsUsed`, `LoadStaysBounded` | each safety property of the client |
| `ClientImplementsRemoteCall` | `Spec => RC!Spec` |
| `FunctionIndexProofs!IndexInvHolds` | `Spec => []IndexInv` |
| `TypeCorrect`, `IndexStaysTrue`, `GuardIsSound` | each safety property of the index |
| `BridgeConnectionProofs!ConnectionInvHolds` | `Spec => []ConnectionInv` |
| `TypeCorrect`, `ToolsAreOfCatalog`, `BridgeIsOfOnePiece` | each safety property of the connection |
| `AnnotatorProofs!AnnotatorInvHolds` | `Spec => []AnnotatorInv` |
| `TypeCorrect`, `CountedNamesAreTrue`, `FallbackIsSound` | each safety property of a pass |
| `InstancesProofs!InstancesInvHolds` | `Spec => []InstancesInv` |
| `ScanFindsEachOnce`, `ScanHidesNobody`, `ScanShowsConnected` | who is in the list of a scan, and how often |
| `CompletionIsAlwaysReal` | what is announced of an import, an action property |
| `ExplorerProofs!ExplorerInvHolds` | `Spec => []ExplorerInv` |
| `TypeCorrect`, `WalkIsNearestFirst`, `NothingLeftOutHolds`, `WalkCoversSubtreeHolds` | each safety property of a walk |
| `IndexQueriesProofs!QueriesInvHolds` | `QSpec => []QueriesInv` |
| `QTypeCorrect`, `CountsStayTrue`, `FindStaysExact`, `WhereStaysTrue` | each safety property of the queries |
| `ActionCallProofs!ActionInvHolds` | `Spec => []ActionInv` |
| `TypeCorrect`, `AskedIsAlwaysSent`, `EndpointIsRight` | that a request is the one asked for |
| `EveryEndpointIsAlwaysNamed`, `DirectionsAlwaysHold` | that every endpoint has a name, and that help, search and the hints for present actions lead to it |
| `CutIsAlwaysMarked`, `NothingIsEverLost` | that a reply says all there is, or that it was cut |

**Client.**  "At most once" is not inductive: nothing in it says where the one
copy of a write is.  `PostInv` does: while the outcome is open there is no
orphan, and a handler has run only if the reply is on its way or was just lost;
after that, each outcome fixes the number of copies.  `WireInv` ties the
socket, the inbox and the reply to `pc`, and `LoadInv` counts copies by the
attempts used up.  The refinement then needs only `ClientInv` before the step.

**Index.**  A patched index stays true only if the patched row's name is shared
with no other entry, so `SharedInv` says that the index knows every name that
thunks share, and `PresenceInv` that even a stale index knows where functions
are; the latter is what makes the empty-index test of the guard harmless.

**Connection.**  The invariant is about the whole stack.  `StackInv` says that
only the top frame can be fetching a schema and that a frame below another is in
its first round; `PieceInv` says how much of the index belongs to the connected
instance by where the innermost frame with a client stands.  `OuterFacts`,
`PushFacts` and `GotoFacts` reduce the stack operations to facts on indexes.

**Annotator.**  That counted names have taken is nearly inductive: what could
break it are calls made late.  `HeldHasFailed` says that such a call is of a
write the summary reports as failed, or has no summary, so it is another place
than any that is counted; `InOrder` says that nothing is yet counted from `k`
on.  The fallback is sound because of `FallbackIsFresh`: whatever could make the
name it has read, or its being unique, untrue makes `sure` false.  `StepKeeps`
states once what every step of the loop keeps; the steps are its cases.

**Instances.**  That a process is listed once is inductive only with the place
of each probe: `TodoInv` says that what is still to be probed has no record yet,
`OneOverEach` that there is one record of a process over each transport, and
`RecordInv` that a record over a socket has the pid of its process.  A record over
TCP is then either known by its pid or comes from a process that tells none.
`FollowInv` says why an analysis that is not over is not reported as over: it still
goes on, its Ghidra is gone, or the program is not open there.

That nobody is hidden is made true probe by probe (`ListInv`): a Ghidra is accounted
for as soon as it has answered, and what is found later takes no record away, since
no id is taken that a running process has (`WorldInv`).  The same invariant says of a
Ghidra that goes on running that its socket is in the list or still to be probed.

**Explorer.**  `NearestFirst` needs to know how the queue came about: `QueueInv` says
that all that the visited nodes lead to is in it, and that each node but the root was
put there by an earlier, visited one.  A node `n` edges away then has every nearer one
before it, by induction over `n`.  `EdgesInv` bounds the names, and with them the queue:
so that after a walk everything within any number of edges has been met
(`NothingLeftOut`), a set that grows with every number of edges would have to outgrow
them.  `WalkCoversSubtree` relates the walk over names to the calls between functions:
`WholeInv` says that edges read whole are still those of the program, and a path
between names of functions that share one is a path between functions only because the
plugin reports the calls of everything less than `depth` away.

**Queries.**  `QueryInv` says when a query can be under way: never on a stale index,
never beside another read, and with blocks of the active program while `placed` holds.
`IndexInv` gives the rows, and `CountsAreOfRows` is preserved because every step that
changes what is called where, or which program is active, drops the counts, patches one
row, or makes `sure` false.  Counts that are loaded are right of those in `known` by
what `known` is (`CountedByName`), also where they were counted by an older index.  The proof that the previous function is found goes by the
greatest entry below an address, which exists in any finite stretch.
Each step of `IndexQueries` is one of `FunctionIndex` or leaves the index alone, so the
lemmas of `FunctionIndexProofs` carry `IndexInv` over it (`QStepIndexInv`).

**Calls.**  `OnItsWay` is what makes `AskedIsSent` and `RightEndpoint` inductive: from
the handler to `_prepare` the arguments hold what was asked for; until a call is
redirected no read is made, so its action is still the endpoint chosen; and after that
the action is a name that the rename by address has in some build, so that what it is
looked up to is that endpoint or a `Namesake` of it.  This needs `CatalogInv`: the
catalog of the moment is the one some schema gives.  That a true
`dry_run` reaches the request rests on `Valid`: an argument the endpoint neither
declares nor takes synthetically is refused, not dropped.

**Catalog.**  `SchemaIsNamed` goes along the schema: each endpoint adds one name that is
neither taken nor a static tool's.  `OwnNameIsNew` is why there is one: of the numbers
from 2 to two more than the names that are used one is free, since numbered names
differ.  That directions hold follows from `CatalogInv`: members and `sectionOf` say
the same of every name of the present catalog, whatever `sectionOf` kept of old ones;
the rows of a cut reply are some of the actions found, and fewer only if `MaxHits` is.

**Replies.**  `CappedSaysSo`: what `cap_stage` returns is the text or has the note, and is
without it no longer than the cap, also when it cuts within a line.  `JsonShowsAll`
follows an object through the stages: what is dropped on the way is in `MayGo`, and a
table shows every field since `IsTable` lets no other structured one pass.  `ReplyInv`
carries both to `Finish`.  There `FinishMarksCuts` counts: a reply without a note
of the cap is the rows that were sent; if they are fewer than there are, the limit
cut them, and then as many lines as the limit are there, or the listing stopped short
by more than the tolerance.

**Induction over data.**  The induction theorems of the library take an operator as a
parameter and cannot be used here.  Where a function is recursive (`Within`,
`FromSchema`, `Matching`) the proofs use the lemma `Induction`, about a *set* of
numbers: it follows from the library's theorem that `<` on `Nat` is well-founded
and so has a least element in every set.  That a recursive function is what
its equation says is proved by the same induction, over the set of the numbers up to
which a function fits the equation.  A finite count is compared by injections and
subsets.  For this the models write `FromSchema` and `Matching` as recursive functions,
not as folds.

**Assumptions.**  Each is named in the module of its constants and evaluated by TLC on
every run of it.  Beyond the types of constants: a query that sorts has looked at counts
(`resolver.py:173`); a name is a finite sequence of parts, and there are finitely
many static tools (`CatalogAssumption`); an argument may always be left out,
a `dry_run` be false, and there is an endpoint to rename by address (`CallAssumption`); an answer is an object with finitely many fields
(`IsAnswer`); and the ones named with the modules above.

**Only model-checked**: `EveryCallReturns`, `EveryToolReturns`, `EveryPassEnds` and
`EveryWalkEnds` (liveness needs ENABLED, which this prover does not have), and the
violation runs, which are counterexamples and not theorems.  Every safety property
that a run checks is a theorem.

## What is left

1. *A pass and the index together*: `Annotator` over `FunctionIndex`'s rows in
   place of `sure`, and that a pass implements an abstract log of writes.
2. The lists of comments and the hints in `ActionCall`.

**Not modelled**: the text of replies, descriptions and addresses (formatting);
`sanitize_name`, the parsing of the schema and of regions, `config` (pure
conversions without state); the ranking of a search; timeouts as numbers; which
directories hold sockets and how a process is probed on each operating system
(constants of `Instances`); the entry point, the stdio driver and the stock bridge.
