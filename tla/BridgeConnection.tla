-------------------------- MODULE BridgeConnection --------------------------
(***************************************************************************)
(* How the bridge finds a Ghidra instance, points itself at it and finds   *)
(* it again: Bridge.connect, auto_connect, reconnect and connect_instance  *)
(* (src/library/bridge.py), with the scan of discovery.py, the catalog and *)
(* tools of catalog.py, sections.py and registry.py, and the loop of       *)
(* dispatcher._send that calls reconnect for a read.                       *)
(*                                                                         *)
(* The calls nest: connect reads the program, the read may lose its        *)
(* connection and reconnect, and that connects again.  The calls on the    *)
(* Python stack are modelled as a stack of frames.                         *)
(*                                                                         *)
(* Instances are external.  They start and stop, at any address, and an    *)
(* address in the range scanned may belong to a stranger: a server that    *)
(* answers any request with something that is not JSON.                    *)
(***************************************************************************)
EXTENDS Naturals, Sequences, FiniteSets

CONSTANTS
    Urls,        \* the addresses a server can listen at
    Scanned,     \* the ones the scanner probes
    ConfigUrl,   \* cfg.url
    Instances,   \* the servers that come and go
    Strangers,   \* the ones that are not Ghidra
    Homes,       \* the addresses each of them may listen at
    Projects,    \* project names
    ProjectOf,   \* the project each Ghidra has open
    Like,        \* <<p, q>> \in Like: p is a part of the name q
    Static,      \* the tools registered at start
    ToolsOf,     \* the section tools made of each instance's schema
    None,        \* no address, no instance, no project
    MaxFaults,   \* bound on crashes and lost replies
    MaxAwaiting  \* bound on connect_instance calls that wait to reply

ASSUME ConstantsAssumption ==
    /\ Scanned \subseteq Urls
    /\ ConfigUrl \in Urls
    /\ Strangers \subseteq Instances
    /\ ProjectOf \in [Instances -> Projects \union {None}]
    /\ \A i \in Strangers : ProjectOf[i] = None
    /\ Like \subseteq Projects \X Projects
    /\ None \notin Urls \union Instances \union Projects
    /\ "nameless" \notin Projects \union {None}
    /\ MaxFaults \in Nat
    /\ MaxAwaiting \in Nat

\* No section is named like a static tool: the SECTIONS table has none.
ASSUME ToolsAssumption == \A i \in Instances : ToolsOf[i] \intersect Static = {}

VARIABLES
    serving,     \* which instance listens at each address
    client,      \* bridge.client: the address it talks to
    project,     \* bridge.project: what reconnect looks for
    catalog,     \* bridge.catalog: the instance whose schema it was made of
    registered,  \* registry.registered: the tools to take back next time
    offered,     \* the tools the MCP server lists
    blocks,      \* resolver.blocks: the instance they were read from
    funcs,       \* resolver.entries, likewise
    stack,       \* the calls in progress, innermost last
    caller,      \* what called the outermost one
    awaiting,    \* connect_instance calls about to reply
    faults,      \* crashes and lost replies so far
    calm         \* ghost: nothing went wrong since the last schema was read

idVars    == <<client, project>>
toolVars  == <<catalog, registered, offered>>
indexVars == <<blocks, funcs>>
callVars  == <<stack, caller, awaiting>>
bridgeVars == <<idVars, toolVars, indexVars, callVars>>
vars      == <<serving, bridgeVars, faults, calm>>

\* A connect() in one of its steps, or the GET of an ordinary tool ("call").
\* `try` is the loop of _send around a GET: first, again, or its error reply.
Frames == [step : {"schema", "blocks", "functions", "call"},
           try : {"first", "again", "failed"},
           url : Urls \union {None}, proj : Projects \union {None}]

Callers == {"boot", "none", "auto_connect", "connect_instance", "tool"}

TypeOK ==
    /\ serving \in [Urls -> Instances \union {None}]
    /\ client \in Urls \union {None}
    /\ project \in Projects \union {None}
    /\ catalog \in Instances \union {None}
    /\ registered \subseteq UNION {ToolsOf[i] : i \in Instances}
    /\ offered \subseteq Static \union UNION {ToolsOf[i] : i \in Instances}
    /\ {blocks, funcs} \subseteq Instances \union {None}
    /\ stack \in Seq(Frames)
    /\ caller \in Callers
    /\ awaiting \subseteq Urls
    /\ faults \in 0..MaxFaults
    /\ calm \in BOOLEAN

Init ==
    /\ serving \in [Urls -> Instances \union {None}]
    /\ \A u \in Urls : serving[u] # None => u \in Homes[serving[u]]
    /\ \A u, v \in Urls : u # v /\ serving[u] = serving[v] => serving[u] = None
    /\ client = None /\ project = None
    /\ catalog = None /\ registered = {} /\ offered = Static
    /\ blocks = None /\ funcs = None
    /\ stack = <<>> /\ caller = "boot" /\ awaiting = {}
    /\ faults = 0
    /\ calm = FALSE

-----------------------------------------------------------------------------
(* The scan.                                                               *)

\* What a scan can see: an instance with its project; an open port that did
\* not say what it is; or nothing, where nothing listens or the probe timed out.
Sightings ==
    {seen \in [Scanned -> Projects \union {"nameless", None}] :
        \A u \in Scanned :
            /\ serving[u] = None => seen[u] = None
            /\ seen[u] \in Projects => serving[u] # None /\ ProjectOf[serving[u]] = seen[u]}

Seen(seen) == {u \in Scanned : seen[u] # None}

\* scanner.find: the exact name first, then one it is a part of.
Matching(seen, p) ==
    LET exact == {u \in Scanned : seen[u] = p}
    IN IF exact # {} THEN exact ELSE {u \in Scanned : <<p, seen[u]>> \in Like}

\* inst.get("project"), an empty name being as good as none.
Title(name) == IF name = "nameless" THEN None ELSE name

\* What reconnect settles for: the project it had, else the sole instance.
Reconnectable(seen) ==
    LET same == IF project = None THEN {} ELSE Matching(seen, project)
    IN IF same # {} THEN same
       ELSE {u \in Seen(seen) : Seen(seen) = {u}}

-----------------------------------------------------------------------------
(* The stack.  Operators marked "as if" are not part of the model: each is *)
(* a definition with a plausible bug put in.                               *)

Top    == stack[Len(stack)]
Outer  == SubSeq(stack, 1, Len(stack) - 1)
Within(step) == stack # <<>> /\ Top.step = step

Frame(step, u, p) == [step |-> step, try |-> "first", url |-> u, proj |-> p]

\* The top frame goes on with another step.
Goto(step) == stack' = Append(Outer, Frame(step, Top.url, Top.proj))

\* The outermost call is over; connect_instance notifies the client and then
\* replies.
ToolReturns(success) ==
    /\ stack' = <<>>
    /\ caller' = "none"
    /\ awaiting' = IF success /\ caller = "connect_instance"
                   THEN awaiting \union {Top.url} ELSE awaiting

\* as if a reconnection that failed was simply tried again
ConnectReturnsToFirst(success) ==
    \/ Len(stack) = 1 /\ ToolReturns(success)
    \/ /\ Len(stack) > 1
       /\ stack' = [Outer EXCEPT ![Len(Outer)].try = IF success THEN "again" ELSE "first"]
       /\ UNCHANGED <<caller, awaiting>>

\* connect() is over: the _send that wanted to reconnect goes on.
ConnectReturns(success) ==
    \/ Len(stack) = 1 /\ ToolReturns(success)
    \/ /\ Len(stack) > 1
       /\ stack' = [Outer EXCEPT ![Len(Outer)].try = IF success THEN "again" ELSE "failed"]
       /\ UNCHANGED <<caller, awaiting>>

-----------------------------------------------------------------------------
(* connect().                                                              *)

Connecting(why, u, p) ==
    /\ stack = <<>>
    /\ stack' = <<Frame("schema", u, p)>>
    /\ caller' = why
    /\ UNCHANGED <<serving, idVars, toolVars, indexVars, awaiting, faults, calm>>

\* At start: the sole instance, or the configured address if the scan cannot
\* see it.  With more instances the user has to choose.
AutoConnect ==
    /\ caller = "boot"
    /\ \E seen \in Sightings :
          \/ \E u \in Seen(seen) :
                Seen(seen) = {u} /\ Connecting("auto_connect", u, Title(seen[u]))
          \/ /\ Seen(seen) = {}
             /\ ConfigUrl \notin Scanned
             /\ Connecting("auto_connect", ConfigUrl, None)
          \/ /\ Seen(seen) = {} => ConfigUrl \in Scanned
             /\ \A u \in Seen(seen) : Seen(seen) # {u}
             /\ caller' = "none"
             /\ UNCHANGED <<serving, idVars, toolVars, indexVars, stack, awaiting, faults, calm>>

ConnectInstance(p) ==
    /\ caller = "none"
    /\ Cardinality(awaiting) < MaxAwaiting
    /\ \E seen \in Sightings : \E u \in Matching(seen, p) :
          Connecting("connect_instance", u, Title(seen[u]))

\* as if the tools of the last catalog were left in place
RegisterWithoutClear(i) ==
    /\ registered' = ToolsOf[i]
    /\ offered' = offered \union ToolsOf[i]

\* registry.register: clear(), then the tools of the catalog.
Register(i) ==
    /\ registered' = ToolsOf[i]
    /\ offered' = (offered \ registered) \union ToolsOf[i]

\* The schema came and was understood.  The instance may not be the one that
\* the scan saw at this address.
SchemaRead ==
    /\ Within("schema")
    /\ serving[Top.url] \in Instances \ Strangers
    /\ client' = Top.url
    /\ project' = Top.proj
    /\ catalog' = serving[Top.url]
    /\ Register(serving[Top.url])
    /\ calm' = (Top.proj \in {None, ProjectOf[serving[Top.url]]})
    /\ Goto("blocks")
    /\ UNCHANGED <<serving, indexVars, caller, awaiting, faults>>

\* Something came with status 200 that json.loads does not take: the client and
\* the project are replaced already, the catalog and the tools are not.
SchemaGarbled ==
    /\ Within("schema")
    /\ serving[Top.url] \in Strangers
    /\ client' = Top.url
    /\ project' = Top.proj
    /\ calm' = FALSE
    /\ ConnectReturns(FALSE)
    /\ UNCHANGED <<serving, toolVars, indexVars, faults>>

\* No answer, or a status that is not 200: nothing is replaced.
SchemaFails ==
    /\ Within("schema")
    /\ ConnectReturns(FALSE)
    /\ UNCHANGED <<serving, idVars, toolVars, indexVars, faults, calm>>

-----------------------------------------------------------------------------
(* The reads: of connect's _refresh_program_state, and of any tool.        *)

Reading == Within("blocks") \/ Within("functions") \/ Within("call")

\* as if connect's own reads stayed with the instance it was called for
ServerCaptured ==
    LET u == IF Top.url = None THEN client ELSE Top.url
    IN IF u = None THEN None ELSE serving[u]

\* Who answers: _send asks for bridge.client in every round.
Server == IF client = None THEN None ELSE serving[client]

\* refresh_blocks and refresh_functions make what they can of any reply: a
\* stranger's page or an error has no line they know.  The probe for the name
\* of the program comes last and changes nothing else.
Take(i) ==
    LET found == IF i \in Strangers THEN None ELSE i
    IN \/ Within("blocks") /\ blocks' = found /\ Goto("functions")
          /\ UNCHANGED <<funcs, caller, awaiting>>
       \/ Within("functions") /\ funcs' = found /\ ConnectReturns(TRUE)
          /\ UNCHANGED blocks
       \/ Within("call") /\ ToolReturns(TRUE) /\ UNCHANGED indexVars

ReadAnswered ==
    /\ Reading
    /\ Top.try # "failed"
    /\ Server # None
    /\ Take(Server)
    /\ UNCHANGED <<serving, idVars, toolVars, faults, calm>>

\* In its first round _send reconnects; the new connect() is called from here.
\* A loss counts as a fault, or there would be no bound on the stack.
ReadReconnects(seen) ==
    /\ Reading
    /\ Top.try = "first"
    /\ client # None
    /\ \/ Server = None /\ UNCHANGED faults
       \/ Server # None /\ faults < MaxFaults /\ faults' = faults + 1
    /\ \E u \in Reconnectable(seen) :
          stack' = Append(stack, Frame("schema", u, Title(seen[u])))
    /\ UNCHANGED <<serving, idVars, toolVars, indexVars, caller, awaiting, calm>>

\* The read ends in an error reply: a status that is not 200, or a lost
\* connection with nothing to reconnect to, in the second round, or after a
\* reconnection that failed; or the bridge was never connected.
ReadFails ==
    /\ Reading
    /\ Take(None)
    /\ calm' = FALSE
    /\ UNCHANGED <<serving, idVars, toolVars, faults>>

\* The reply broke off: _send lets the HTTPException through.  connect goes on
\* as _refresh_program_state swallows it, a tool does not.
ReadRaises ==
    /\ Reading
    /\ Top.try # "failed"
    /\ client # None
    /\ calm' = FALSE
    /\ \/ ~Within("call") /\ ConnectReturns(TRUE)
       \/ Within("call") /\ ToolReturns(FALSE)
    /\ UNCHANGED <<serving, idVars, toolVars, indexVars, faults>>

-----------------------------------------------------------------------------
(* The other tools, and the reply of connect_instance.                     *)

\* A tool that sends a GET.
CallTool ==
    /\ caller = "none" /\ stack = <<>>
    /\ stack' = <<Frame("call", None, None)>>
    /\ caller' = "tool"
    /\ UNCHANGED <<serving, idVars, toolVars, indexVars, awaiting, faults, calm>>

\* A program was switched, opened or closed: the hook reads it anew.
ProgramChanged ==
    /\ caller = "none" /\ stack = <<>> /\ client # None
    /\ stack' = <<Frame("blocks", None, None)>>
    /\ caller' = "tool"
    /\ UNCHANGED <<serving, idVars, toolVars, indexVars, awaiting, faults, calm>>

\* After the await of send_tool_list_changed: other calls may have come between.
Reply(u) ==
    /\ stack = <<>>
    /\ u \in awaiting
    /\ awaiting' = awaiting \ {u}
    /\ UNCHANGED <<serving, idVars, toolVars, indexVars, stack, caller, faults, calm>>

-----------------------------------------------------------------------------
(* The instances.                                                          *)

Changed(u) == calm' = (calm /\ u # client)

Start(u, i) ==
    /\ serving[u] = None
    /\ u \in Homes[i]
    /\ \A v \in Urls : serving[v] # i
    /\ serving' = [serving EXCEPT ![u] = i]
    /\ Changed(u)
    /\ UNCHANGED <<bridgeVars, faults>>

Stop(u) ==
    /\ serving[u] # None
    /\ faults < MaxFaults
    /\ faults' = faults + 1
    /\ serving' = [serving EXCEPT ![u] = None]
    /\ Changed(u)
    /\ UNCHANGED bridgeVars

-----------------------------------------------------------------------------

Bridge ==
    \/ AutoConnect
    \/ SchemaRead \/ SchemaGarbled \/ SchemaFails
    \/ ReadAnswered \/ ReadFails \/ ReadRaises
    \/ \E seen \in Sightings : ReadReconnects(seen)
    \/ \E u \in Urls : Reply(u)

User == CallTool \/ ProgramChanged \/ (\E p \in Projects : ConnectInstance(p))

Environment == \E u \in Urls : Stop(u) \/ (\E i \in Instances : Start(u, i))

Next == Bridge \/ User \/ Environment

Spec == Init /\ [][Next]_vars

\* The bridge's own thread goes on.  Of the instances and the network the only
\* thing assumed is that they fail no more than MaxFaults times.
FairSpec == Spec /\ WF_vars(Bridge)

-----------------------------------------------------------------------------
(* Properties.                                                             *)

(* Between calls, the bridge is of one piece, unless something went wrong  *)
(* since it read its schema: catalog, blocks and functions                 *)
(* are those of the instance it talks to, and its project is the one that  *)
(* reconnect should look for.  However the connects were nested.           *)
OfOnePiece ==
    stack = <<>> /\ calm =>
        /\ {catalog, blocks, funcs} = {serving[client]}
        /\ project \in {None, ProjectOf[catalog]}

(* What MCP clients can call is what the connected catalog provides, and   *)
(* the static tools: registry.register leaves nothing of the last catalog  *)
(* behind and a connect that fails leaves the tools as they were.          *)
ToolsFollowCatalog ==
    offered = Static \union (IF catalog = None THEN {} ELSE ToolsOf[catalog])

(* A read loads its own tool with a bounded number of nested connects, so  *)
(* every tool call returns.                                                *)
EveryToolReturns == stack # <<>> ~> stack = <<>>

-----------------------------------------------------------------------------
(* The inductive invariant behind the safety properties.                   *)

\* A call that reconnects waits in the first round of a read.
StackInv ==
    /\ \A k \in 1..Len(stack) :
          /\ stack[k].step = "schema" => stack[k].url \in Urls /\ k = Len(stack)
          /\ k < Len(stack) => stack[k].try = "first"
          /\ stack[k].step = "call" => k = 1
    /\ stack # <<>> /\ caller = "connect_instance" => stack[1].url \in Urls
    /\ stack # <<>> => caller \notin {"boot", "none"}

\* The registry knows which of the tools are its own.
RegistryInv ==
    /\ registered = IF catalog = None THEN {} ELSE ToolsOf[catalog]
    /\ ToolsFollowCatalog

\* The innermost call that has a client: not one that still fetches a schema.
Innermost == IF Within("schema") THEN Len(stack) - 1 ELSE Len(stack)

\* How much of the index is of the connected instance, by how far that call is.
Piece ==
    /\ client # None
    /\ catalog \in Instances \ Strangers
    /\ serving[client] = catalog
    /\ project \in {None, ProjectOf[catalog]}
    /\ Innermost > 0 /\ stack[Innermost].step = "functions" => blocks = catalog
    /\ Innermost = 0 \/ stack[Innermost].step = "call" => blocks = catalog /\ funcs = catalog

PieceInv == calm => Piece

ConnectionInv == TypeOK /\ StackInv /\ RegistryInv /\ PieceInv
=============================================================================
