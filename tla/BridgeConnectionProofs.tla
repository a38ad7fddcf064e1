----------------------- MODULE BridgeConnectionProofs -----------------------
(***************************************************************************)
(* Proofs about BridgeConnection: however the connects are nested and      *)
(* interrupted, the tools offered are those of the catalog and the bridge  *)
(* is of one piece.                                                        *)
(***************************************************************************)
EXTENDS BridgeConnection, SequenceTheorems, TLAPS

(* The frames below the top of the stack.                                  *)
LEMMA OuterFacts ==
  ASSUME stack \in Seq(Frames), stack # <<>>
  PROVE  /\ Len(stack) \in Nat /\ Len(stack) > 0
         /\ Top \in Frames
         /\ Outer \in Seq(Frames)
         /\ Len(Outer) = Len(stack) - 1
         /\ \A k \in 1..Len(Outer) : Outer[k] = stack[k]
<1>1. Len(stack) \in Nat /\ Len(stack) > 0
  BY EmptySeq, LenProperties
<1>2. \A k \in 1..Len(stack) : stack[k] \in Frames
  BY ElementOfSeq
<1>3. Top \in Frames
  BY <1>1, <1>2 DEF Top
<1>4. \A k \in 1..(Len(stack) - 1) : stack[k] \in Frames
  BY <1>1, <1>2
<1> DEFINE n == Len(stack) - 1
<1>5. n \in Nat
  BY <1>1
<1>6. /\ SubSeq(stack, 1, n) \in Seq(Frames)
      /\ Len(SubSeq(stack, 1, n)) = n
      /\ \A k \in 1..n : SubSeq(stack, 1, n)[k] = stack[k]
  <2> HIDE DEF n
  <2>1. \A k \in 1..n : stack[k] \in Frames
    BY <1>4 DEF n
  <2> DEFINE s == SubSeq(stack, 1, n)
  <2>2. /\ s \in Seq(Frames)
        /\ Len(s) = IF 1 <= n THEN n - 1 + 1 ELSE 0
        /\ \A k \in 1..(n - 1 + 1) : s[k] = stack[1 + k - 1]
    BY <1>5, <2>1, SubSeqProperties
  <2> HIDE DEF s
  <2>3. s \in Seq(Frames) /\ Len(s) = n /\ \A k \in 1..n : s[k] = stack[k]
    BY <1>5, <2>2
  <2> QED
    BY <2>3 DEF s
<1>7. Outer = SubSeq(stack, 1, n)
  BY DEF Outer
<1> HIDE DEF n
<1>8. /\ Outer \in Seq(Frames)
      /\ Len(Outer) = n
      /\ \A k \in 1..Len(Outer) : Outer[k] = stack[k]
  BY <1>6, <1>7, Zenon
<1> QED
  BY <1>1, <1>3, <1>8 DEF n

(* How a step can change the stack.  Something is pushed on a waiting read *)
LEMMA PushFacts ==
  ASSUME stack \in Seq(Frames), NEW f \in Frames, stack' = Append(stack, f)
  PROVE  /\ stack' \in Seq(Frames)
         /\ Len(stack') = Len(stack) + 1
         /\ \A k \in 1..Len(stack) : stack'[k] = stack[k]
         /\ stack'[Len(stack')] = f
BY AppendProperties, LenProperties

(* or the top frame is replaced by its next step                           *)
LEMMA GotoFacts ==
  ASSUME stack \in Seq(Frames), stack # <<>>,
         NEW step \in {"blocks", "functions"}, Goto(step)
  PROVE  /\ stack' \in Seq(Frames)
         /\ Len(stack') = Len(stack)
         /\ \A k \in 1..(Len(stack) - 1) : stack'[k] = stack[k]
         /\ stack'[Len(stack)] = Frame(step, Top.url, Top.proj)
<1>1. Frame(step, Top.url, Top.proj) \in Frames
  BY OuterFacts DEF Frame, Frames
<1> QED
  BY <1>1, OuterFacts, AppendProperties DEF Goto

(* or it returns to the read below it.                                     *)
LEMMA ReturnFacts ==
  ASSUME stack \in Seq(Frames), stack # <<>>, NEW success \in BOOLEAN,
         ConnectReturns(success), Len(stack) # 1
  PROVE  /\ stack' \in Seq(Frames)
         /\ Len(stack') = Len(stack) - 1
         /\ Len(stack') > 0
         /\ \A k \in 1..(Len(stack) - 2) : stack'[k] = stack[k]
         /\ stack'[Len(stack')].step = stack[Len(stack')].step
         /\ stack'[Len(stack')].url = stack[Len(stack')].url
         /\ UNCHANGED <<caller, awaiting>>
<1>1. PICK t \in {"again", "failed"} :
        stack' = [Outer EXCEPT ![Len(Outer)].try = t] /\ UNCHANGED <<caller, awaiting>>
  BY DEF ConnectReturns
<1>2. Len(Outer) \in Nat /\ Len(Outer) > 0 /\ Len(Outer) = Len(stack) - 1
  BY OuterFacts
<1>3. Outer[Len(Outer)] \in Frames
  BY <1>2, OuterFacts, ElementOfSeq
<1> DEFINE e == [Outer[Len(Outer)] EXCEPT !.try = t]
<1>4. e \in Frames /\ e.step = Outer[Len(Outer)].step /\ e.url = Outer[Len(Outer)].url
  BY <1>3 DEF Frames
<1>5. stack' = [Outer EXCEPT ![Len(Outer)] = e]
  BY <1>1
<1>6. /\ stack' \in Seq(Frames)
      /\ Len(stack') = Len(Outer)
      /\ \A j \in 1..Len(Outer) : stack'[j] = IF j = Len(Outer) THEN e ELSE Outer[j]
  <2> HIDE DEF e
  <2> QED
    BY <1>2, <1>4, <1>5, OuterFacts, ExceptSeq
<1> HIDE DEF e
<1>7. \A k \in 1..(Len(stack) - 1) : Outer[k] = stack[k]
  BY OuterFacts
<1>8. stack'[Len(stack')] = e
  BY <1>2, <1>6
<1>9. \A k \in 1..(Len(stack) - 2) : stack'[k] = stack[k]
  <2> SUFFICES ASSUME NEW k \in 1..(Len(stack) - 2) PROVE stack'[k] = stack[k]
    OBVIOUS
  <2>1. k \in 1..Len(Outer) /\ k # Len(Outer) /\ k \in 1..(Len(stack) - 1)
    BY <1>2
  <2> QED
    BY <1>6, <1>7, <2>1
<1>10. Len(Outer) \in 1..(Len(stack) - 1) /\ Len(stack') = Len(Outer)
  BY <1>2, <1>6
<1>11. e.step = stack[Len(stack')].step /\ e.url = stack[Len(stack')].url
  BY <1>4, <1>7, <1>10
<1> QED
  BY <1>1, <1>2, <1>6, <1>8, <1>9, <1>11

-----------------------------------------------------------------------------
(* The tools offered are those of the catalog, in every state.             *)

(* A step keeps what the registry knows of the tools: only a schema that   *)
(* was understood changes them, and it changes both.                       *)
LEMMA StepRegistryInv == TypeOK /\ RegistryInv /\ [Next]_vars => RegistryInv'
<1> SUFFICES ASSUME TypeOK, RegistryInv, [Next]_vars PROVE RegistryInv'
  OBVIOUS
<1>1. CASE SchemaRead
  <2> DEFINE i == serving[Top.url]
  <2>1. i \in Instances /\ i # None
    BY <1>1, ConstantsAssumption DEF SchemaRead, ConstantsAssumption
  <2>2. catalog' = i /\ registered' = ToolsOf[i] /\ offered' = (offered \ registered) \union ToolsOf[i]
    BY <1>1 DEF SchemaRead, Register
  <2>3. catalog # None => ToolsOf[catalog] \intersect Static = {}
    BY ToolsAssumption DEF ToolsAssumption, TypeOK
  <2>4. offered \ registered = Static
    BY <2>3 DEF RegistryInv, ToolsFollowCatalog
  <2> QED
    BY <2>1, <2>2, <2>4 DEF RegistryInv, ToolsFollowCatalog
<1>2. CASE UNCHANGED toolVars
  BY <1>2 DEF toolVars, RegistryInv, ToolsFollowCatalog
<1>3. SchemaRead \/ UNCHANGED toolVars
  BY DEF Next, Bridge, User, Environment, vars, bridgeVars, AutoConnect, ConnectInstance, Connecting,
         SchemaGarbled, SchemaFails, ReadAnswered, ReadFails, ReadRaises, ReadReconnects, Reply,
         CallTool, ProgramChanged, Start, Stop
<1> QED
  BY <1>1, <1>2, <1>3

-----------------------------------------------------------------------------
(* Types and the stack.                                                    *)

(* A read takes its reply and goes on, or returns.                         *)
LEMMA TakeFacts ==
  ASSUME TypeOK, Reading, NEW i \in Instances \union {None}, Take(i)
  PROVE  /\ {blocks', funcs'} \subseteq Instances \union {None}
         /\ \/ Within("blocks") /\ Goto("functions") /\ UNCHANGED <<caller, awaiting>>
            \/ Within("functions") /\ ConnectReturns(TRUE)
            \/ Within("call") /\ ToolReturns(TRUE)
BY DEF Take, indexVars, TypeOK

(* Every step leaves the stack alone, starts a call, pushes a reconnect,   *)
(* goes on with the next step of a connect, or returns.                    *)
LEMMA StackSteps ==
  ASSUME TypeOK, StackInv, Next
  PROVE  \/ /\ UNCHANGED stack
            /\ UNCHANGED caller \/ (stack = <<>> /\ caller' = "none")
            /\ awaiting' \subseteq awaiting
         \/ /\ stack = <<>>
            /\ \E f \in Frames : stack' = <<f>> /\ f.step \in {"schema", "blocks", "call"}
                                 /\ (f.step = "schema" => f.url \in Urls)
                                 /\ (caller' = "connect_instance" => f.url \in Urls)
            /\ caller' \in Callers \ {"boot", "none"}
            /\ UNCHANGED awaiting
         \/ /\ Reading /\ Top.try = "first"
            /\ \E f \in Frames : stack' = Append(stack, f) /\ f.step = "schema" /\ f.url \in Urls
            /\ UNCHANGED <<caller, awaiting>>
         \/ /\ stack # <<>> /\ Top.step # "call"
            /\ \E step \in {"blocks", "functions"} : Goto(step)
            /\ UNCHANGED <<caller, awaiting>>
         \/ stack # <<>> /\ \E success \in BOOLEAN : ConnectReturns(success)
         \/ stack # <<>> /\ Within("call") /\ \E success \in BOOLEAN : ToolReturns(success)
<1> USE ConstantsAssumption DEF ConstantsAssumption
<1> DEFINE Started(f) ==
             /\ f \in Frames /\ stack = <<>> /\ stack' = <<f>>
             /\ f.step \in {"schema", "blocks", "call"}
             /\ (f.step = "schema" => f.url \in Urls)
             /\ (caller' = "connect_instance" => f.url \in Urls)
             /\ caller' \in Callers \ {"boot", "none"}
             /\ UNCHANGED awaiting
<1>1. ASSUME NEW why \in {"auto_connect", "connect_instance"}, NEW u \in Urls,
             NEW p \in Projects \union {None}, Connecting(why, u, p)
      PROVE  Started(Frame("schema", u, p))
  BY <1>1 DEF Connecting, Frame, Frames, Callers
<1>2. ASSUME NEW seen \in Sightings
      PROVE  /\ \A u \in Seen(seen) : u \in Urls /\ Title(seen[u]) \in Projects \union {None}
             /\ \A p \in Projects : \A u \in Matching(seen, p) :
                   u \in Urls /\ Title(seen[u]) \in Projects \union {None}
             /\ \A u \in Reconnectable(seen) : u \in Urls /\ Title(seen[u]) \in Projects \union {None}
  <2>1. \A u \in Scanned : u \in Urls /\ Title(seen[u]) \in Projects \union {None}
    BY DEF Sightings, Title
  <2>2. Seen(seen) \subseteq Scanned /\ \A p : Matching(seen, p) \subseteq Scanned
    BY DEF Seen, Matching
  <2>3. Reconnectable(seen) \subseteq Scanned
    BY <2>2 DEF Reconnectable
  <2> QED
    BY <2>1, <2>2, <2>3
<1>3. CASE AutoConnect
  BY <1>1, <1>2, <1>3 DEF AutoConnect, StackInv
<1>4. ASSUME NEW p \in Projects, ConnectInstance(p) PROVE \E f \in Frames : Started(f)
  BY <1>1, <1>2, <1>4 DEF ConnectInstance
<1>5. CASE SchemaRead
  BY <1>5 DEF SchemaRead, Within
<1>6. CASE SchemaGarbled \/ SchemaFails
  BY <1>6 DEF SchemaGarbled, SchemaFails, Within
<1>7. CASE ReadAnswered
  <2>1. Server \in Instances \union {None}
    BY DEF Server, TypeOK
  <2> QED
    BY <1>7, <2>1, TakeFacts DEF ReadAnswered, Within
<1>8. CASE ReadFails
  BY <1>8, TakeFacts DEF ReadFails, Within
<1>9. CASE ReadRaises
  BY <1>9 DEF ReadRaises, Within, Reading
<1>10. ASSUME NEW seen \in Sightings, ReadReconnects(seen)
       PROVE  /\ Reading /\ Top.try = "first"
              /\ \E f \in Frames : stack' = Append(stack, f) /\ f.step = "schema" /\ f.url \in Urls
              /\ UNCHANGED <<caller, awaiting>>
  BY <1>2, <1>10 DEF ReadReconnects, Frame, Frames
<1>11. CASE CallTool \/ ProgramChanged
  <2>1. Frame("call", None, None) \in Frames /\ Frame("blocks", None, None) \in Frames
    BY DEF Frame, Frames
  <2>2. Started(Frame("call", None, None)) \/ Started(Frame("blocks", None, None))
    BY <1>11, <2>1 DEF CallTool, ProgramChanged, Frame, Callers
  <2> QED
    BY <2>1, <2>2
<1>12. CASE (\E u \in Urls : Reply(u)) \/ Environment
  BY <1>12 DEF Reply, Environment, Start, Stop, bridgeVars, callVars
<1> QED
  BY <1>3, <1>4, <1>5, <1>6, <1>7, <1>8, <1>9, <1>10, <1>11, <1>12 DEF Next, Bridge, User

(* A step keeps the stack well formed.                                     *)
LEMMA StepStackInv ==
  TypeOK /\ StackInv /\ [Next]_vars =>
    /\ StackInv'
    /\ stack' \in Seq(Frames) /\ caller' \in Callers /\ awaiting' \subseteq Urls
<1> SUFFICES ASSUME TypeOK, StackInv, [Next]_vars
             PROVE  /\ StackInv'
                    /\ stack' \in Seq(Frames) /\ caller' \in Callers /\ awaiting' \subseteq Urls
  OBVIOUS
<1> USE DEF TypeOK
<1>1. CASE UNCHANGED vars
  BY <1>1 DEF vars, bridgeVars, callVars, StackInv
<1>2. CASE /\ UNCHANGED stack
           /\ UNCHANGED caller \/ (stack = <<>> /\ caller' = "none")
           /\ awaiting' \subseteq awaiting
  BY <1>2 DEF StackInv, Callers
<1>3. ASSUME NEW f \in Frames, stack = <<>>, stack' = <<f>>,
             f.step \in {"schema", "blocks", "call"}, f.step = "schema" => f.url \in Urls,
             caller' = "connect_instance" => f.url \in Urls,
             caller' \in Callers \ {"boot", "none"}, UNCHANGED awaiting
      PROVE  /\ StackInv'
             /\ stack' \in Seq(Frames) /\ caller' \in Callers /\ awaiting' \subseteq Urls
  <2>1. stack' \in Seq(Frames) /\ Len(stack') = 1 /\ stack'[1] = f
    BY <1>3
  <2> QED
    BY <1>3, <2>1 DEF StackInv
<1>4. ASSUME NEW f \in Frames, Reading, Top.try = "first", stack' = Append(stack, f),
             f.step = "schema", f.url \in Urls, UNCHANGED <<caller, awaiting>>
      PROVE  /\ StackInv'
             /\ stack' \in Seq(Frames) /\ caller' \in Callers /\ awaiting' \subseteq Urls
  <2>1. stack # <<>> /\ Top.step # "schema"
    BY <1>4 DEF Reading, Within
  <2>2. /\ Len(stack) \in Nat /\ Len(stack) > 0
        /\ stack' \in Seq(Frames)
        /\ Len(stack') = Len(stack) + 1
        /\ \A k \in 1..Len(stack) : stack'[k] = stack[k]
        /\ stack'[Len(stack')] = f
    BY <1>4, <2>1, OuterFacts, PushFacts
  <2>3. ASSUME NEW k \in 1..Len(stack')
        PROVE  /\ stack'[k].step = "schema" => stack'[k].url \in Urls /\ k = Len(stack')
               /\ k < Len(stack') => stack'[k].try = "first"
               /\ stack'[k].step = "call" => k = 1
    <3>1. CASE k = Len(stack')
      BY <1>4, <2>2, <3>1
    <3>2. CASE k \in 1..Len(stack)
      BY <1>4, <2>1, <2>2, <3>2 DEF StackInv, Top
    <3> QED
      BY <2>2, <3>1, <3>2
  <2>4. stack' # <<>> /\ stack'[1] = stack[1]
    BY <2>2
  <2> QED
    BY <1>4, <2>1, <2>2, <2>3, <2>4 DEF StackInv
<1>5. ASSUME stack # <<>>, Top.step # "call", NEW step \in {"blocks", "functions"}, Goto(step),
             UNCHANGED <<caller, awaiting>>
      PROVE  /\ StackInv'
             /\ stack' \in Seq(Frames) /\ caller' \in Callers /\ awaiting' \subseteq Urls
  <2>1. /\ Len(stack) \in Nat /\ Len(stack) > 0
        /\ stack' \in Seq(Frames)
        /\ Len(stack') = Len(stack)
        /\ \A k \in 1..(Len(stack) - 1) : stack'[k] = stack[k]
        /\ stack'[Len(stack)].step = step
        /\ stack'[Len(stack)].url = Top.url
    BY <1>5, OuterFacts, GotoFacts DEF Frame
  <2>2. ASSUME NEW k \in 1..Len(stack')
        PROVE  /\ stack'[k].step = "schema" => stack'[k].url \in Urls /\ k = Len(stack')
               /\ k < Len(stack') => stack'[k].try = "first"
               /\ stack'[k].step = "call" => k = 1
    BY <2>1 DEF StackInv
  <2>3. stack' # <<>> /\ stack'[1].url = stack[1].url
    BY <2>1 DEF Top
  <2> QED
    BY <1>5, <2>1, <2>2, <2>3 DEF StackInv
<1>6. ASSUME stack # <<>>, NEW success \in BOOLEAN, ToolReturns(success), Len(stack) = 1
      PROVE  /\ StackInv'
             /\ stack' \in Seq(Frames) /\ caller' \in Callers /\ awaiting' \subseteq Urls
  <2>1. stack' = <<>> /\ caller' = "none"
    BY <1>6 DEF ToolReturns
  <2>2. awaiting' \subseteq Urls
    BY <1>6 DEF ToolReturns, StackInv, Top
  <2> QED
    BY <2>1, <2>2 DEF StackInv, Callers
<1>7. ASSUME stack # <<>>, NEW success \in BOOLEAN, ConnectReturns(success), Len(stack) # 1
      PROVE  /\ StackInv'
             /\ stack' \in Seq(Frames) /\ caller' \in Callers /\ awaiting' \subseteq Urls
  <2>1. /\ Len(stack) \in Nat
        /\ stack' \in Seq(Frames)
        /\ Len(stack') = Len(stack) - 1
        /\ Len(stack') > 0
        /\ \A k \in 1..(Len(stack) - 2) : stack'[k] = stack[k]
        /\ stack'[Len(stack')].step = stack[Len(stack')].step
        /\ stack'[Len(stack')].url = stack[Len(stack')].url
        /\ UNCHANGED <<caller, awaiting>>
    BY <1>7, OuterFacts, ReturnFacts
  <2>2. ASSUME NEW k \in 1..Len(stack')
        PROVE  /\ stack'[k].step = "schema" => stack'[k].url \in Urls /\ k = Len(stack')
               /\ k < Len(stack') => stack'[k].try = "first"
               /\ stack'[k].step = "call" => k = 1
    BY <2>1 DEF StackInv
  <2>3. stack' # <<>> /\ stack'[1].url = stack[1].url
    BY <2>1
  <2> QED
    BY <2>1, <2>2, <2>3 DEF StackInv
<1>8. ASSUME stack # <<>>, NEW success \in BOOLEAN, ConnectReturns(success), Len(stack) = 1
      PROVE  ToolReturns(success)
  BY <1>8 DEF ConnectReturns
<1>9. Within("call") => Len(stack) = 1
  BY OuterFacts DEF Within, Top, StackInv
<1> QED
  BY <1>1, <1>2, <1>3, <1>4, <1>5, <1>6, <1>7, <1>8, <1>9, StackSteps

(* A step keeps the types.                                                 *)
LEMMA StepTypeOK == TypeOK /\ StackInv /\ [Next]_vars => TypeOK'
<1> SUFFICES ASSUME TypeOK, StackInv, [Next]_vars PROVE TypeOK'
  OBVIOUS
<1> USE ConstantsAssumption DEF ConstantsAssumption
<1> DEFINE Rest == /\ serving \in [Urls -> Instances \union {None}]
                   /\ client \in Urls \union {None}
                   /\ project \in Projects \union {None}
                   /\ catalog \in Instances \union {None}
                   /\ registered \subseteq UNION {ToolsOf[i] : i \in Instances}
                   /\ offered \subseteq Static \union UNION {ToolsOf[i] : i \in Instances}
                   /\ {blocks, funcs} \subseteq Instances \union {None}
                   /\ faults \in 0..MaxFaults
<1>1. Rest
  BY DEF TypeOK
<1>2. stack' \in Seq(Frames) /\ caller' \in Callers /\ awaiting' \subseteq Urls
  BY StepStackInv
<1>3. calm' \in BOOLEAN
  <2>1. calm \in BOOLEAN
    BY DEF TypeOK
  <2>2. ASSUME NEW u \in Urls, Changed(u) PROVE calm' \in BOOLEAN
    BY <2>2 DEF Changed
  <2>3. CASE SchemaRead
    BY <2>3 DEF SchemaRead
  <2> QED
    BY <2>1, <2>2, <2>3, Zenon
       DEF Next, Bridge, User, Environment, vars, AutoConnect, ConnectInstance, Connecting,
           SchemaGarbled, SchemaFails, ReadAnswered, ReadFails, ReadRaises, ReadReconnects, Reply,
           CallTool, ProgramChanged, Start, Stop
<1>4. Rest'
  <2>1. CASE UNCHANGED <<serving, client, project, catalog, registered, offered, blocks, funcs, faults>>
    BY <1>1, <2>1
  <2>2. CASE SchemaRead \/ SchemaGarbled
    <3>1. Top \in Frames /\ Top.url \in Urls /\ Top.proj \in Projects \union {None}
      <4>1. stack # <<>> /\ Top.step = "schema" /\ stack \in Seq(Frames)
        BY <2>2 DEF SchemaRead, SchemaGarbled, Within, TypeOK
      <4> QED
        BY <4>1, OuterFacts DEF StackInv, Top, Frames
    <3>2. CASE SchemaRead
      <4>1. serving[Top.url] \in Instances
        BY <3>2 DEF SchemaRead
      <4>2. /\ UNCHANGED <<serving, blocks, funcs, faults>>
            /\ client' = Top.url /\ project' = Top.proj /\ catalog' = serving[Top.url]
            /\ registered' = ToolsOf[serving[Top.url]]
            /\ offered' = (offered \ registered) \union ToolsOf[serving[Top.url]]
        BY <3>2 DEF SchemaRead, Register, indexVars
      <4> QED
        BY <1>1, <3>1, <4>1, <4>2
    <3>3. CASE SchemaGarbled
      BY <1>1, <3>1, <3>3 DEF SchemaGarbled, toolVars, indexVars
    <3> QED
      BY <2>2, <3>2, <3>3
  <2>3. CASE ReadAnswered \/ ReadFails
    <3>1. Server \in Instances \union {None}
      BY DEF Server, TypeOK
    <3>2. {blocks', funcs'} \subseteq Instances \union {None}
      BY <2>3, <3>1, TakeFacts DEF ReadAnswered, ReadFails
    <3> QED
      BY <1>1, <2>3, <3>2 DEF ReadAnswered, ReadFails, idVars, toolVars
  <2>4. ASSUME NEW seen \in Sightings, ReadReconnects(seen) PROVE Rest'
    BY <1>1, <2>4 DEF ReadReconnects, idVars, toolVars, indexVars
  <2>5. ASSUME NEW u \in Urls, Stop(u) \/ \E i \in Instances : Start(u, i) PROVE Rest'
    <3>1. UNCHANGED <<client, project, catalog, registered, offered, blocks, funcs>>
      BY <2>5 DEF Start, Stop, bridgeVars, idVars, toolVars, indexVars
    <3>2. serving' \in [Urls -> Instances \union {None}] /\ faults' \in 0..MaxFaults
      BY <1>1, <2>5 DEF Start, Stop
    <3> QED
      BY <1>1, <3>1, <3>2
  <2> HIDE DEF Rest
  <2> QED
    BY <2>1, <2>2, <2>3, <2>4, <2>5
       DEF Next, Bridge, User, Environment, vars, bridgeVars, idVars, toolVars, indexVars, AutoConnect,
           ConnectInstance, Connecting, SchemaFails, ReadRaises, Reply, CallTool, ProgramChanged
<1> QED
  BY <1>2, <1>3, <1>4 DEF TypeOK

-----------------------------------------------------------------------------
(* The bridge is of one piece.                                             *)

(* What is said of the innermost call survives a change above it, and what *)
(* holds when everything was read holds wherever the calls return to.      *)
LEMMA PieceSurvives ==
  ASSUME Piece, Innermost \in Nat, UNCHANGED <<client, project, catalog, blocks, funcs>>,
         serving'[client] = serving[client],
         \/ Innermost' = Innermost /\ (Innermost > 0 => stack'[Innermost].step = stack[Innermost].step)
         \/ blocks = catalog /\ funcs = catalog
  PROVE  Piece'
BY DEF Piece

(* A step keeps the bridge of one piece.                                   *)
LEMMA StepPieceInv == ConnectionInv /\ [Next]_vars => PieceInv'
<1> SUFFICES ASSUME ConnectionInv, [Next]_vars, calm' PROVE Piece'
  BY DEF PieceInv
<1> USE DEF ConnectionInv
<1>1. stack \in Seq(Frames)
  BY DEF TypeOK
<1>2. stack = <<>> => Innermost = 0
  BY DEF Innermost, Within
<1>3. stack # <<>> => Len(stack) \in Nat /\ Len(stack) > 0
  BY <1>1, OuterFacts
<1>0. Innermost \in Nat
  BY <1>1, <1>2, <1>3 DEF Innermost
<1>4. CASE SchemaRead
  <2>1. stack # <<>> /\ Top.step = "schema"
    BY <1>4 DEF SchemaRead, Within
  <2>2. Top \in Frames /\ Top.url \in Urls
    BY <1>1, <1>3, <2>1, OuterFacts DEF StackInv, Top
  <2>3. /\ Len(stack') = Len(stack)
        /\ stack'[Len(stack)].step = "blocks"
    BY <1>1, <1>4, <2>1, GotoFacts DEF SchemaRead, Frame
  <2>4. Innermost' = Len(stack) /\ Innermost' > 0
    BY <1>3, <2>1, <2>3 DEF Innermost, Within, Top
  <2>5. /\ client' = Top.url /\ project' = Top.proj /\ catalog' = serving[Top.url]
        /\ serving' = serving
        /\ catalog' \in Instances \ Strangers
        /\ Top.proj \in {None, ProjectOf[serving[Top.url]]}
    BY <1>4 DEF SchemaRead
  <2> QED
    BY <2>2, <2>3, <2>4, <2>5, ConstantsAssumption DEF Piece, ConstantsAssumption
<1>5. CASE Piece /\ UNCHANGED <<client, project, catalog, blocks, funcs, serving>>
             /\ SchemaFails
  <2>1. stack # <<>> /\ Top.step = "schema" /\ Innermost = Len(stack) - 1
    BY <1>5 DEF SchemaFails, Within, Innermost
  <2>2. ConnectReturns(FALSE)
    BY <1>5 DEF SchemaFails
  <2>3. CASE Len(stack) = 1
    <3>1. Innermost' = 0 /\ Innermost = 0
      BY <2>1, <2>2, <2>3 DEF ConnectReturns, ToolReturns, Innermost, Within
    <3> QED
      BY <1>5, <3>1, <1>0, PieceSurvives
  <2>4. CASE Len(stack) # 1
    <3>1. /\ Len(stack') = Len(stack) - 1
          /\ Len(stack') > 0
          /\ stack'[Len(stack')].step = stack[Len(stack')].step
      BY <1>1, <2>1, <2>2, <2>4, ReturnFacts
    <3>2. stack[Len(stack')].step # "schema"
      BY <1>3, <2>1, <2>4, <3>1 DEF StackInv
    <3>3. Innermost' = Innermost
      BY <2>1, <3>1, <3>2 DEF Innermost, Within, Top
    <3> QED
      BY <1>5, <2>1, <3>1, <3>3, <1>0, PieceSurvives
  <2> QED
    BY <2>3, <2>4
<1>6. CASE Piece /\ ReadAnswered
  <2>1. Server = catalog /\ catalog \in Instances \ Strangers
    BY <1>6 DEF Piece, Server
  <2>2. UNCHANGED <<client, project, catalog, serving>>
    BY <1>6 DEF ReadAnswered, idVars, toolVars
  <2>3. CASE Within("blocks") /\ blocks' = catalog /\ Goto("functions")
    <3>1. /\ Len(stack') = Len(stack)
          /\ stack'[Len(stack)].step = "functions"
      BY <1>1, <2>3, GotoFacts DEF Within, Frame
    <3>2. Innermost' = Len(stack) /\ Len(stack) > 0
      BY <1>3, <2>3, <3>1 DEF Innermost, Within, Top
    <3> QED
      BY <1>6, <2>2, <2>3, <3>1, <3>2 DEF Piece
  <2>4. CASE Within("functions") /\ funcs' = catalog /\ UNCHANGED blocks
    <3>1. Innermost = Len(stack) /\ Len(stack) > 0 /\ stack[Innermost].step = "functions"
      BY <1>3, <2>4 DEF Innermost, Within, Top
    <3>2. blocks' = catalog
      BY <1>6, <2>4, <3>1 DEF Piece
    <3> QED
      BY <1>6, <2>2, <2>4, <3>2 DEF Piece
  <2>5. CASE Within("call") /\ UNCHANGED indexVars
    <3>1. Innermost = Len(stack) /\ stack[Innermost].step = "call"
      BY <2>5 DEF Innermost, Within, Top
    <3>2. blocks = catalog /\ funcs = catalog
      BY <1>6, <3>1 DEF Piece
    <3> QED
      BY <1>6, <2>2, <2>5, <3>2, <1>0, PieceSurvives DEF indexVars
  <2> QED
    BY <1>6, <2>1, <2>3, <2>4, <2>5 DEF ReadAnswered, Take
<1>7. ASSUME Piece, NEW seen \in Sightings, ReadReconnects(seen) PROVE Piece'
  <2>1. stack # <<>> /\ Top.step # "schema"
    BY <1>7 DEF ReadReconnects, Reading, Within
  <2>2. PICK f \in Frames : stack' = Append(stack, f) /\ f.step = "schema"
    <3>1. Next
      BY <1>7 DEF Next, Bridge
    <3>2. \E u \in Urls, p \in Projects \union {None} : stack' = Append(stack, Frame("schema", u, p))
      <4>1. \A u \in Scanned : u \in Urls /\ Title(seen[u]) \in Projects \union {None}
        BY ConstantsAssumption DEF ConstantsAssumption, Sightings, Title
      <4>2. Reconnectable(seen) \subseteq Scanned
        BY DEF Reconnectable, Seen, Matching
      <4> QED
        BY <1>7, <4>1, <4>2 DEF ReadReconnects
    <3> QED
      BY <3>2 DEF Frame, Frames
  <2>3. /\ Len(stack') = Len(stack) + 1
        /\ \A k \in 1..Len(stack) : stack'[k] = stack[k]
        /\ stack'[Len(stack')] = f
    BY <1>1, <2>2, PushFacts
  <2>4. Innermost = Len(stack) /\ Innermost' = Len(stack)
    BY <1>3, <2>1, <2>2, <2>3 DEF Innermost, Within, Top
  <2>5. UNCHANGED <<client, project, catalog, blocks, funcs, serving>>
    BY <1>7 DEF ReadReconnects, idVars, toolVars, indexVars
  <2> QED
    BY <1>3, <1>7, <2>1, <2>3, <2>4, <2>5, <1>0, PieceSurvives
<1>8. CASE Piece /\ stack = <<>> /\ UNCHANGED <<client, project, catalog, blocks, funcs, serving>>
  <2>1. blocks = catalog /\ funcs = catalog
    BY <1>2, <1>8 DEF Piece
  <2> QED
    BY <1>8, <2>1, <1>0, PieceSurvives
<1>9. CASE Piece /\ UNCHANGED stack /\ UNCHANGED <<client, project, catalog, blocks, funcs>>
             /\ serving'[client] = serving[client]
  BY <1>9, <1>0, PieceSurvives DEF Innermost, Within, Top
<1>10. ASSUME Piece, NEW u \in Urls, Stop(u) \/ \E i \in Instances : Start(u, i) PROVE Piece'
  <2>1. calm /\ u # client
    BY <1>10 DEF Start, Stop, Changed
  <2>2. \E i : serving' = [serving EXCEPT ![u] = i]
    BY <1>10 DEF Start, Stop
  <2>3. serving'[client] = serving[client]
    <3>1. client \in Urls /\ serving \in [Urls -> Instances \union {None}]
      BY <1>10 DEF TypeOK, Piece
    <3> QED
      BY <2>1, <2>2, <3>1
  <2> QED
    BY <1>9, <1>10, <2>3 DEF Start, Stop, bridgeVars, idVars, toolVars, indexVars, callVars
<1>11. SchemaRead \/ Piece
  BY DEF Next, Bridge, User, Environment, vars, AutoConnect, ConnectInstance, Connecting,
         SchemaGarbled, SchemaFails, ReadAnswered, ReadFails, ReadRaises, ReadReconnects, Reply,
         CallTool, ProgramChanged, Start, Stop, Changed, PieceInv
<1>12. CASE UNCHANGED vars
  BY <1>4, <1>9, <1>11, <1>12 DEF vars, bridgeVars, idVars, toolVars, indexVars, callVars
<1>13. CASE AutoConnect \/ (\E p \in Projects : ConnectInstance(p)) \/ CallTool \/ ProgramChanged
            \/ (\E u \in Urls : Reply(u))
  BY <1>4, <1>8, <1>11, <1>13
     DEF AutoConnect, ConnectInstance, Connecting, CallTool, ProgramChanged, Reply, idVars, toolVars,
         indexVars, StackInv
<1>14. CASE SchemaFails
  BY <1>4, <1>5, <1>11, <1>14 DEF SchemaFails, idVars, toolVars, indexVars
<1>15. ~SchemaGarbled /\ ~ReadFails /\ ~ReadRaises
  BY DEF SchemaGarbled, ReadFails, ReadRaises
<1> QED
  BY <1>4, <1>6, <1>7, <1>10, <1>11, <1>12, <1>13, <1>14, <1>15 DEF Next, Bridge, User, Environment

-----------------------------------------------------------------------------
(* ConnectionInv holds in every state.                                     *)
THEOREM ConnectionInvHolds == Spec => []ConnectionInv
<1>1. Init => ConnectionInv
  <2> SUFFICES ASSUME Init PROVE ConnectionInv
    OBVIOUS
  <2>1. TypeOK
    <3>1. stack \in Seq(Frames) /\ 0 \in 0..MaxFaults
      BY ConstantsAssumption DEF ConstantsAssumption, Init
    <3>2. calm \in BOOLEAN
      BY DEF Init
    <3> QED
      BY <3>1, <3>2 DEF Init, TypeOK, Callers
  <2>2. StackInv /\ RegistryInv
    BY DEF Init, StackInv, RegistryInv, ToolsFollowCatalog
  <2>3. PieceInv
    BY DEF Init, PieceInv
  <2> QED
    BY <2>1, <2>2, <2>3 DEF ConnectionInv
<1>2. ConnectionInv /\ [Next]_vars => ConnectionInv'
  BY StepTypeOK, StepStackInv, StepRegistryInv, StepPieceInv DEF ConnectionInv
<1> QED
  BY <1>1, <1>2, PTL DEF Spec

(* Every variable keeps its type, the stack of nested calls among them.    *)
THEOREM TypeCorrect == Spec => []TypeOK
<1>1. ConnectionInv => TypeOK
  BY DEF ConnectionInv
<1> QED
  BY <1>1, ConnectionInvHolds, PTL

(* MCP clients are offered the tools of the connected catalog and the      *)
(* static ones, no others, also after a connect that failed half way.      *)
THEOREM ToolsAreOfCatalog == Spec => []ToolsFollowCatalog
<1>1. ConnectionInv => ToolsFollowCatalog
  BY DEF ConnectionInv, RegistryInv
<1> QED
  BY <1>1, ConnectionInvHolds, PTL

(* However deep the reconnects nest, the bridge ends up with the catalog   *)
(* and the index of the one instance it talks to.                          *)
THEOREM BridgeIsOfOnePiece == Spec => []OfOnePiece
<1>1. ConnectionInv => OfOnePiece
  <2> SUFFICES ASSUME ConnectionInv, stack = <<>>, calm
               PROVE  /\ {catalog, blocks, funcs} = {serving[client]}
                      /\ project \in {None, ProjectOf[catalog]}
    BY DEF OfOnePiece
  <2>1. Innermost = 0
    BY DEF Innermost, Within
  <2>2. Piece
    BY DEF ConnectionInv, PieceInv
  <2> QED
    BY <2>1, <2>2 DEF Piece
<1> QED
  BY <1>1, ConnectionInvHolds, PTL
=============================================================================
