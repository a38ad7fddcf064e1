------------------------- MODULE GhidraClientProofs -------------------------
(***************************************************************************)
(* Proofs about GhidraClient, for any set of calls, any split of it into   *)
(* writes, reads and probes, and any idle limits with ClientIdle below     *)
(* ServerIdle.  ClientInv is inductive; the safety properties and the step *)
(* simulation of RemoteCall follow from it.                                *)
(***************************************************************************)
EXTENDS GhidraClient, TLAPS

(* The initial state satisfies the inductive invariant.                    *)
LEMMA InitClientInv == Init => ClientInv
<1> SUFFICES ASSUME Init PROVE ClientInv
  OBVIOUS
<1>1. TypeOK
  BY IdleAssumption DEF IdleAssumption, Init, TypeOK, Outcomes
<1>2. ControlInv
  BY RequestsAssumption DEF RequestsAssumption, Init, ControlInv
<1>3. WireInv
  BY DEF Init, WireInv
<1>4. ASSUME NEW r \in Requests
      PROVE  outcome[r] = "none" /\ orphans[r] = 0 /\ executed[r] = 0
  BY DEF Init
<1>5. PostInv
  <2> SUFFICES ASSUME NEW r \in Post PROVE PostInv!(r)
    BY DEF PostInv
  <2> QED
    BY <1>4, RequestsAssumption DEF RequestsAssumption
<1>6. LoadInv
  <2> SUFFICES ASSUME NEW r \in Requests PROVE LoadInv!(r)
    BY DEF LoadInv
  <2>1. Copies(r) = 0
    BY <1>4 DEF Init, Copies
  <2>2. r # cur
    BY RequestsAssumption DEF RequestsAssumption, Init
  <2> QED
    BY <2>1, <2>2
<1> QED
  BY <1>1, <1>2, <1>3, <1>5, <1>6 DEF ClientInv

-----------------------------------------------------------------------------
(* A step keeps each conjunct of the invariant, given all of them.  Every  *)
(* variable keeps its type.                                                *)
LEMMA StepTypeOK == ClientInv /\ [Next]_vars => TypeOK'
<1> SUFFICES ASSUME ClientInv, [Next]_vars PROVE TypeOK'
  OBVIOUS
<1> USE RequestsAssumption, IdleAssumption DEF RequestsAssumption, IdleAssumption, TypeOK, Outcomes, ClientInv, ControlInv, WireInv,
        clientVars, linkVars, ghidraVars
<1> USE DEF TryAgain, NextAttempt, Return, RaiseOSError, MayReconnect, SendError, LinkInUse,
        CanRetry, Attempts, Resendable
<1>1. CASE UNCHANGED vars
  BY <1>1 DEF vars
<1>2. ASSUME NEW r \in Requests, Call(r) PROVE TypeOK'
  BY <1>2 DEF Call
<1>3. CASE SendDelivered
  BY <1>3 DEF SendDelivered
<1>4. CASE SendVanishes
  BY <1>4 DEF SendVanishes
<1>5. CASE SendFails
  BY <1>5 DEF SendFails
<1>6. CASE ReceiveReply
  BY <1>6 DEF ReceiveReply
<1>7. CASE ReceiveTorn
  BY <1>7 DEF ReceiveTorn
<1>8. CASE ReceiveFails
  BY <1>8 DEF ReceiveFails
<1>9. CASE ReconnectSucceeds
  BY <1>9 DEF ReconnectSucceeds
<1>10. CASE ReconnectFails
  BY <1>10 DEF ReconnectFails
<1>11. CASE Execute
  BY <1>11 DEF Execute
<1>12. ASSUME NEW r \in Requests, ExecuteOrphan(r) PROVE TypeOK'
  BY <1>12 DEF ExecuteOrphan
<1>13. CASE ExpireIdle
  BY <1>13 DEF ExpireIdle
<1>14. CASE Tick
  BY <1>14 DEF Tick
<1>15. CASE Crash
  BY <1>15 DEF Crash
<1>16. CASE Restart
  BY <1>16 DEF Restart
<1> QED
  BY <1>1, <1>2, <1>3, <1>4, <1>5, <1>6, <1>7, <1>8, <1>9, <1>10, <1>11, <1>12, <1>13,
     <1>14, <1>15, <1>16 DEF Next, Client, Environment

(* The call in progress and the loop counters stay where the loops can be. *)
LEMMA StepControlInv == ClientInv /\ [Next]_vars => ControlInv'
<1> SUFFICES ASSUME ClientInv, [Next]_vars PROVE ControlInv'
  OBVIOUS
<1> USE RequestsAssumption, IdleAssumption DEF RequestsAssumption, IdleAssumption, ClientInv,
        TypeOK, Outcomes, ControlInv, clientVars, linkVars, ghidraVars
<1> USE DEF TryAgain, NextAttempt, Return, RaiseOSError, MayReconnect, SendError, LinkInUse,
        CanRetry, Attempts, Resendable
<1>1. CASE UNCHANGED vars
  BY <1>1 DEF vars
<1>2. ASSUME NEW r \in Requests, Call(r) PROVE ControlInv'
  BY <1>2 DEF Call
<1>3. CASE SendDelivered
  BY <1>3 DEF SendDelivered
<1>4. CASE SendVanishes
  BY <1>4 DEF SendVanishes
<1>5. CASE SendFails
  BY <1>5 DEF SendFails
<1>6. CASE ReceiveReply
  BY <1>6 DEF ReceiveReply
<1>7. CASE ReceiveTorn
  BY <1>7 DEF ReceiveTorn
<1>8. CASE ReceiveFails
  BY <1>8 DEF ReceiveFails
<1>9. CASE ReconnectSucceeds
  BY <1>9 DEF ReconnectSucceeds
<1>10. CASE ReconnectFails
  BY <1>10 DEF ReconnectFails
<1>11. CASE Execute
  BY <1>11 DEF Execute
<1>12. ASSUME NEW r \in Requests, ExecuteOrphan(r) PROVE ControlInv'
  BY <1>12 DEF ExecuteOrphan
<1>13. CASE ExpireIdle
  BY <1>13 DEF ExpireIdle
<1>14. CASE Tick
  BY <1>14 DEF Tick
<1>15. CASE Crash
  BY <1>15 DEF Crash
<1>16. CASE Restart
  BY <1>16 DEF Restart
<1> QED
  BY <1>1, <1>2, <1>3, <1>4, <1>5, <1>6, <1>7, <1>8, <1>9, <1>10, <1>11, <1>12, <1>13,
     <1>14, <1>15, <1>16 DEF Next, Client, Environment

(* What is on the wire keeps to the state of the socket and of the plugin. *)
LEMMA StepWireInv == ClientInv /\ [Next]_vars => WireInv'
<1> SUFFICES ASSUME ClientInv, [Next]_vars PROVE WireInv'
  OBVIOUS
<1> USE RequestsAssumption, IdleAssumption DEF RequestsAssumption, IdleAssumption, ClientInv,
        TypeOK, Outcomes, ControlInv, WireInv, clientVars, linkVars, ghidraVars
<1> USE DEF TryAgain, NextAttempt, Return, RaiseOSError, MayReconnect, SendError, LinkInUse,
        CanRetry, Attempts, Resendable
<1>1. CASE UNCHANGED vars
  BY <1>1 DEF vars
<1>2. ASSUME NEW r \in Requests, Call(r) PROVE WireInv'
  BY <1>2 DEF Call
<1>3. CASE SendDelivered
  BY <1>3 DEF SendDelivered
<1>4. CASE SendVanishes
  BY <1>4 DEF SendVanishes
<1>5. CASE SendFails
  BY <1>5 DEF SendFails
<1>6. CASE ReceiveReply
  BY <1>6 DEF ReceiveReply
<1>7. CASE ReceiveTorn
  BY <1>7 DEF ReceiveTorn
<1>8. CASE ReceiveFails
  BY <1>8 DEF ReceiveFails
<1>9. CASE ReconnectSucceeds
  BY <1>9 DEF ReconnectSucceeds
<1>10. CASE ReconnectFails
  BY <1>10 DEF ReconnectFails
<1>11. CASE Execute
  BY <1>11 DEF Execute
<1>12. ASSUME NEW r \in Requests, ExecuteOrphan(r) PROVE WireInv'
  BY <1>12 DEF ExecuteOrphan
<1>13. CASE ExpireIdle
  BY <1>13 DEF ExpireIdle
<1>14. CASE Tick
  BY <1>14 DEF Tick
<1>15. CASE Crash
  BY <1>15 DEF Crash
<1>16. CASE Restart
  BY <1>16 DEF Restart
<1> QED
  BY <1>1, <1>2, <1>3, <1>4, <1>5, <1>6, <1>7, <1>8, <1>9, <1>10, <1>11, <1>12, <1>13,
     <1>14, <1>15, <1>16 DEF Next, Client, Environment

(* What the caller of a POST knows bounds the copies of it there can be.   *)
LEMMA StepPostInv == ClientInv /\ [Next]_vars => PostInv'
<1> SUFFICES ASSUME ClientInv, [Next]_vars PROVE PostInv'
  OBVIOUS
<1> USE RequestsAssumption, IdleAssumption DEF RequestsAssumption, IdleAssumption, ClientInv,
        TypeOK, Outcomes, ControlInv, WireInv, PostInv, clientVars, linkVars, ghidraVars
<1> USE DEF TryAgain, NextAttempt, Return, RaiseOSError, MayReconnect, SendError, LinkInUse,
        CanRetry, Attempts, Resendable
<1>1. CASE UNCHANGED vars
  BY <1>1 DEF vars
<1>2. ASSUME NEW r \in Requests, Call(r) PROVE PostInv'
  BY <1>2 DEF Call
<1>3. CASE SendDelivered
  BY <1>3 DEF SendDelivered
<1>4. CASE SendVanishes
  BY <1>4 DEF SendVanishes
<1>5. CASE SendFails
  BY <1>5 DEF SendFails
<1>6. CASE ReceiveReply
  BY <1>6 DEF ReceiveReply
<1>7. CASE ReceiveTorn
  BY <1>7 DEF ReceiveTorn
<1>8. CASE ReceiveFails
  BY <1>8 DEF ReceiveFails
<1>9. CASE ReconnectSucceeds
  BY <1>9 DEF ReconnectSucceeds
<1>10. CASE ReconnectFails
  BY <1>10 DEF ReconnectFails
<1>11. CASE Execute
  BY <1>11 DEF Execute
<1>12. ASSUME NEW r \in Requests, ExecuteOrphan(r) PROVE PostInv'
  BY <1>12 DEF ExecuteOrphan
<1>13. CASE ExpireIdle
  BY <1>13 DEF ExpireIdle
<1>14. CASE Tick
  BY <1>14 DEF Tick
<1>15. CASE Crash
  BY <1>15 DEF Crash
<1>16. CASE Restart
  BY <1>16 DEF Restart
<1> QED
  BY <1>1, <1>2, <1>3, <1>4, <1>5, <1>6, <1>7, <1>8, <1>9, <1>10, <1>11, <1>12, <1>13,
     <1>14, <1>15, <1>16 DEF Next, Client, Environment

(* Each pass of the loops adds at most one copy of the request.            *)
LEMMA StepLoadInv == ClientInv /\ [Next]_vars => LoadInv'
<1> SUFFICES ASSUME ClientInv, [Next]_vars PROVE LoadInv'
  OBVIOUS
<1> USE RequestsAssumption, IdleAssumption DEF RequestsAssumption, IdleAssumption, ClientInv,
        TypeOK, Outcomes, ControlInv, WireInv, PostInv, LoadInv, Copies, clientVars, linkVars, ghidraVars
<1> USE DEF TryAgain, NextAttempt, Return, RaiseOSError, MayReconnect, SendError, LinkInUse,
        CanRetry, Attempts, Resendable
<1>1. CASE UNCHANGED vars
  BY <1>1 DEF vars
<1>2. ASSUME NEW r \in Requests, Call(r) PROVE LoadInv'
  BY <1>2 DEF Call
<1>3. CASE SendDelivered
  BY <1>3 DEF SendDelivered
<1>4. CASE SendVanishes
  BY <1>4 DEF SendVanishes
<1>5. CASE SendFails
  BY <1>5 DEF SendFails
<1>6. CASE ReceiveReply
  BY <1>6 DEF ReceiveReply
<1>7. CASE ReceiveTorn
  BY <1>7 DEF ReceiveTorn
<1>8. CASE ReceiveFails
  BY <1>8 DEF ReceiveFails
<1>9. CASE ReconnectSucceeds
  BY <1>9 DEF ReconnectSucceeds
<1>10. CASE ReconnectFails
  BY <1>10 DEF ReconnectFails
<1>11. CASE Execute
  BY <1>11 DEF Execute
<1>12. ASSUME NEW r \in Requests, ExecuteOrphan(r) PROVE LoadInv'
  BY <1>12 DEF ExecuteOrphan
<1>13. CASE ExpireIdle
  BY <1>13 DEF ExpireIdle
<1>14. CASE Tick
  BY <1>14 DEF Tick
<1>15. CASE Crash
  BY <1>15 DEF Crash
<1>16. CASE Restart
  BY <1>16 DEF Restart
<1> QED
  BY <1>1, <1>2, <1>3, <1>4, <1>5, <1>6, <1>7, <1>8, <1>9, <1>10, <1>11, <1>12, <1>13,
     <1>14, <1>15, <1>16 DEF Next, Client, Environment

-----------------------------------------------------------------------------
(* ClientInv holds in every state: a reachable state has the right types,  *)
(* and the invariant that carries the safety properties is inductive.      *)
THEOREM ClientInvHolds == Spec => []ClientInv
<1>1. ClientInv /\ [Next]_vars => ClientInv'
  BY StepTypeOK, StepControlInv, StepWireInv, StepPostInv, StepLoadInv DEF ClientInv
<1> QED
  BY <1>1, InitClientInv, PTL DEF Spec

(* Every variable keeps its type.                                          *)
THEOREM TypeCorrect == Spec => []TypeOK
<1>1. ClientInv => TypeOK
  BY DEF ClientInv
<1> QED
  BY <1>1, ClientInvHolds, PTL

(* A write reaches the program at most once.                               *)
THEOREM WritesRunAtMostOnce == Spec => []WriteAtMostOnce
<1>1. ASSUME ClientInv PROVE WriteAtMostOnce
  <2> SUFFICES ASSUME NEW r \in Post PROVE Copies(r) <= 1
    BY DEF WriteAtMostOnce
  <2>1. r \in Requests /\ r # NoReq
    BY RequestsAssumption DEF RequestsAssumption
  <2>2. orphans[r] \in Nat /\ executed[r] \in Nat /\ outcome[r] \in Outcomes
    BY <1>1, <2>1 DEF ClientInv, TypeOK
  <2>3. outcome[r] # "none" => r # cur
    BY <1>1, <2>1 DEF ClientInv, ControlInv
  <2>4. PostInv!(r)
    BY <1>1 DEF ClientInv, PostInv
  <2> QED
    BY <2>2, <2>3, <2>4 DEF Outcomes, Copies
<1> QED
  BY <1>1, ClientInvHolds, PTL

(* What the caller is told of a write agrees with what happened to it: an  *)
(* answered write ran once, an unsent one never runs, and one that may run *)
(* late was reported as lost.                                              *)
THEOREM WriteReportsAreTrue == Spec => []ReportsAreTrue
<1>1. ASSUME ClientInv
      PROVE  ReportsAreTrue
  <2>1. ASSUME NEW r \in Post
        PROVE  /\ outcome[r] = "answered" => executed[r] = 1 /\ Copies(r) = 1
               /\ outcome[r] = "unsent" => Copies(r) = 0
               /\ orphans[r] > 0 => outcome[r] = "lost"
    <3>1. r \in Requests /\ r # NoReq
      BY RequestsAssumption DEF RequestsAssumption
    <3>2. orphans[r] \in Nat /\ executed[r] \in Nat /\ outcome[r] \in Outcomes
      BY <1>1, <3>1 DEF ClientInv, TypeOK
    <3>3. outcome[r] # "none" => r # cur
      BY <1>1, <3>1 DEF ClientInv, ControlInv
    <3>4. PostInv!(r)
      BY <1>1 DEF ClientInv, PostInv
    <3> QED
      BY <3>2, <3>3, <3>4 DEF Outcomes, Copies
  <2> QED
    BY <2>1 DEF ReportsAreTrue
<1> QED
  BY <1>1, ClientInvHolds, PTL

(* A request is never written to a socket the server dropped as idle.      *)
THEOREM NoStaleSocketIsUsed == Spec => []NoKeepAliveRace
<1>1. ClientInv => NoKeepAliveRace
  BY DEF ClientInv, WireInv, NoKeepAliveRace
<1> QED
  BY <1>1, ClientInvHolds, PTL

(* However the retries multiply, a call loads the plugin at most six times. *)
THEOREM LoadStaysBounded == Spec => []LoadIsBounded
<1>1. ClientInv => LoadIsBounded
  BY DEF ClientInv, LoadInv, LoadIsBounded
<1> QED
  BY <1>1, ClientInvHolds, PTL

-----------------------------------------------------------------------------
(* GhidraClient implements RemoteCall.  Initially no call was made.        *)
LEMMA InitSimulates == Init => RC!Init
  BY RequestsAssumption DEF RequestsAssumption, Init, RC!Init, StatusOf

(* A call that returns changes what its caller knows, and nothing else.    *)
LEMMA ReturnSimulates ==
  ASSUME ClientInv, NEW o \in Outcomes \ {"none"}, cur # NoReq, Return(o), UNCHANGED executed,
         o = "answered" => executed[cur] > 0,
         o = "unsent" => cur \in Post /\ executed[cur] = 0
  PROVE  RC!Next
<1> DEFINE st == [r \in Requests |-> StatusOf(r)]
<1>1. cur \in Requests /\ outcome[cur] = "none" /\ outcome \in [Requests -> Outcomes]
  BY DEF ClientInv, TypeOK, ControlInv
<1>2. PICK c \in Requests : c = cur
  BY <1>1
<1>3. StatusOf(c) = "open"
  BY <1>1, <1>2 DEF StatusOf
<1>4. \A r \in Requests : r # c => StatusOf(r)' = StatusOf(r)
  BY <1>1, <1>2, RequestsAssumption DEF RequestsAssumption, Return, StatusOf
<1>5. StatusOf(c)' = IF o \in {"lost", "raised"} THEN "failed" ELSE o
  <2>1. outcome'[c] = o
    BY <1>1, <1>2 DEF Return
  <2> QED
    BY <2>1 DEF StatusOf, Outcomes
<1>6. st' = [st EXCEPT ![c] = StatusOf(c)']
  BY <1>4
<1>7. RC!Answer(c) \/ RC!Fail(c) \/ RC!Unsent(c)
  BY <1>2, <1>3, <1>5, <1>6 DEF RC!Answer, RC!Fail, RC!Unsent, Outcomes
<1> QED
  BY <1>7 DEF RC!Next

(* A step that ends no call and runs no handler is invisible to callers.   *)
LEMMA NoReturnSimulates == UNCHANGED <<cur, outcome, executed>> => UNCHANGED RC!callVars
BY DEF RC!callVars, StatusOf

(* Every step is a step of RemoteCall, or one it does not see.             *)
LEMMA StepSimulates == ClientInv /\ [Next]_vars => [RC!Next]_RC!callVars
<1> SUFFICES ASSUME ClientInv, [Next]_vars PROVE RC!Next \/ UNCHANGED RC!callVars
  OBVIOUS
<1>1. CASE UNCHANGED vars
  BY <1>1, NoReturnSimulates DEF vars, clientVars, ghidraVars
<1>2. ASSUME NEW r \in Requests, Call(r) PROVE RC!Invoke(r)
  <2> DEFINE st == [q \in Requests |-> StatusOf(q)]
  <2>1. cur = NoReq /\ outcome[r] = "none" /\ UNCHANGED <<outcome, executed>> /\ cur' = r
    BY <1>2 DEF Call, ClientInv, ControlInv, ghidraVars
  <2>2. \A q \in Requests : StatusOf(q) # "open" /\ outcome[q] \in Outcomes
    BY <2>1, RequestsAssumption DEF RequestsAssumption, StatusOf, ClientInv, TypeOK, Outcomes
  <2>3. StatusOf(r) = "new" /\ StatusOf(r)' = "open"
    BY <2>1, RequestsAssumption DEF RequestsAssumption, StatusOf
  <2>4. \A q \in Requests : q # r => StatusOf(q)' = StatusOf(q)
    BY <2>1, RequestsAssumption DEF RequestsAssumption, StatusOf
  <2>5. st' = [st EXCEPT ![r] = "open"]
    BY <2>3, <2>4
  <2> QED
    BY <2>1, <2>2, <2>3, <2>5 DEF RC!Invoke
<1>3. CASE SendDelivered
  BY <1>3, NoReturnSimulates DEF SendDelivered
<1>4. CASE SendVanishes
  BY <1>4, NoReturnSimulates DEF SendVanishes, ghidraVars
<1>5. CASE SendFails
  <2>1. UNCHANGED executed /\ cur # NoReq
    BY <1>5 DEF SendFails, ghidraVars, ClientInv, ControlInv
  <2>2. CASE UNCHANGED <<cur, outcome>>
    BY <2>1, <2>2, NoReturnSimulates
  <2>3. CASE Return(SendError)
    <3>1. cur \in Post => executed[cur] = 0
      BY <1>5, RequestsAssumption DEF RequestsAssumption, SendFails, ClientInv, ControlInv, TypeOK, PostInv
    <3> QED
      BY <2>1, <2>3, <3>1, ReturnSimulates DEF SendError, Outcomes
  <2> QED
    BY <1>5, <2>2, <2>3 DEF SendFails, TryAgain, RaiseOSError
<1>6. CASE ReceiveReply
  <2>1. UNCHANGED executed /\ cur # NoReq /\ executed[cur] > 0
    BY <1>6 DEF ReceiveReply, ClientInv, ControlInv, WireInv
  <2>2. CASE UNCHANGED <<cur, outcome>>
    BY <2>1, <2>2, NoReturnSimulates
  <2>3. CASE Return("answered")
    BY <2>1, <2>3, ReturnSimulates DEF Outcomes
  <2> QED
    BY <1>6, <2>2, <2>3 DEF ReceiveReply, TryAgain
<1>7. CASE ReceiveTorn
  <2>1. UNCHANGED executed /\ cur # NoReq
    BY <1>7 DEF ReceiveTorn, ClientInv, ControlInv
  <2>2. CASE UNCHANGED <<cur, outcome>>
    BY <2>1, <2>2, NoReturnSimulates
  <2>3. CASE Return("lost") \/ Return("raised")
    BY <2>1, <2>3, ReturnSimulates DEF Outcomes
  <2> QED
    BY <1>7, <2>2, <2>3 DEF ReceiveTorn, TryAgain
<1>8. CASE ReceiveFails
  <2>1. UNCHANGED executed /\ cur # NoReq
    BY <1>8 DEF ReceiveFails, ClientInv, ControlInv
  <2>2. CASE UNCHANGED <<cur, outcome>>
    BY <2>1, <2>2, NoReturnSimulates
  <2>3. CASE Return("lost")
    BY <2>1, <2>3, ReturnSimulates DEF Outcomes
  <2> QED
    BY <1>8, <2>2, <2>3 DEF ReceiveFails, TryAgain, RaiseOSError
<1>9. CASE ReconnectSucceeds
  BY <1>9, NoReturnSimulates DEF ReconnectSucceeds, ghidraVars
<1>10. CASE ReconnectFails
  <2>1. UNCHANGED executed /\ cur # NoReq /\ Return("lost")
    BY <1>10 DEF ReconnectFails, ClientInv, ControlInv, ghidraVars
  <2> QED
    BY <2>1, ReturnSimulates DEF Outcomes
<1>11. CASE Execute
  <2>1. cur \in Requests /\ outcome[cur] = "none"
    BY <1>11 DEF Execute, ClientInv, TypeOK, ControlInv, WireInv
  <2>2. StatusOf(cur) = "open"
    BY <2>1 DEF StatusOf
  <2>3. cur \in Post => executed[cur] = 0
    BY <1>11, <2>1 DEF Execute, ClientInv, TypeOK, PostInv
  <2>4. UNCHANGED [r \in Requests |-> StatusOf(r)]
    BY <1>11 DEF Execute, clientVars, StatusOf
  <2>5. RC!Run(cur)
    BY <1>11, <2>1, <2>2, <2>3, <2>4 DEF Execute, RC!Run
  <2> QED
    BY <2>1, <2>5 DEF RC!Next
<1>12. ASSUME NEW r \in Requests, ExecuteOrphan(r) PROVE RC!Run(r)
  <2>1. orphans[r] > 0 /\ orphans[r] \in Nat /\ executed[r] \in Nat /\ outcome[r] \in Outcomes
    BY <1>12 DEF ExecuteOrphan, ClientInv, TypeOK
  <2>2. outcome[r] = "none" => r = cur
    <3>1. Copies(r) > 0
      BY <2>1 DEF Copies
    <3> QED
      BY <3>1 DEF ClientInv, LoadInv
  <2>3. r \in Post => outcome[r] = "lost" /\ executed[r] = 0
    BY <2>1 DEF ClientInv, PostInv, Outcomes
  <2>4. StatusOf(r) # "new" /\ (r \in Post => StatusOf(r) = "failed")
    BY <2>1, <2>2, <2>3 DEF StatusOf, Outcomes
  <2>5. UNCHANGED [q \in Requests |-> StatusOf(q)]
    BY <1>12 DEF ExecuteOrphan, clientVars, StatusOf
  <2> QED
    BY <1>12, <2>3, <2>4, <2>5 DEF ExecuteOrphan, RC!Run
<1>13. CASE ExpireIdle
  BY <1>13, NoReturnSimulates DEF ExpireIdle, clientVars, ghidraVars
<1>14. CASE Tick
  BY <1>14, NoReturnSimulates DEF Tick, clientVars, ghidraVars
<1>15. CASE Crash
  BY <1>15, NoReturnSimulates DEF Crash, clientVars
<1>16. CASE Restart
  BY <1>16, NoReturnSimulates DEF Restart, clientVars
<1> QED
  BY <1>1, <1>2, <1>3, <1>4, <1>5, <1>6, <1>7, <1>8, <1>9, <1>10, <1>11, <1>12, <1>13,
     <1>14, <1>15, <1>16 DEF Next, Client, Environment, RC!Next

(* To its callers the client is RemoteCall: retries, reconnections, lost   *)
(* replies and restarts show only as calls that failed.                    *)
THEOREM ClientImplementsRemoteCall == Spec => ImplementsRemoteCall
BY InitSimulates, StepSimulates, ClientInvHolds, PTL DEF Spec, RC!Spec, ImplementsRemoteCall
====
