--------------------------- MODULE InstancesProofs --------------------------
(***************************************************************************)
(* Proofs about Instances, for any processes, sockets and paths, any       *)
(* number of changes and of polls.  InstancesInv is inductive: a probe     *)
(* takes what it probes off the list, so a record is the only one of its   *)
(* process and transport, and Known then decides about the other.          *)
(***************************************************************************)
EXTENDS Instances, TLAPS

(* What a probe makes of an answer, or of none, is a record.               *)
LEMMA ProbesAreRecords ==
  ASSUME TypeOK, NEW p \in Procs, NEW via \in {"uds", "tcp"}, NEW at \in Everywhere \union Procs
  PROVE  Unanswered(p, via, at) \in Records /\ Answered(p, via, at) \in Records
BY DEF TypeOK, Unanswered, Answered, Records

(* The types hold after a step of a Ghidra or its user.                    *)
LEMMA WorldType == TypeOK /\ World => TypeOK'
<1> SUFFICES ASSUME TypeOK, NEW p \in Procs,
                    Start(p) \/ Stop(p) \/ Analyzed(p) \/ \E prog \in Programs : OpenProgram(p, prog)
             PROVE  TypeOK'
  BY DEF World
<1> USE ProcsAssumption DEF ProcsAssumption
<1>1. CASE Start(p)
  BY <1>1 DEF Start, Changes, TypeOK, followVars
<1>2. CASE Stop(p)
  BY <1>2 DEF Stop, Changes, TypeOK, followVars
<1>3. CASE Analyzed(p)
  <2>1. follow' = None \/ follow' \in [at : Procs, polls : 0 .. MaxPolls, over : BOOLEAN]
    BY <1>3 DEF Analyzed, TypeOK
  <2> QED
    BY <1>3, <2>1 DEF Analyzed, TypeOK, scanVars
<1>4. ASSUME NEW prog \in Programs, OpenProgram(p, prog) PROVE TypeOK'
  <2>1. opened' \in [Procs -> SUBSET Programs] /\ moved' \in BOOLEAN
    BY <1>4 DEF OpenProgram, TypeOK
  <2> QED
    BY <1>4, <2>1 DEF OpenProgram, Changes, TypeOK
<1> QED
  BY <1>1, <1>2, <1>3, <1>4

(* The types hold after a step of a scan.                                  *)
LEMMA ScanType == TypeOK /\ (Scan \/ Scanning) => TypeOK'
<1> SUFFICES ASSUME TypeOK, Scan \/ Scanning PROVE TypeOK'
  OBVIOUS
<1> USE ProcsAssumption DEF ProcsAssumption, worldVars, scanVars, followVars
<1>1. CASE Scan
  BY <1>1 DEF Scan, TypeOK
<1>2. CASE ListSockets
  <2>1. PICK kept \in SUBSET files : files' = kept /\ todo' = OnePath(kept)
    BY <1>2 DEF ListSockets
  <2>2. todo' \subseteq Everywhere
    BY <2>1 DEF OnePath, Everywhere, TypeOK
  <2> QED
    BY <1>2, <2>1, <2>2 DEF ListSockets, TypeOK
<1>3. CASE KnockPorts
  BY <1>3 DEF KnockPorts, TypeOK
<1>4. CASE Scanned
  BY <1>4 DEF Scanned, TypeOK
<1>5. ASSUME NEW p \in Procs, Knock(p) PROVE TypeOK'
  <2>1. Unanswered(p, "tcp", p) \in Records /\ Answered(p, "tcp", p) \in Records
    BY ProbesAreRecords
  <2>2. found' \subseteq Records /\ answered' \subseteq Procs
    BY <1>5, <2>1 DEF Knock, TypeOK
  <2> QED
    BY <1>5, <2>2 DEF Knock, TypeOK
<1>6. ASSUME NEW p \in Procs, NEW path \in Paths[p], ProbeSocket(p, path) PROVE TypeOK'
  <2>1. path \in Everywhere
    BY DEF Everywhere
  <2>2. Unanswered(p, "uds", path) \in Records /\ Answered(p, "uds", path) \in Records
    BY <2>1, ProbesAreRecords
  <2>3. found' \subseteq Records /\ answered' \subseteq Procs
    BY <1>6, <2>2 DEF ProbeSocket, Silent, TypeOK
  <2> QED
    BY <1>6, <2>3 DEF ProbeSocket, TypeOK
<1> QED
  BY <1>1, <1>2, <1>3, <1>4, <1>5, <1>6 DEF Scanning

(* The types hold after a connect and after a step of an import.           *)
LEMMA FollowType ==
  TypeOK /\ ((\E r \in found : Connect(r)) \/ Import \/ Poller) => TypeOK'
<1> SUFFICES ASSUME TypeOK, (\E r \in found : Connect(r)) \/ Import \/ Poller PROVE TypeOK'
  OBVIOUS
<1> USE ProcsAssumption DEF ProcsAssumption, worldVars, scanVars, followVars, ScanForgotten
<1>1. ASSUME NEW r \in found, Connect(r) PROVE TypeOK'
  <2>1. r \in Records
    BY DEF TypeOK
  <2>2. client' \in [of : Procs, via : {"uds", "tcp"}, at : Everywhere \union Procs] /\ moved' \in BOOLEAN
    BY <1>1, <2>1 DEF Connect, Records, TypeOK
  <2> QED
    BY <1>1, <2>2 DEF Connect, TypeOK
<1>2. CASE Import
  <2>1. client.of \in Procs /\ client.of \in up
    BY <1>2 DEF Import, Connected, TypeOK
  <2>2. opened' \in [Procs -> SUBSET Programs] /\ analyzing' \subseteq up
    BY <1>2, <2>1 DEF Import, TypeOK
  <2>3. follow' \in [at : Procs, polls : 0 .. MaxPolls, over : BOOLEAN]
    BY <1>2, <2>1 DEF Import
  <2> QED
    BY <1>2, <2>2, <2>3 DEF Import, TypeOK
<1>3. CASE PollAgain
  <2>1. follow \in [at : Procs, polls : 0 .. MaxPolls, over : BOOLEAN] /\ follow.polls > 0
    BY <1>3 DEF PollAgain, PollsRemain, TypeOK
  <2>2. follow.polls - 1 \in 0 .. MaxPolls
    BY <2>1
  <2>3. follow' \in [at : Procs, polls : 0 .. MaxPolls, over : BOOLEAN]
    BY <1>3, <2>1, <2>2 DEF PollAgain
  <2> QED
    BY <1>3, <2>3 DEF PollAgain, TypeOK
<1>4. CASE Notify
  BY <1>4 DEF Notify, TypeOK
<1>5. CASE GiveUp
  BY <1>5 DEF GiveUp, TypeOK
<1> QED
  BY <1>1, <1>2, <1>3, <1>4, <1>5 DEF Poller

-----------------------------------------------------------------------------
(* The records of a scan.                                                  *)

RecordsInv == TodoInv /\ RecordInv /\ OneOverEach /\ OnePerProcess

(* A new list of records is empty, or the old one, or the old one with a   *)
(* record over uds for what was on the list of sockets.                    *)
LEMMA SocketIsProbedOnce ==
  ASSUME InstancesInv, NEW p \in Procs, NEW path \in Paths[p], ProbeSocket(p, path)
  PROVE  RecordsInv'
<1> USE ProcsAssumption DEF ProcsAssumption
<1>1. pc = "probe" /\ pc' = "probe" /\ path \in todo /\ todo' = todo \ {path}
  BY DEF ProbeSocket, Foremost
<1>2. PICK q \in Sockets : path = First[q]
  BY <1>1 DEF InstancesInv, TodoInv
<1>3. q = p /\ p \in Sockets
  BY <1>2
<1>4. PICK new \in {Unanswered(p, "uds", path), Answered(p, "uds", path)} : found' = found \union {new}
  BY DEF ProbeSocket, Silent
<1>5. /\ new.of = p /\ new.via = "uds" /\ new.at = First[p] /\ new.pid = Pid[p]
      /\ new.project \in {NoProject, Project[p]}
  BY <1>2, <1>3 DEF Unanswered, Answered
<1>6. \A r \in found : r.via = "uds" /\ r.at = First[r.of] /\ r.at # path
  <2>1. \A r \in found : r.via # "tcp" /\ r.at \notin todo /\ r \in Records
    BY <1>1 DEF InstancesInv, TodoInv, TypeOK
  <2> QED
    BY <1>1, <2>1 DEF InstancesInv, RecordInv, Records
<1>7. \A r \in found : r.of # p
  BY <1>2, <1>3, <1>6
<1>8. TodoInv' /\ RecordInv'
  BY <1>1, <1>2, <1>3, <1>4, <1>5, <1>6 DEF InstancesInv, TodoInv, RecordInv
<1>9. OneOverEach' /\ OnePerProcess'
  BY <1>4, <1>5, <1>7 DEF InstancesInv, OneOverEach, OnePerProcess
<1> QED
  BY <1>8, <1>9 DEF RecordsInv

(* A port that is knocked at gives a record only if no socket has its      *)
(* process already.                                                        *)
LEMMA PortIsKnownOrNew ==
  ASSUME InstancesInv, NEW p \in Procs, Knock(p)
  PROVE  RecordsInv'
<1> USE ProcsAssumption DEF ProcsAssumption
<1>1. pc = "knock" /\ pc' = "knock" /\ p \in todo /\ todo' = todo \ {p}
  BY DEF Knock, Foremost
<1>2. PICK new \in {Unanswered(p, "tcp", p), Answered(p, "tcp", p)} :
        found' = IF Known(new) THEN found ELSE found \union {new}
  <2>1. PICK r \in {Unanswered(p, "tcp", p)} \union (IF p \in up THEN {Answered(p, "tcp", p)} ELSE {}) :
          found' = IF Known(r) THEN found ELSE found \union {r}
    BY Zenon DEF Knock
  <2>2. r \in {Unanswered(p, "tcp", p), Answered(p, "tcp", p)}
    OBVIOUS
  <2> QED
    BY <2>1, <2>2
<1>3. CASE found' = found
  BY <1>1, <1>3 DEF RecordsInv, InstancesInv, TodoInv, RecordInv, OneOverEach, OnePerProcess
<1>4. CASE found' = found \union {new} /\ ~Known(new)
  <2>1. /\ new.of = p /\ new.via = "tcp" /\ new.at = p
        /\ new.project \in {NoProject, Project[p]}
    BY DEF Unanswered, Answered
  <2>2. \A r \in found : r.via = "tcp" => r.at = r.of /\ r.at # p
    BY <1>1 DEF InstancesInv, TodoInv, RecordInv
  <2>3. \A r \in found : r.of = p => r.via = "uds"
    BY <2>2 DEF InstancesInv, TypeOK, Records
  <2>4. ASSUME NEW r \in found, r.of = p
        PROVE  \/ NoProject \in {r.project, new.project}
               \/ p \notin Tells /\ r.programs # new.programs
    <3>1. r \in OverUds /\ r.pid = Pid[p] /\ r.project \in {NoProject, Project[p]}
      BY <2>3, <2>4 DEF OverUds, InstancesInv, RecordInv
    <3>2. CASE new = Unanswered(p, "tcp", p)
      BY <3>2 DEF Unanswered
    <3>3. CASE new = Answered(p, "tcp", p)
      <4>1. new.project = Project[p] /\ new.pid = IF p \in Tells THEN Pid[p] ELSE NoPid
        BY <3>3 DEF Answered
      <4> QED
        BY <1>4, <3>1, <4>1 DEF Known
    <3> QED
      BY <3>2, <3>3
  <2>5. TodoInv' /\ RecordInv'
    BY <1>1, <1>4, <2>1, <2>2 DEF InstancesInv, TodoInv, RecordInv
  <2>6. OneOverEach'
    BY <1>4, <2>1, <2>3 DEF InstancesInv, OneOverEach
  <2>7. OnePerProcess'
    BY <1>4, <2>1, <2>4 DEF InstancesInv, OnePerProcess
  <2> QED
    BY <2>5, <2>6, <2>7 DEF RecordsInv
<1> QED
  BY <1>2, <1>3, <1>4

LEMMA RecordsStep == InstancesInv /\ [Next]_vars => RecordsInv'
<1> SUFFICES ASSUME InstancesInv, [Next]_vars PROVE RecordsInv'
  OBVIOUS
<1>a. RecordsInv
  BY DEF InstancesInv, RecordsInv
<1>b. UNCHANGED <<pc, todo, found>> => RecordsInv'
  BY <1>a DEF RecordsInv, TodoInv, RecordInv, OneOverEach, OnePerProcess
<1>c. found' = {} /\ pc' \in {"idle", "sockets"} => RecordsInv'
  BY DEF RecordsInv, TodoInv, RecordInv, OneOverEach, OnePerProcess
<1> USE DEF scanVars, ScanForgotten
<1>1. CASE World
  BY <1>1, <1>b DEF World, Start, Stop, Analyzed, OpenProgram, Changes
<1>2. CASE Scan
  BY <1>2, <1>c DEF Scan
<1>3. CASE ListSockets
  <2>1. PICK kept \in SUBSET files : todo' = OnePath(kept)
    BY <1>3 DEF ListSockets
  <2>2. todo' \subseteq {First[p] : p \in Sockets}
    BY <2>1 DEF OnePath, InstancesInv, TypeOK
  <2>3. found' = {} /\ pc' = "probe"
    BY <1>3 DEF ListSockets, InstancesInv, TodoInv
  <2> QED
    BY <2>2, <2>3 DEF RecordsInv, TodoInv, RecordInv, OneOverEach, OnePerProcess
<1>4. CASE KnockPorts
  <2>1. todo' \subseteq Procs /\ UNCHANGED found /\ pc = "probe" /\ pc' = "knock"
    BY <1>4 DEF KnockPorts, InstancesInv, TypeOK
  <2>2. \A r \in found : r.via # "tcp"
    BY <2>1 DEF InstancesInv, TodoInv
  <2> QED
    BY <1>a, <2>1, <2>2 DEF RecordsInv, TodoInv, RecordInv, OneOverEach, OnePerProcess
<1>5. CASE Scanned
  BY <1>5, <1>a DEF Scanned, RecordsInv, TodoInv, RecordInv, OneOverEach, OnePerProcess
<1>6. ASSUME NEW p \in Procs, Knock(p) PROVE RecordsInv'
  BY <1>6, PortIsKnownOrNew
<1>7. ASSUME NEW p \in Procs, NEW path \in Paths[p], ProbeSocket(p, path) PROVE RecordsInv'
  BY <1>7, SocketIsProbedOnce
<1>8. ASSUME NEW r \in found, Connect(r) PROVE RecordsInv'
  BY <1>8, <1>c DEF Connect
<1>9. CASE Import
  BY <1>9, <1>c DEF Import
<1>10. CASE Poller
  BY <1>10, <1>b DEF Poller, PollAgain, Notify, GiveUp
<1>11. CASE UNCHANGED vars
  BY <1>11, <1>b DEF vars
<1> QED
  BY <1>1, <1>2, <1>3, <1>4, <1>5, <1>6, <1>7, <1>8, <1>9, <1>10, <1>11 DEF Next, Scanning

-----------------------------------------------------------------------------
(* The poller.                                                             *)

LEMMA FollowStep == InstancesInv /\ [Next]_vars => FollowInv'
<1> SUFFICES ASSUME InstancesInv, [Next]_vars PROVE FollowInv'
  OBVIOUS
<1> USE ProcsAssumption DEF ProcsAssumption
<1>a. FollowInv /\ TypeOK
  BY DEF InstancesInv
<1>b. UNCHANGED <<up, opened, analyzing, client, follow, moved>> => FollowInv'
  BY <1>a DEF FollowInv
<1>1. ASSUME NEW p \in Procs, Start(p) PROVE FollowInv'
  <2>1. UNCHANGED <<analyzing, client, follow, moved>>
    BY <1>1 DEF Start, Changes
  <2>2. up' = up \union {p} /\ opened' = [opened EXCEPT ![p] = {}]
    BY <1>1 DEF Start
  <2> QED
    BY <1>a, <2>1, <2>2 DEF FollowInv, TypeOK
<1>2. ASSUME NEW p \in Procs, Stop(p) PROVE FollowInv'
  BY <1>2, <1>a DEF Stop, Changes, FollowInv
<1>3. ASSUME NEW p \in Procs, Analyzed(p) PROVE FollowInv'
  <2>1. CASE follow # None /\ follow.at = p
    BY <1>3, <1>a, <2>1 DEF Analyzed, FollowInv, TypeOK
  <2>2. CASE ~(follow # None /\ follow.at = p)
    BY <1>3, <1>a, <2>2 DEF Analyzed, FollowInv
  <2> QED
    BY <2>1, <2>2
<1>4. ASSUME NEW p \in Procs, NEW prog \in Programs, OpenProgram(p, prog) PROVE FollowInv'
  <2>1. /\ UNCHANGED <<up, analyzing, client, follow>>
        /\ opened' = [opened EXCEPT ![p] = @ \union {prog}]
        /\ moved' = (moved \/ (follow # None /\ p = follow.at /\ prog = Imported))
    BY <1>4 DEF OpenProgram, Changes
  <2> SUFFICES ASSUME follow # None, ~moved' PROVE FollowInv'
    BY <2>1 DEF FollowInv
  <2>2. ~moved /\ ~(p = follow.at /\ prog = Imported)
    BY <2>1
  <2>3. client.of = follow.at /\ (~follow.over => follow.at \in analyzing \/ follow.at \notin up \/ Imported \notin opened[follow.at])
    BY <1>a, <2>2 DEF FollowInv
  <2>4. Imported \notin opened[follow.at] => Imported \notin opened'[follow.at]
    BY <1>a, <2>1, <2>2 DEF TypeOK
  <2> QED
    BY <2>1, <2>3, <2>4 DEF FollowInv
<1>5. CASE Scan \/ Scanning
  BY <1>5, <1>b DEF Scan, Scanning, ListSockets, KnockPorts, Scanned, Knock, ProbeSocket,
                    worldVars, followVars
<1>6. ASSUME NEW r \in found, Connect(r) PROVE FollowInv'
  BY <1>6, <1>a DEF Connect, worldVars, FollowInv
<1>7. CASE Import
  BY <1>7, <1>a DEF Import, Connected, FollowInv
<1>8. CASE PollAgain
  BY <1>8, <1>a DEF PollAgain, worldVars, FollowInv, TypeOK
<1>9. CASE Notify \/ GiveUp
  BY <1>9 DEF Notify, GiveUp, FollowInv
<1>10. CASE UNCHANGED vars
  BY <1>10, <1>b DEF vars, worldVars, followVars
<1> QED
  BY <1>1, <1>2, <1>3, <1>4, <1>5, <1>6, <1>7, <1>8, <1>9, <1>10 DEF Next, World, Poller

-----------------------------------------------------------------------------
(* What the list of a scan leaves out.                                     *)

(* Ghidras start, stop and are unlinked without two of one process id ever *)
(* running and without one that runs losing its socket.                    *)
LEMMA WorldStep == InstancesInv /\ [Next]_vars => WorldInv'
<1> SUFFICES ASSUME InstancesInv, [Next]_vars PROVE WorldInv'
  OBVIOUS
<1> USE ProcsAssumption DEF ProcsAssumption, scanVars
<1>a. WorldInv /\ TypeOK
  BY DEF InstancesInv
<1>b. UNCHANGED <<up, files>> /\ steady' \in {steady, up, {}} => WorldInv'
  BY <1>a DEF WorldInv
<1>1. ASSUME NEW p \in Procs, Start(p) PROVE WorldInv'
  BY <1>1, <1>a DEF Start, Changes, WorldInv, TypeOK
<1>2. ASSUME NEW p \in Procs, Stop(p) PROVE WorldInv'
  BY <1>2, <1>a DEF Stop, Changes, WorldInv, TypeOK
<1>3. ASSUME NEW p \in Procs, Analyzed(p) PROVE WorldInv'
  BY <1>3, <1>b DEF Analyzed
<1>4. ASSUME NEW p \in Procs, NEW prog \in Programs, OpenProgram(p, prog) PROVE WorldInv'
  BY <1>4, <1>a DEF OpenProgram, Changes, WorldInv
<1>5. CASE ListSockets
  <2>1. UNCHANGED <<up, steady>> /\ \A p \in files : (\E q \in up : Pid[q] = Pid[p]) => p \in files'
    BY <1>5 DEF ListSockets
  <2> QED
    BY <1>a, <2>1 DEF WorldInv
<1>6. CASE Scan \/ KnockPorts \/ Scanned
  BY <1>6, <1>b DEF Scan, KnockPorts, Scanned, worldVars
<1>7. ASSUME NEW p \in Procs, Knock(p) PROVE WorldInv'
  BY <1>7, <1>b DEF Knock, worldVars
<1>8. ASSUME NEW p \in Procs, NEW path \in Paths[p], ProbeSocket(p, path) PROVE WorldInv'
  BY <1>8, <1>b DEF ProbeSocket, worldVars
<1>9. ASSUME NEW r \in found, Connect(r) PROVE WorldInv'
  BY <1>9, <1>b DEF Connect, ScanForgotten, worldVars
<1>10. CASE Import
  BY <1>10, <1>b DEF Import, ScanForgotten
<1>11. CASE Poller
  BY <1>11, <1>b DEF Poller, PollAgain, Notify, GiveUp, worldVars
<1>12. CASE UNCHANGED vars
  BY <1>12, <1>b DEF vars, worldVars
<1> QED
  BY <1>1, <1>2, <1>3, <1>4, <1>5, <1>6, <1>7, <1>8, <1>9, <1>10, <1>11, <1>12 DEF Next, World, Scanning

(* The list only grows, and what ran on from its start can only stop.      *)
LEMMA ListGrows ==
  ASSUME ListInv, found \subseteq found', steady' \subseteq steady, answered' = answered,
         pc' \in {"probe", "knock", "done"} =>
             pc \in {"probe", "knock", "done"} /\ \A t \in todo : pc = "probe" => pc' = "probe" /\ t \in todo'
  PROVE  ListInv'
<1>1. ASSUME NEW p \in answered, Accounted(p) PROVE Accounted(p)'
  BY <1>1 DEF Accounted
<1>2. (\A p \in answered : Accounted(p))'
  BY <1>1 DEF ListInv
<1>3. ASSUME pc' \in {"probe", "knock", "done"}, NEW p \in steady' \intersect Sockets
      PROVE  (pc' = "probe" /\ First[p] \in todo') \/ \E r \in found' : r.at = First[p]
  <2>1. p \in steady \intersect Sockets
    OBVIOUS
  <2>2. (pc = "probe" /\ First[p] \in todo) \/ \E r \in found : r.at = First[p]
    BY <1>3, <2>1 DEF ListInv
  <2> QED
    BY <1>3, <2>2
<1> QED
  BY <1>2, <1>3 DEF ListInv

(* A socket that is probed is in the list from then on.                    *)
LEMMA ProbedIsListed ==
  ASSUME InstancesInv, NEW p \in Procs, NEW path \in Paths[p], ProbeSocket(p, path)
  PROVE  ListInv'
<1> USE ProcsAssumption DEF ProcsAssumption
<1>0. ListInv /\ TypeOK
  BY DEF InstancesInv
<1>1. /\ pc = "probe" /\ pc' = "probe" /\ todo' = todo \ {path} /\ UNCHANGED steady
      /\ \/ found' = found \union {Unanswered(p, "uds", path)} /\ answered' = answered
         \/ found' = found \union {Answered(p, "uds", path)} /\ answered' = answered \union {p}
  BY DEF ProbeSocket, Silent
<1>2. \E r \in found' : r.at = path
  <2>1. Unanswered(p, "uds", path).at = path /\ Answered(p, "uds", path).at = path
    BY DEF Unanswered, Answered
  <2>2. Unanswered(p, "uds", path) \in found' \/ Answered(p, "uds", path) \in found'
    BY <1>1
  <2> QED
    BY <2>1, <2>2
<1>3. \A q \in answered : Accounted(q)'
  BY <1>0, <1>1 DEF ListInv, Accounted
<1>4. p \in answered' \ answered => Accounted(p)'
  <2> SUFFICES ASSUME p \in answered', p \notin answered PROVE Accounted(p)'
    OBVIOUS
  <2>1. Answered(p, "uds", path) \in found'
    BY <1>1
  <2>2. Answered(p, "uds", path).of = p /\ Answered(p, "uds", path).project = Project[p]
    BY DEF Answered
  <2> QED
    BY <2>1, <2>2 DEF Accounted
<1>5. (\A q \in answered : Accounted(q))'
  BY <1>1, <1>3, <1>4
<1>6. ASSUME NEW q \in steady \intersect Sockets
      PROVE  First[q] \in todo' \/ \E r \in found' : r.at = First[q]
  <2>1. First[q] \in todo \/ \E r \in found : r.at = First[q]
    BY <1>0, <1>1 DEF ListInv
  <2> QED
    BY <1>1, <1>2, <2>1
<1> QED
  BY <1>1, <1>5, <1>6 DEF ListInv

(* A port whose Ghidra answers is accounted for: by its record, or by the  *)
(* one that hides it.                                                      *)
LEMMA KnockedIsAccountedFor ==
  ASSUME InstancesInv, NEW p \in Procs, Knock(p)
  PROVE  ListInv'
<1> USE ProcsAssumption DEF ProcsAssumption
<1>0. ListInv /\ TypeOK /\ RecordInv /\ WorldInv
  BY DEF InstancesInv
<1>1. /\ pc = "knock" /\ pc' = "knock" /\ UNCHANGED <<up, steady>>
      /\ \E r \in {Unanswered(p, "tcp", p)} \union (IF p \in up THEN {Answered(p, "tcp", p)} ELSE {}) :
             /\ found' = IF Known(r) THEN found ELSE found \union {r}
             /\ answered' = answered \union (IF r.project = NoProject THEN {} ELSE {p})
  BY DEF Knock, worldVars
<1>2. found \subseteq found'
  BY <1>1
<1>3. \A q \in answered : Accounted(q)'
  BY <1>0, <1>1, <1>2 DEF ListInv, Accounted
<1>4. ASSUME p \in answered', p \notin answered PROVE Accounted(p)'
  <2> DEFINE new == Answered(p, "tcp", p)
  <2>1. p \in up /\ found' = IF Known(new) THEN found ELSE found \union {new}
    BY <1>1, <1>4 DEF Unanswered
  <2>2. /\ new.of = p /\ new.project = Project[p] /\ new.programs = opened[p]
        /\ new.pid = IF p \in Tells THEN Pid[p] ELSE NoPid
    BY DEF Answered
  <2> HIDE DEF new
  <2>3. CASE ~Known(new)
    BY <2>1, <2>2, <2>3 DEF Accounted
  <2>4. CASE Known(new)
    <3>1. PICK u \in found : /\ u.via = "uds"
                             /\ \/ new.pid # NoPid /\ u.pid = new.pid
                                \/ new.pid = NoPid /\ u.project = new.project
      BY <2>4 DEF Known, OverUds
    <3>2. /\ u \in found' /\ u.project \in {NoProject, Project[u.of]} /\ u.pid = Pid[u.of] /\ u.of \in Procs
      BY <1>0, <1>2, <3>1 DEF RecordInv, TypeOK, Records
    <3>3. CASE u.of = p /\ u.project # NoProject
      BY <3>2, <3>3 DEF Accounted
    <3>4. CASE p \in Tells /\ ~(u.of = p /\ u.project # NoProject)
      <4>1. u.pid = Pid[p]
        BY <2>2, <3>1, <3>4
      <4>2. u.of # p => u.of \notin steady
        BY <1>0, <2>1, <3>2, <4>1 DEF WorldInv
      <4> QED
        BY <1>1, <3>2, <3>4, <4>1, <4>2 DEF Accounted
    <3>5. CASE p \notin Tells
      BY <2>2, <3>1, <3>2, <3>5 DEF Accounted
    <3> QED
      BY <3>3, <3>4, <3>5
  <2> QED
    BY <2>3, <2>4
<1>5. (\A q \in answered : Accounted(q))'
  BY <1>1, <1>3, <1>4
<1>6. ASSUME NEW q \in steady \intersect Sockets PROVE \E r \in found' : r.at = First[q]
  BY <1>0, <1>1, <1>2 DEF ListInv
<1> QED
  BY <1>1, <1>5, <1>6 DEF ListInv

LEMMA ListStep == InstancesInv /\ [Next]_vars => ListInv'
<1> SUFFICES ASSUME InstancesInv, [Next]_vars PROVE ListInv'
  OBVIOUS
<1> USE ProcsAssumption DEF ProcsAssumption
<1>a. ListInv /\ WorldInv /\ TypeOK
  BY DEF InstancesInv
<1>b. UNCHANGED <<pc, todo, found, answered>> /\ steady' \subseteq steady => ListInv'
  BY <1>a, ListGrows
<1>c. answered' = {} /\ pc' \in {"idle", "sockets"} => ListInv'
  BY DEF ListInv
<1> USE DEF scanVars, ScanForgotten
<1>1. CASE World
  BY <1>1, <1>b DEF World, Start, Stop, Analyzed, OpenProgram, Changes
<1>2. CASE Scan
  BY <1>2, <1>c DEF Scan
<1>3. CASE ListSockets
  <2>1. PICK kept \in SUBSET files :
            /\ \A p \in files : (\E q \in up : Pid[q] = Pid[p]) => p \in kept
            /\ todo' = OnePath(kept)
    BY <1>3 DEF ListSockets
  <2>2. pc' = "probe" /\ UNCHANGED <<found, answered, steady>>
    BY <1>3 DEF ListSockets
  <2>3. \A p \in steady \intersect Sockets : First[p] \in todo'
    BY <1>a, <2>1 DEF WorldInv, OnePath
  <2>4. (\A p \in answered : Accounted(p))'
    BY <1>a, <2>2 DEF ListInv, Accounted
  <2> QED
    BY <2>2, <2>3, <2>4 DEF ListInv
<1>4. CASE KnockPorts
  BY <1>4, <1>a, ListGrows DEF KnockPorts
<1>5. CASE Scanned
  BY <1>5, <1>a, ListGrows DEF Scanned
<1>6. ASSUME NEW p \in Procs, Knock(p) PROVE ListInv'
  BY <1>6, KnockedIsAccountedFor
<1>7. ASSUME NEW p \in Procs, NEW path \in Paths[p], ProbeSocket(p, path) PROVE ListInv'
  BY <1>7, ProbedIsListed
<1>8. ASSUME NEW r \in found, Connect(r) PROVE ListInv'
  BY <1>8, <1>c DEF Connect
<1>9. CASE Import
  BY <1>9, <1>c DEF Import
<1>10. CASE Poller
  BY <1>10, <1>b DEF Poller, PollAgain, Notify, GiveUp
<1>11. CASE UNCHANGED vars
  BY <1>11, <1>b DEF vars
<1> QED
  BY <1>1, <1>2, <1>3, <1>4, <1>5, <1>6, <1>7, <1>8, <1>9, <1>10, <1>11 DEF Next, Scanning

LEMMA ClientStep == InstancesInv /\ [Next]_vars => ClientInv'
<1> SUFFICES ASSUME InstancesInv, [Next]_vars PROVE ClientInv'
  OBVIOUS
<1>a. ClientInv /\ RecordInv
  BY DEF InstancesInv
<1>b. UNCHANGED client => ClientInv'
  BY <1>a DEF ClientInv
<1>1. ASSUME NEW r \in found, Connect(r) PROVE ClientInv'
  <2>1. client' = [of |-> r.of, via |-> r.via, at |-> r.at]
    BY <1>1 DEF Connect
  <2>2. r.via = "uds" => r.at = First[r.of] /\ r.of \in Sockets
    BY <1>a DEF RecordInv
  <2> QED
    BY <2>1, <2>2 DEF ClientInv
<1> QED
  BY <1>1, <1>b DEF Next, World, Start, Stop, OpenProgram, Changes, Analyzed, Scan, Scanning, ListSockets, KnockPorts,
                    Scanned, Knock, ProbeSocket, Import, Poller, PollAgain, Notify, GiveUp, vars

-----------------------------------------------------------------------------
LEMMA InitInstances == Init => InstancesInv
<1> SUFFICES ASSUME Init PROVE InstancesInv
  OBVIOUS
<1>1. TypeOK
  <2>1. opened \in [Procs -> SUBSET Programs] /\ changes \in 0 .. MaxChanges
    BY ProcsAssumption DEF ProcsAssumption, Init
  <2>2. pc = "idle" /\ todo = {} /\ found = {} /\ client = None /\ follow = None /\ moved = FALSE
    BY DEF Init
  <2>3. up \subseteq Procs /\ files \subseteq Sockets /\ analyzing = {} /\ answered = {} /\ steady = {}
    BY DEF Init
  <2> QED
    BY <2>1, <2>2, <2>3 DEF TypeOK
<1>2. found = {} /\ pc = "idle" /\ follow = None
  BY DEF Init
<1>3. answered = {} /\ client = None
  BY DEF Init
<1>4. WorldInv
  BY DEF Init, WorldInv
<1> QED
  BY <1>1, <1>2, <1>3, <1>4
     DEF InstancesInv, TodoInv, RecordInv, OneOverEach, OnePerProcess, FollowInv, ListInv, ClientInv

LEMMA NextInstances == InstancesInv /\ [Next]_vars => InstancesInv'
<1> SUFFICES ASSUME InstancesInv, [Next]_vars PROVE InstancesInv'
  OBVIOUS
<1>1. TypeOK'
  <2>1. CASE UNCHANGED vars
    BY <2>1 DEF vars, worldVars, scanVars, followVars, InstancesInv, TypeOK
  <2> QED
    BY <2>1, WorldType, ScanType, FollowType DEF InstancesInv, Next
<1> QED
  BY <1>1, WorldStep, RecordsStep, FollowStep, ListStep, ClientStep DEF InstancesInv, RecordsInv

(* The records of a scan and the poller stay as InstancesInv says.         *)
THEOREM InstancesInvHolds == Spec => []InstancesInv
BY InitInstances, NextInstances, PTL DEF Spec

(* One Ghidra is reported once, unless a probe of it went unanswered or it *)
(* changed between two probes without telling who it is.                   *)
THEOREM ScanFindsEachOnce == Spec => []OnePerProcess
BY InstancesInvHolds, PTL DEF InstancesInv

(* Whoever answered is in the list when the scan is over, or hidden by one *)
(* that NobodyHidden names.                                                *)
THEOREM ScanHidesNobody == Spec => []NobodyHidden
<1>1. InstancesInv => NobodyHidden
  BY DEF InstancesInv, ListInv, NobodyHidden
<1> QED
  BY <1>1, InstancesInvHolds, PTL

(* The Ghidra that the bridge is connected to by its socket is in the list *)
(* under the url that the bridge has.                                      *)
THEOREM ScanShowsConnected == Spec => []ConnectedIsShown
<1>1. InstancesInv => ConnectedIsShown
  <2> SUFFICES ASSUME InstancesInv, pc = "done", client # None, client.via = "uds", client.of \in steady
               PROVE  \E r \in found : r.at = client.at
    BY DEF ConnectedIsShown
  <2>1. client.at = First[client.of] /\ client.of \in Sockets
    BY DEF InstancesInv, ClientInv
  <2> QED
    BY <2>1 DEF InstancesInv, ListInv
<1> QED
  BY <1>1, InstancesInvHolds, PTL

(* The poller announces an analysis that is over, unless the bridge moved  *)
(* to another instance or the program was opened anew.                     *)
THEOREM CompletionIsAlwaysReal == Spec => CompletionIsReal
<1>1. InstancesInv /\ [Next]_vars => [Notify /\ ~moved => follow.over]_vars
  BY DEF InstancesInv, TypeOK, FollowInv, Notify, Connected, Status
<1> QED
  BY <1>1, InstancesInvHolds, PTL DEF Spec, CompletionIsReal
=============================================================================
