------------------------------ MODULE Instances -----------------------------
(***************************************************************************)
(* Which Ghidras there are (src/library/uds.py, src/library/discovery.py), *)
(* and the one task of the bridge that outlives a call and may find itself *)
(* talking to another of them: the poller of import_file                   *)
(* (src/library/bridge.py).                                                *)
(*                                                                         *)
(* A Ghidra listens on a port and, if it can, on a socket file named after *)
(* its process id; the file may be seen along several paths, and stays     *)
(* behind after a crash.  A scan is a sequence of reads, any of which may  *)
(* go unanswered, while Ghidras come, go and open programs.                *)
(***************************************************************************)
EXTENDS Naturals, FiniteSets

CONSTANTS
    Procs,      \* Ghidra processes
    Pid,        \* their process ids; a later one may have the id of an earlier
    Project,    \* the project of each
    Sockets,    \* those with a socket
    Tells,      \* those whose instance_info has a pid
    Paths,      \* Paths[p]: the paths along which the socket of p is seen
    First,      \* First[p]: the one of them that socket_dirs comes to first
    Programs,   \* programs that may be open
    Imported,   \* the program that is imported
    NoProject, NoPid, None,
    MaxChanges, \* bound on starts, stops and openings
    MaxPolls    \* 360 in the code

ASSUME ProcsAssumption ==
    /\ Sockets \subseteq Procs /\ Tells \subseteq Procs
    /\ \A p \in Procs : First[p] \in Paths[p] /\ Pid[p] # NoPid
    /\ NoProject \notin {Project[p] : p \in Procs} /\ None \notin Procs
    /\ \A p, q \in Procs : p # q => Paths[p] \intersect Paths[q] = {}
    /\ Imported \in Programs
    /\ MaxChanges \in Nat /\ MaxPolls \in Nat

VARIABLES
    up,        \* processes that run
    files,     \* processes whose socket file is there
    opened,    \* programs open in each
    analyzing, \* processes that still analyze what was imported
    changes,   \* starts, stops and openings so far
    pc,        \* where the scan stands
    todo,      \* what is still to be probed
    found,     \* the records so far
    client,    \* what the bridge is connected to: of, via and at of a record, or None
    follow,    \* the poller, or None: where the import went, the polls left, and
               \* whether that analysis is over, which the poller cannot see
    answered,  \* ghost: processes that answered a probe of this scan
    steady,    \* ghost: processes that ran and changed nothing since its start
    moved      \* ghost: since the import the bridge was connected elsewhere, or the
               \* program was opened anew by a Ghidra that had been restarted

worldVars  == <<up, files, opened, analyzing, changes>>
scanVars   == <<pc, todo, found, answered, steady>>
followVars == <<follow, moved>>
vars       == <<worldVars, scanVars, client, followVars>>

Everywhere == UNION {Paths[p] : p \in Procs}

\* What a scan reports; `of` is the process that answers there, or whose socket
\* it was.
Records == [of : Procs, via : {"uds", "tcp"}, at : Everywhere \union Procs,
            project : {Project[p] : p \in Procs} \union {NoProject},
            pid : {Pid[p] : p \in Procs} \union {NoPid}, programs : SUBSET Programs]

TypeOK ==
    /\ up \subseteq Procs /\ files \subseteq Sockets
    /\ opened \in [Procs -> SUBSET Programs]
    /\ analyzing \subseteq up
    /\ changes \in 0 .. MaxChanges
    /\ pc \in {"idle", "sockets", "probe", "knock", "done"}
    /\ todo \subseteq Everywhere \union Procs
    /\ found \subseteq Records
    /\ client = None \/ client \in [of : Procs, via : {"uds", "tcp"}, at : Everywhere \union Procs]
    /\ follow = None \/ follow \in [at : Procs, polls : 0 .. MaxPolls, over : BOOLEAN]
    /\ answered \subseteq Procs /\ steady \subseteq Procs
    /\ moved \in BOOLEAN

Init ==
    /\ up \in SUBSET Procs
    /\ \A p, q \in up : p # q => Pid[p] # Pid[q]
    /\ files \in SUBSET Sockets
    /\ up \intersect Sockets \subseteq files
    /\ \A p, q \in files : p # q => Pid[p] # Pid[q]
    /\ opened = [p \in Procs |-> {}]
    /\ analyzing = {} /\ changes = 0
    /\ pc = "idle" /\ todo = {} /\ found = {} /\ answered = {} /\ steady = {}
    /\ client = None
    /\ follow = None /\ moved = FALSE

-----------------------------------------------------------------------------
(* The world.                                                              *)

Changes ==
    /\ changes < MaxChanges
    /\ changes' = changes + 1
    /\ UNCHANGED <<pc, todo, found, answered, client, follow>>

\* A new Ghidra replaces a file left behind by one with its process id.
Start(p) ==
    /\ p \notin up /\ \A q \in up : Pid[q] # Pid[p]
    /\ Changes
    /\ up' = up \union {p}
    /\ files' = {q \in files : Pid[q] # Pid[p]} \union ({p} \intersect Sockets)
    /\ opened' = [opened EXCEPT ![p] = {}]
    /\ UNCHANGED <<analyzing, steady, moved>>

\* An orderly exit takes the file away, a crash leaves it.
Stop(p) ==
    /\ p \in up
    /\ Changes
    /\ up' = up \ {p}
    /\ files' \in {files, files \ {p}}
    /\ analyzing' = analyzing \ {p}
    /\ steady' = steady \ {p}
    /\ UNCHANGED <<opened, moved>>

OpenProgram(p, prog) ==
    /\ p \in up /\ prog \notin opened[p]
    /\ Changes
    /\ opened' = [opened EXCEPT ![p] = @ \union {prog}]
    /\ steady' = steady \ {p}
    /\ moved' = (moved \/ (follow # None /\ p = follow.at /\ prog = Imported))
    /\ UNCHANGED <<up, files, analyzing>>

Analyzed(p) ==
    /\ p \in analyzing
    /\ analyzing' = analyzing \ {p}
    /\ follow' = IF follow # None /\ follow.at = p THEN [follow EXCEPT !.over = TRUE] ELSE follow
    /\ UNCHANGED <<up, files, opened, changes, scanVars, client, moved>>

-----------------------------------------------------------------------------
(* The scan.                                                               *)

Scan ==
    /\ pc \in {"idle", "done"}
    /\ pc' = "sockets"
    /\ todo' = {} /\ found' = {} /\ answered' = {}
    /\ steady' = up
    /\ UNCHANGED <<worldVars, client, followVars>>

\* as if a socket seen along two paths was two sockets
EveryPath(ps) == UNION {Paths[p] : p \in ps}

\* sockets() goes by the resolved path: it takes the first that leads to a file.
OnePath(ps) == {First[p] : p \in ps}

\* Whose process is gone is unlinked.  Another process may have its id by now,
\* a Ghidra or any other, and then it passes for alive.
ListSockets ==
    /\ pc = "sockets"
    /\ \E kept \in SUBSET files :
           /\ \A p \in files : (\E q \in up : Pid[q] = Pid[p]) => p \in kept
           /\ files' = kept
           /\ todo' = OnePath(kept)
    /\ pc' = "probe"
    /\ UNCHANGED <<up, opened, analyzing, changes, found, answered, steady, client, followVars>>

\* Sockets and ports are probed in a fixed order; any will do.
Foremost == CHOOSE t \in todo : TRUE

Unanswered(p, via, at) ==
    [of |-> p, via |-> via, at |-> at, project |-> NoProject, programs |-> {},
     pid |-> IF via = "uds" THEN Pid[p] ELSE NoPid]

Answered(p, via, at) ==
    [of |-> p, via |-> via, at |-> at, project |-> Project[p], programs |-> opened[p],
     pid |-> IF via = "uds" \/ p \in Tells THEN Pid[p] ELSE NoPid]

\* as if a socket whose probe fails was no instance
SilentSkipped(p, path) == {}

\* scan_uds: it is reported all the same, by the pid in its name.
Silent(p, path) == {Unanswered(p, "uds", path)}

ProbeSocket(p, path) ==
    /\ pc = "probe"
    /\ todo # {} /\ path = Foremost /\ path \in Paths[p]
    /\ todo' = todo \ {path}
    /\ \/ found' = found \union Silent(p, path) /\ UNCHANGED answered
       \/ /\ p \in up
          /\ found' = found \union {Answered(p, "uds", path)}
          /\ answered' = answered \union {p}
    /\ UNCHANGED <<worldVars, pc, steady, client, followVars>>

\* scan_tcp: the ports that accept a connection within probe_timeout.
KnockPorts ==
    /\ pc = "probe" /\ todo = {}
    /\ todo' \in SUBSET up
    /\ pc' = "knock"
    /\ UNCHANGED <<worldVars, found, answered, steady, client, followVars>>

OverUds == {r \in found : r.via = "uds"}

\* as if records were told apart by project and programs only
KnownByIdentity(r) == \E u \in OverUds : u.project = r.project /\ u.programs = r.programs

\* scan: by pid if the record has one, else by project and open programs.
Known(r) ==
    \E u \in OverUds :
        \/ r.pid # NoPid /\ u.pid = r.pid
        \/ r.pid = NoPid /\ u.project = r.project /\ u.programs = r.programs

Knock(p) ==
    /\ pc = "knock"
    /\ todo # {} /\ p = Foremost
    /\ todo' = todo \ {p}
    /\ \E r \in {Unanswered(p, "tcp", p)} \union (IF p \in up THEN {Answered(p, "tcp", p)} ELSE {}) :
           /\ found' = IF Known(r) THEN found ELSE found \union {r}
           /\ answered' = answered \union (IF r.project = NoProject THEN {} ELSE {p})
    /\ UNCHANGED <<worldVars, pc, steady, client, followVars>>

Scanned ==
    /\ pc = "knock" /\ todo = {}
    /\ pc' = "done"
    /\ UNCHANGED <<worldVars, todo, found, answered, steady, client, followVars>>

ScanForgotten == pc' = "idle" /\ todo' = {} /\ found' = {} /\ answered' = {} /\ steady' = {}

\* connect_instance, auto_connect or reconnect, with a record of the scan.
Connect(r) ==
    /\ pc = "done"
    /\ r \in found /\ r.of \in up
    /\ client' = [of |-> r.of, via |-> r.via, at |-> r.at]
    /\ moved' = (moved \/ (follow # None /\ r.of # follow.at))
    /\ ScanForgotten
    /\ UNCHANGED <<worldVars, follow>>

-----------------------------------------------------------------------------
(* import_file.                                                            *)

\* A scan does not yield to the event loop, which runs the poller.
Between == pc \in {"idle", "done"}

Connected == client # None /\ client.of \in up

Import ==
    /\ Between /\ follow = None
    /\ Connected /\ Imported \notin opened[client.of]
    /\ opened' = [opened EXCEPT ![client.of] = @ \union {Imported}]
    /\ analyzing' = analyzing \union {client.of}
    /\ ScanForgotten
    /\ follow' = [at |-> client.of, polls |-> MaxPolls, over |-> FALSE]
    /\ moved' = FALSE
    /\ UNCHANGED <<up, files, changes, client>>

\* as if an error reply meant that nothing is being analyzed
StatusByDefault(p) == IF p \in analyzing THEN "busy" ELSE "over"

\* analysis_status of the imported program; a Ghidra that has it not replies
\* with an error, in which "analyzing" defaults to True.
Status(p) == IF Imported \in opened[p] /\ p \notin analyzing THEN "over" ELSE "busy"

\* as if there was one poll more
PollsRemainOneMore == follow.polls >= 0

PollsRemain == follow.polls > 0

\* A poll asks whichever instance is connected by then; an unanswered one and
\* one that says "busy" use up a poll alike.
PollAgain ==
    /\ Between /\ follow # None /\ PollsRemain
    /\ follow' = [follow EXCEPT !.polls = @ - 1]
    /\ UNCHANGED <<worldVars, scanVars, client, moved>>

\* The log notification is sent and the poller ends.
Notify ==
    /\ Between /\ follow # None /\ PollsRemain
    /\ Connected /\ Status(client.of) = "over"
    /\ follow' = None
    /\ UNCHANGED <<worldVars, scanVars, client, moved>>

\* After the last poll it ends without a word.
GiveUp ==
    /\ Between /\ follow # None /\ follow.polls = 0
    /\ follow' = None
    /\ UNCHANGED <<worldVars, scanVars, client, moved>>

-----------------------------------------------------------------------------
Scanning ==
    \/ ListSockets \/ KnockPorts \/ Scanned
    \/ \E p \in Procs : Knock(p) \/ \E path \in Paths[p] : ProbeSocket(p, path)

Poller == PollAgain \/ Notify \/ GiveUp

World ==
    \E p \in Procs : Start(p) \/ Stop(p) \/ Analyzed(p) \/ \E prog \in Programs : OpenProgram(p, prog)

Next == World \/ Scan \/ Scanning \/ (\E r \in found : Connect(r)) \/ Import \/ Poller

Spec == Init /\ [][Next]_vars

-----------------------------------------------------------------------------
(* Properties.                                                             *)

\* One Ghidra is reported once: twice only if one of its two probes went
\* unanswered, or if it does not tell its pid and changed between the two.
OnePerProcess ==
    \A r, s \in found :
        r # s /\ r.of = s.of =>
            \/ NoProject \in {r.project, s.project}
            \/ r.of \notin Tells /\ r.programs # s.programs

Accounted(p) ==
    \/ \E r \in found : r.of = p /\ r.project = Project[p]
    \/ /\ p \in Tells
       /\ \E r \in found : r.pid = Pid[p] /\ (r.project = NoProject \/ r.of \notin steady)
    \/ p \notin Tells /\ \E r \in found : r.of # p /\ r.project = Project[p]

\* A Ghidra that answered is in the list, unless it answered over TCP only and
\* a socket has its pid (its own, silent, or that of one gone), or it tells no
\* pid and another has the same project and programs.
NobodyHidden == pc = "done" => \A p \in answered : Accounted(p)

\* list_instances compares urls (bridge.py:165): the Ghidra that the bridge is
\* connected to by its socket is listed under that url, and so as connected,
\* even if it is too busy to answer the probe.
ConnectedIsShown ==
    pc = "done" /\ client # None /\ client.via = "uds" /\ client.of \in steady =>
        \E r \in found : r.at = client.at

\* "Analysis complete" is sent of an analysis that is over, not of one that a
\* crash cut off, if the bridge has stayed with the instance that imported the
\* file and nobody opened the program again there (bridge.py:353-362).
CompletionIsReal == [][Notify /\ ~moved => follow.over]_vars

-----------------------------------------------------------------------------
(* The inductive invariant behind them.                                    *)

\* Two Ghidras that run have two process ids, and none has lost its socket.
WorldInv ==
    /\ \A p, q \in up : p # q => Pid[p] # Pid[q]
    /\ up \intersect Sockets \subseteq files
    /\ steady \subseteq up

\* What is still to be probed, and that it has no record yet.
TodoInv ==
    /\ pc \in {"idle", "sockets"} => found = {}
    /\ pc = "probe" => todo \subseteq {First[p] : p \in Sockets}
    /\ pc = "knock" => todo \subseteq Procs
    /\ \A r \in found :
          /\ r.via = "tcp" => pc \in {"knock", "done"}
          /\ pc = "probe" \/ (pc = "knock" /\ r.via = "tcp") => r.at \notin todo

\* A record is of the process that it was made of.
RecordInv ==
    \A r \in found :
        /\ r.at = IF r.via = "uds" THEN First[r.of] ELSE r.of
        /\ r.project \in {NoProject, Project[r.of]}
        /\ r.via = "uds" => r.pid = Pid[r.of] /\ r.of \in Sockets

\* There is one record at most of a process over each transport.
OneOverEach == \A r, s \in found : r.of = s.of /\ r.via = s.via => r = s

\* An analysis that is not over goes on, was cut off, or is of a program that is
\* not open any more.
FollowInv ==
    follow # None /\ ~moved =>
        /\ client.of = follow.at
        /\ ~follow.over =>
              follow.at \in analyzing \/ follow.at \notin up \/ Imported \notin opened[follow.at]

\* Whoever answered so far is accounted for at every moment of the scan, and a
\* Ghidra with a socket that goes on running is in the list or will be probed.
ListInv ==
    /\ \A p \in answered : Accounted(p)
    /\ pc \in {"probe", "knock", "done"} =>
           \A p \in steady \intersect Sockets :
               \/ pc = "probe" /\ First[p] \in todo
               \/ \E r \in found : r.at = First[p]

\* The bridge goes by the path that scans report.
ClientInv == client # None /\ client.via = "uds" => client.at = First[client.of] /\ client.of \in Sockets

InstancesInv ==
    /\ TypeOK /\ WorldInv /\ TodoInv /\ RecordInv /\ OneOverEach /\ OnePerProcess
    /\ FollowInv /\ ListInv /\ ClientInv
=============================================================================
