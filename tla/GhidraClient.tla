---------------------------- MODULE GhidraClient ----------------------------
(***************************************************************************)
(* The HTTP client of the bridge (src/library/client.py) with the loop of  *)
(* dispatcher._send around it, and the Ghidra plugin at the other end of   *)
(* the keep-alive socket.  Plugin and network are external: they are       *)
(* modelled by what the client has to cope with.                           *)
(*                                                                         *)
(* One call is in progress at a time (client._lock, and the tools run one  *)
(* after the other on the event loop).  A call is a POST, a GET sent by    *)
(* dispatcher._send, or a probe: a GET sent by client.get_json.            *)
(***************************************************************************)
EXTENDS Naturals

CONSTANTS
    Requests,     \* every call made in a behaviour
    Post,         \* the calls made with POST: the writes
    Probe,        \* the calls made through get_json
    NoReq,        \* no call
    ClientIdle,   \* KEEPALIVE_IDLE_MAX, in ticks
    ServerIdle    \* ticks after which the plugin may drop an idle connection

ASSUME RequestsAssumption ==
    /\ Post \subseteq Requests
    /\ Probe \subseteq Requests
    /\ Post \intersect Probe = {}
    /\ NoReq \notin Requests

\* KEEPALIVE_IDLE_MAX is chosen below the idle limit of the server.
ASSUME IdleAssumption ==
    /\ ClientIdle \in Nat
    /\ ServerIdle \in Nat
    /\ ClientIdle < ServerIdle

VARIABLES
    cur,        \* the call in progress, NoReq between calls
    pc,         \* where request() and _send() stand
    attempt,    \* the loop counter of request()
    round,      \* the loop counter of _send()
    outcome,    \* what each call gave its caller
    link,       \* the kept-alive socket as it really is
    idle,       \* ticks since _last_used
    ghidra,     \* is Ghidra running with the plugin's server started?
    inbox,      \* does the plugin hold the current request, not run yet?
    reply,      \* the response on its way to the waiting client
    orphans,    \* copies of each request the plugin holds, client gone
    executed    \* how often the plugin ran the handler of each request

clientVars == <<cur, pc, attempt, round, outcome>>
linkVars   == <<link, idle>>
ghidraVars == <<ghidra, inbox, reply, orphans, executed>>
vars       == <<clientVars, linkVars, ghidraVars>>

Outcomes == {"none", "answered", "unsent", "lost", "raised"}

TypeOK ==
    /\ cur \in Requests \union {NoReq}
    /\ pc \in {"free", "send", "recv", "reconnect"}
    /\ attempt \in 0..2
    /\ round \in 0..1
    /\ outcome \in [Requests -> Outcomes]
    /\ link \in {"none", "up", "expired", "dead"}
    /\ idle \in 0..ServerIdle
    /\ ghidra \in {"up", "down"}
    /\ inbox \in {"empty", "held"}
    /\ reply \in {"none", "ok", "5xx", "torn"}
    /\ orphans \in [Requests -> Nat]
    /\ executed \in [Requests -> Nat]

Init ==
    /\ cur = NoReq
    /\ pc = "free"
    /\ attempt = 0
    /\ round = 0
    /\ outcome = [r \in Requests |-> "none"]
    /\ link = "none"
    /\ idle = 0
    /\ ghidra = "up"
    /\ inbox = "empty"
    /\ reply = "none"
    /\ orphans = [r \in Requests |-> 0]
    /\ executed = [r \in Requests |-> 0]

-----------------------------------------------------------------------------
(* The retry policy.  The operators marked "as if" are not part of the     *)
(* model: each is a definition with a plausible bug put in.                *)

\* RETRY[method].attempts
Attempts(r) == IF r \in Post THEN 2 ELSE 3

\* as if a POST could be sent again once the plugin has seen it
ResendableAlways(r) == TRUE

\* RETRY[method].retry_5xx
Resendable(r) == r \notin Post

\* as if the retry did not count
NextAttemptForgotten == attempt' = attempt

NextAttempt == attempt' = attempt + 1

\* as if the age of the socket was never looked at
LinkInUseUnchecked == link

\* _connection closes a socket that was idle for too long before using it.
LinkInUse == IF idle > ClientIdle THEN "none" ELSE link

-----------------------------------------------------------------------------
(* How a pass through the loops ends.                                      *)

CanRetry == Resendable(cur) /\ attempt + 1 < Attempts(cur)

\* `continue` in request(): one more pass with the next attempt.
TryAgain ==
    /\ pc' = "send"
    /\ NextAttempt
    /\ UNCHANGED <<cur, round, outcome>>

Return(o) ==
    /\ outcome' = [outcome EXCEPT ![cur] = o]
    /\ cur' = NoReq
    /\ pc' = "free"
    /\ attempt' = 0
    /\ round' = 0

\* as if _send reconnected for writes too
MayReconnectForWrites == cur \notin Probe /\ round = 0

\* as if _send reconnected every time
MayReconnectAgain == cur \notin Post \union Probe

\* _send reconnects for a GET, and only in its first round.
MayReconnect == cur \notin Post \union Probe /\ round = 0

\* request() raised an OSError.  A GET of _send asks for a reconnection, once;
\* a POST and the second round turn it into an error reply; get_json into None.
RaiseOSError(o) ==
    \/ /\ MayReconnect
       /\ pc' = "reconnect"
       /\ UNCHANGED <<cur, attempt, round, outcome>>
    \/ /\ ~MayReconnect
       /\ Return(o)

\* A failed send is known not to have reached the plugin.  For a GET an
\* earlier pass may have, so nothing is claimed about it.
SendError == IF cur \in Post THEN "unsent" ELSE "lost"

-----------------------------------------------------------------------------
(* The client.                                                             *)

Call(r) ==
    /\ pc = "free"
    /\ outcome[r] = "none"
    /\ cur' = r
    /\ pc' = "send"
    /\ UNCHANGED <<attempt, round, outcome, linkVars, ghidraVars>>

\* conn.request() on a live socket, or on a new one to a live server.
SendDelivered ==
    /\ pc = "send"
    /\ ghidra = "up"
    /\ LinkInUse \in {"none", "up"}
    /\ pc' = "recv"
    /\ link' = "up"
    /\ inbox' = "held"
    /\ UNCHANGED <<cur, attempt, round, outcome, idle, ghidra, reply, orphans, executed>>

\* The kernel takes the bytes although the other end is gone.
SendVanishes ==
    /\ pc = "send"
    /\ LinkInUse \in {"expired", "dead"}
    /\ pc' = "recv"
    /\ link' = LinkInUse
    /\ UNCHANGED <<cur, attempt, round, outcome, idle, ghidraVars>>

\* as if a failed send was always worth another
SendFailsForever ==
    /\ pc = "send"
    /\ \/ LinkInUse \in {"expired", "dead"}
       \/ LinkInUse = "none" /\ ghidra = "down"
    /\ link' = "none"
    /\ UNCHANGED <<clientVars, idle, ghidraVars>>

\* Connection refused, or a socket that reports its end on send.  _once closes
\* it; the first pass of any method goes round again, a later one raises.
SendFails ==
    /\ pc = "send"
    /\ \/ LinkInUse \in {"expired", "dead"}
       \/ LinkInUse = "none" /\ ghidra = "down"
    /\ link' = "none"
    /\ \/ attempt = 0 /\ TryAgain
       \/ attempt > 0 /\ RaiseOSError(SendError)
    /\ UNCHANGED <<idle, ghidraVars>>

\* A whole response was read.  The server may ask for the socket to be closed.
\* A 5xx sends a GET round again while attempts are left.
ReceiveReply ==
    /\ pc = "recv"
    /\ reply \in {"ok", "5xx"}
    /\ reply' = "none"
    /\ idle' = 0
    /\ link' \in {link, "none"}
    /\ \/ reply = "5xx" /\ CanRetry /\ TryAgain
       \/ ~(reply = "5xx" /\ CanRetry) /\ Return("answered")
    /\ UNCHANGED <<ghidra, inbox, orphans, executed>>

\* The response broke off in its body: http.client raises IncompleteRead, an
\* HTTPException.  request() retries it like an OSError, but what it raises in
\* the end is not one: _send lets it through, get_json catches everything.
ReceiveTorn ==
    /\ pc = "recv"
    /\ reply = "torn"
    /\ reply' = "none"
    /\ link' = "none"
    /\ \/ CanRetry /\ TryAgain
       \/ ~CanRetry /\ Return(IF cur \in Probe THEN "lost" ELSE "raised")
    /\ UNCHANGED <<idle, ghidra, inbox, orphans, executed>>

\* as if the error of a lost reply was the error of a failed send
ReceiveFailsAsSendFailed ==
    /\ pc = "recv"
    /\ reply = "none"
    /\ link' = "none"
    /\ inbox' = "empty"
    /\ orphans' = IF inbox = "held" THEN [orphans EXCEPT ![cur] = @ + 1] ELSE orphans
    /\ \/ attempt = 0 /\ TryAgain
       \/ attempt > 0 /\ RaiseOSError(SendError)
    /\ UNCHANGED <<idle, ghidra, reply, executed>>

\* A reset, an end of stream or the timeout before any response.  _once closes
\* the socket; a request the plugin already holds stays with it and may still
\* run.  Only a GET is sent again.
ReceiveFails ==
    /\ pc = "recv"
    /\ reply = "none"
    /\ link' = "none"
    /\ inbox' = "empty"
    /\ orphans' = IF inbox = "held" THEN [orphans EXCEPT ![cur] = @ + 1] ELSE orphans
    /\ \/ CanRetry /\ TryAgain
       \/ ~CanRetry /\ RaiseOSError("lost")
    /\ UNCHANGED <<idle, ghidra, reply, executed>>

\* Bridge.reconnect found an instance: _send goes round again on its client,
\* which the probes of connect() may have left with an open socket.
ReconnectSucceeds ==
    /\ pc = "reconnect"
    /\ ghidra = "up"
    /\ pc' = "send"
    /\ attempt' = 0
    /\ round' = 1
    /\ link' \in {"none", "up"}
    /\ idle' = 0
    /\ UNCHANGED <<cur, outcome, ghidraVars>>

ReconnectFails ==
    /\ pc = "reconnect"
    /\ Return("lost")
    /\ UNCHANGED <<linkVars, ghidraVars>>

Client ==
    \/ SendDelivered \/ SendVanishes \/ SendFails
    \/ ReceiveReply \/ ReceiveTorn \/ ReceiveFails
    \/ ReconnectSucceeds \/ ReconnectFails

-----------------------------------------------------------------------------
(* Ghidra, the network and time.                                           *)

\* The plugin runs the handler and answers.
Execute ==
    /\ inbox = "held"
    /\ inbox' = "empty"
    /\ executed' = [executed EXCEPT ![cur] = @ + 1]
    /\ reply' \in {"ok", "5xx"}
    /\ UNCHANGED <<clientVars, linkVars, ghidra, orphans>>

\* It runs a request whose client has given up; nobody reads the response.
ExecuteOrphan(r) ==
    /\ orphans[r] > 0
    /\ orphans' = [orphans EXCEPT ![r] = @ - 1]
    /\ executed' = [executed EXCEPT ![r] = @ + 1]
    /\ UNCHANGED <<clientVars, linkVars, ghidra, inbox, reply>>

\* The server drops a connection that was idle for long enough.
ExpireIdle ==
    /\ link = "up"
    /\ pc # "recv"
    /\ idle >= ServerIdle
    /\ link' = "expired"
    /\ UNCHANGED <<clientVars, idle, ghidraVars>>

\* Time between calls.  idle stops at ServerIdle: more makes no difference.
Tick ==
    /\ pc = "free"
    /\ link # "none"
    /\ idle < ServerIdle
    /\ idle' = idle + 1
    /\ UNCHANGED <<clientVars, link, ghidraVars>>

\* Ghidra exits: what it held is gone, a response may be cut short, unless
\* all of it has already left.
Crash ==
    /\ ghidra = "up"
    /\ ghidra' = "down"
    /\ link' = IF link = "none" THEN "none" ELSE "dead"
    /\ inbox' = "empty"
    /\ reply' \in (IF reply = "none" THEN {"none"} ELSE {"none", reply, "torn"})
    /\ orphans' = [r \in Requests |-> 0]
    /\ UNCHANGED <<clientVars, idle, executed>>

Restart ==
    /\ ghidra = "down"
    /\ ghidra' = "up"
    /\ UNCHANGED <<clientVars, linkVars, inbox, reply, orphans, executed>>

Environment ==
    \/ Execute \/ (\E r \in Requests : ExecuteOrphan(r))
    \/ ExpireIdle \/ Tick \/ Crash \/ Restart

Next == (\E r \in Requests : Call(r)) \/ Client \/ Environment

Spec == Init /\ [][Next]_vars

\* The bridge's own thread goes on, and a socket operation ends: it succeeds,
\* fails or times out.  Nothing is assumed of Ghidra, the network or time.
FairSpec == Spec /\ WF_vars(Client)

-----------------------------------------------------------------------------
(* Properties.                                                             *)

\* Copies of a request that have run or still may.
Copies(r) == executed[r] + orphans[r] + (IF inbox = "held" /\ r = cur THEN 1 ELSE 0)

(* A write reaches the program at most once, whatever is lost, torn, timed *)
(* out, resent or restarted: RetryPolicy and SendFailed (client.py:51-65). *)
WriteAtMostOnce == \A r \in Post : Copies(r) <= 1

(* What the caller is told of a write is so: one that was answered has run *)
(* once and no copy of it waits in the plugin, for the annotator verifies  *)
(* a rename right after its answer; one that ended in SendFailed never     *)
(* runs (client.py:57-59); and one that takes effect late, after its       *)
(* caller has moved on, is one the caller was told failed after the send.  *)
ReportsAreTrue ==
    \A r \in Post :
        /\ outcome[r] = "answered" => executed[r] = 1 /\ Copies(r) = 1
        /\ outcome[r] = "unsent" => Copies(r) = 0
        /\ orphans[r] > 0 => outcome[r] = "lost"

(* A request is never written to a socket the server has dropped for being *)
(* idle, so a POST is never lost to a stale keep-alive connection: the     *)
(* idle check of _connection (client.py:106-107).                          *)
NoKeepAliveRace == pc = "recv" => link # "expired"

(* The retries of request() and of _send multiply, and one read can load   *)
(* the plugin with no more than both loops allow: 3 runs per round.        *)
LoadIsBounded == \A r \in Requests : Copies(r) <= 6

(* Whatever Ghidra does, a call comes back to its caller.                  *)
EveryCallReturns == cur # NoReq ~> cur = NoReq

-----------------------------------------------------------------------------
(* The calls the rest of the bridge sees.                                  *)

StatusOf(r) ==
    CASE outcome[r] = "none" -> (IF r = cur THEN "open" ELSE "new")
      [] outcome[r] \in {"lost", "raised"} -> "failed"
      [] OTHER -> outcome[r]

RC == INSTANCE RemoteCall
        WITH status <- [r \in Requests |-> StatusOf(r)], runs <- executed

(* The client implements RemoteCall.                                       *)
ImplementsRemoteCall == RC!Spec

-----------------------------------------------------------------------------
(* The inductive invariant behind the safety properties.                   *)

\* Where the call in progress and the loop counters can be.
ControlInv ==
    /\ pc = "free" <=> cur = NoReq
    /\ pc = "free" => attempt = 0 /\ round = 0
    /\ cur # NoReq => outcome[cur] = "none" /\ attempt < Attempts(cur)
    /\ cur \in Post \union Probe => round = 0 /\ pc # "reconnect"
    /\ pc = "reconnect" => round = 0

\* What can be on the wire.
WireInv ==
    /\ inbox = "held" => pc = "recv" /\ reply = "none" /\ link = "up" /\ ghidra = "up"
    /\ reply # "none" => pc = "recv" /\ executed[cur] > 0
    /\ pc = "recv" => link \in {"up", "dead"}
    /\ link = "expired" => idle >= ServerIdle

\* How many copies of a POST there can be, by what its caller knows.
PostInv ==
    \A r \in Post :
        /\ outcome[r] = "none" =>
             /\ orphans[r] = 0
             /\ executed[r] <= 1
             /\ executed[r] = 1 => r = cur /\ pc = "recv" /\ inbox = "empty"
        /\ outcome[r] \in {"answered", "raised"} => executed[r] = 1 /\ orphans[r] = 0
        /\ outcome[r] = "unsent" => executed[r] = 0 /\ orphans[r] = 0
        /\ outcome[r] = "lost" => executed[r] + orphans[r] <= 1

\* How many copies of any request there can be, by where its retries stand.
LoadInv ==
    \A r \in Requests :
        /\ Copies(r) <= 6
        /\ r # cur /\ outcome[r] = "none" => Copies(r) = 0
        /\ r = cur => Copies(r) <= 3 * round + attempt +
                                   (IF pc \in {"recv", "reconnect"} THEN 1 ELSE 0)

ClientInv == TypeOK /\ ControlInv /\ WireInv /\ PostInv /\ LoadInv
=============================================================================
