---------------------------- MODULE BridgeSetup ----------------------------
(***************************************************************************)
(* BridgeSetupManager, for one host: the SSH session over which a bridge   *)
(* is installed and which then carries its reverse tunnel.                 *)
(*                                                                         *)
(* A setup is a bridge object; it makes a new SSH client for each retry,   *)
(* and runSetup is a worker per client, from one await to the next.  So    *)
(* are the two routes that finish an installation that stopped for a sudo  *)
(* password.  Nothing stops a worker but a check of `closing' or a command *)
(* that fails because its session has ended.                               *)
(***************************************************************************)
EXTENDS Naturals, FiniteSets

CONSTANTS
    Calls,          \* requests of /sudo-password and /skip-sudo
    MaxAttempts,    \* BRIDGE_AUTO_RETRY_MAX_ATTEMPTS
    MaxSetups,      \* BOUND: setups
    MaxClients,     \* BOUND: SSH clients, of setups and retries
    MaxFailures     \* BOUND: lost sessions and commands that fail

ASSUME SetupAssumption ==
    /\ MaxAttempts \in Nat /\ MaxFailures \in Nat
    /\ MaxSetups \in Nat \ {0} /\ MaxClients \in Nat \ {0}
    /\ IsFiniteSet(Calls) /\ Calls \cap Nat = {}

Setups == 1 .. MaxSetups
Clients == 1 .. MaxClients
Workers == Clients \cup Calls

VARIABLES
    current,        \* the entry of `bridges', or 0
    bridge,         \* the ActiveBridge of each setup
    timers,         \* retry timers of each setup that will fire
    link,           \* the session of each client
    owner,          \* its setup
    heard,          \* clients with the handlers of runSetup's end
    work,           \* where each worker is, its setup and the client it waits for
    faults,
    \* history
    orphans,        \* clients that were ended before they began to connect
    unheard,        \* clients whose end nobody could hear, or whose work broke off
    crossed         \* setups with two workers, or a close after its retry

setupVars == <<current, bridge, timers, link, owner, heard, work, faults,
          orphans, unheard, crossed>>
history == <<orphans, unheard, crossed>>

Busy == {"connecting", "ssh_test", "installing"}
Resting == {"tunnel_open", "needs_sudo_password", "running", "telemetry_active"}
Phases == Busy \cup Resting \cup {"error", "disconnected"}

\* The awaits of a worker: "resolving" .. "forwarding" and "checking", "updating"
\* are runSetup's, "asking" and "restarting" the password route's.
Awaits == {"resolving", "connecting", "testing", "forwarding", "checking", "updating",
           "asking", "restarting", "uploading", "scripting", "identifying", "verifying"}

\* "broken": its error event has come, its close event has not; "ending": end()
\* was called, what the other side sent before may still come in.
Links == {"new", "connecting", "up", "broken", "ending", "gone"}

ActiveBridge ==
    [status : Phases \cup {"none"}, closing : BOOLEAN, client : 0 .. MaxClients,
     pending : BOOLEAN, retryAttempt : 0 .. MaxAttempts]
Worker ==
    [at : {"none", "ended"} \cup Awaits, of : 0 .. MaxSetups, on : 0 .. MaxClients,
     mode : {"setup", "system", "user", "fallback"}]

SetupTypeOK ==
    /\ current \in 0 .. MaxSetups
    /\ bridge \in [Setups -> ActiveBridge]
    /\ timers \in [Setups -> Nat]
    /\ link \in [Clients -> Links] /\ owner \in [Clients -> 0 .. MaxSetups]
    /\ heard \subseteq Clients
    /\ work \in [Workers -> Worker]
    /\ faults \in 0 .. MaxFailures
    /\ orphans \subseteq Clients /\ unheard \subseteq Clients /\ crossed \subseteq Setups
    /\ current # 0 => bridge[current].status # "none"
    /\ \A o \in Setups : bridge[o].closing => timers[o] = 0

SetupInit ==
    /\ current = 0
    /\ bridge = [o \in Setups |-> [status |-> "none", closing |-> FALSE, client |-> 0,
                                   pending |-> FALSE, retryAttempt |-> 0]]
    /\ timers = [o \in Setups |-> 0]
    /\ link = [k \in Clients |-> "new"] /\ owner = [k \in Clients |-> 0]
    /\ heard = {}
    /\ work = [w \in Workers |-> [at |-> "none", of |-> 0, on |-> 0, mode |-> "setup"]]
    /\ faults = 0
    /\ orphans = {} /\ unheard = {} /\ crossed = {}

UnderWay(o) == {w \in Workers : work[w].of = o /\ work[w].at \in Awaits}
Fresh(k) == owner[k] = 0 /\ \A j \in 1 .. k - 1 : owner[j] # 0

Fault == faults < MaxFailures /\ faults' = faults + 1
NoFault == UNCHANGED faults

Status(o, status) == bridge' = [bridge EXCEPT ![o].status = status]
NotPending(o) == bridge' = [bridge EXCEPT ![o].pending = FALSE]

\* The client a command is sent on; 0 if it cannot be sent.
On(k) == IF link[k] = "up" THEN k ELSE 0
Go(w, place, on) == work' = [work EXCEPT ![w].at = place, ![w].on = on]
End(w) == Go(w, "ended", 0)

Sent(w) == work[w].on # 0
Answers(w) == Sent(w) /\ link[work[w].on] \in {"up", "ending"}
MayFail(w) == IF Sent(w) /\ link[work[w].on] = "up" THEN Fault ELSE NoFault

-----------------------------------------------------------------------------
(* What the operations share.                                              *)

\* client.end()
Ended(k) == [link EXCEPT ![k] = IF @ \in {"connecting", "up"} THEN "ending" ELSE @]

\* Mutant: the session is left to the other side.
CleanupOpen(o) ==
    /\ timers' = [timers EXCEPT ![o] = 0]
    /\ UNCHANGED link
    /\ unheard' = IF UnderWay(o) = {} THEN unheard ELSE unheard \cup {bridge[o].client}

\* cleanupBridge, but for `closing'.
Cleanup(o) ==
    /\ timers' = [timers EXCEPT ![o] = 0]
    /\ link' = Ended(bridge[o].client)
    /\ unheard' = IF UnderWay(o) = {} THEN unheard ELSE unheard \cup {bridge[o].client}

\* Mutant: the attempts are not counted up to the limit.
RetriedForever(o, transient) == transient /\ ~bridge[o].pending

\* scheduleAutoRetry's early returns.
Retried(o, transient) ==
    transient /\ ~bridge[o].pending /\ bridge[o].retryAttempt < MaxAttempts

\* Mutant: the timer that is set already is not cleared.
ErroredUncleared(o, transient) ==
    IF bridge[o].closing THEN UNCHANGED <<bridge, timers>>
    ELSE LET n == IF Retried(o, transient) THEN 1 ELSE 0 IN
         /\ bridge' = [bridge EXCEPT ![o].status = "error", ![o].retryAttempt = @ + n]
         /\ timers' = [timers EXCEPT ![o] = @ + n]

\* Mutant: an error is noted only if there will be a retry.
ErroredQuietly(o, transient) ==
    IF bridge[o].closing \/ ~Retried(o, transient) THEN UNCHANGED <<bridge, timers>>
    ELSE /\ bridge' = [bridge EXCEPT ![o].status = "error", ![o].retryAttempt = @ + 1]
         /\ timers' = [timers EXCEPT ![o] = 1]

\* handleSetupFailure, and the handlers of the error and close events.
Errored(o, transient) ==
    IF bridge[o].closing THEN UNCHANGED <<bridge, timers>>
    ELSE LET n == IF Retried(o, transient) THEN 1 ELSE 0 IN
         /\ bridge' = [bridge EXCEPT ![o].status = "error", ![o].retryAttempt = @ + n]
         /\ timers' = [timers EXCEPT ![o] = IF n = 1 THEN 1 ELSE @]

\* The end of runSetup: resetRetryState and the handlers.  The routes have neither.
Finished(w, status) ==
    LET o == work[w].of IN
    IF w \in Clients
    THEN /\ bridge' = [bridge EXCEPT ![o].status = status, ![o].retryAttempt = 0]
         /\ timers' = [timers EXCEPT ![o] = 0]
         /\ heard' = heard \cup {w} /\ End(w)
    ELSE Status(o, status) /\ End(w) /\ UNCHANGED <<timers, heard>>

-----------------------------------------------------------------------------
(* The operator's requests.                                                *)

\* A client and its runSetup.
Start(k, o) ==
    /\ owner' = [owner EXCEPT ![k] = o]
    /\ work' = [work EXCEPT ![k] = [at |-> "resolving", of |-> o, on |-> 0, mode |-> "setup"]]

\* setup(): a bridge that is not closing, disconnected or in error is returned.
Setup(k, o) ==
    /\ Fresh(k) /\ bridge[o].status = "none" /\ \A p \in 1 .. o - 1 : bridge[p].status # "none"
    /\ current # 0 => bridge[current].closing \/ bridge[current].status = "error"
    /\ current' = o
    /\ bridge' = [p \in Setups |->
           IF p = o THEN [status |-> "connecting", closing |-> FALSE, client |-> k,
                          pending |-> FALSE, retryAttempt |-> 0]
           ELSE IF p = current THEN [bridge[p] EXCEPT !.closing = TRUE] ELSE bridge[p]]
    /\ IF current # 0 THEN Cleanup(current) ELSE UNCHANGED <<timers, link, unheard>>
    /\ Start(k, o)
    /\ UNCHANGED <<heard, faults, orphans, crossed>>

Disconnect ==
    /\ current # 0
    /\ bridge' = [bridge EXCEPT ![current].status = "disconnected", ![current].closing = TRUE]
    /\ Cleanup(current)
    /\ UNCHANGED <<current, owner, heard, work, faults, orphans, crossed>>

\* remove(), and closeAll() at the end of the server.
Remove ==
    /\ current # 0
    /\ current' = 0
    /\ bridge' = [bridge EXCEPT ![current].closing = TRUE]
    /\ Cleanup(current)
    /\ UNCHANGED <<owner, heard, work, faults, orphans, crossed>>

Route(c, at, on, mode) ==
    /\ work[c].at = "none"
    /\ current # 0
    /\ bridge[current].status = "needs_sudo_password" /\ bridge[current].pending
    /\ work' = [work EXCEPT ![c] = [at |-> at, of |-> current, on |-> on, mode |-> mode]]
    /\ crossed' = IF UnderWay(current) = {} THEN crossed ELSE crossed \cup {current}
    /\ UNCHANGED <<current, timers, link, owner, heard, faults, orphans, unheard>>

\* retryInstallWithSudoPassword; its first command throws without a session.
Password(c) ==
    /\ Route(c, "asking", bridge[current].client, "system")
    /\ link[bridge[current].client] = "up"
    /\ UNCHANGED bridge

\* retryInstallUserMode
SkipSudo(c) ==
    /\ Route(c, "uploading", On(bridge[current].client), "user")
    /\ Status(current, "installing")

-----------------------------------------------------------------------------
(* runSetup.                                                               *)

Keep == UNCHANGED <<current, owner, crossed>>

\* The key and the host are read, and the client connects, whatever has become
\* of its bridge.
Resolved(k) ==
    LET o == work[k].of IN
    /\ work[k].at = "resolving"
    /\ link' = [link EXCEPT ![k] = "connecting"]
    /\ Go(k, "connecting", k)
    /\ orphans' = IF bridge[o].closing \/ bridge[o].client # k THEN orphans \cup {k} ELSE orphans
    /\ Keep /\ UNCHANGED <<bridge, timers, heard, faults, unheard>>

ResolveFails(k) ==
    /\ work[k].at = "resolving"
    /\ Fault
    /\ Errored(work[k].of, FALSE) /\ End(k)
    /\ Keep /\ UNCHANGED <<link, heard, orphans, unheard>>

Connected(k) ==
    LET o == work[k].of IN
    /\ work[k].at = "connecting" /\ link[k] = "connecting"
    /\ link' = [link EXCEPT ![k] = "up"]
    /\ IF bridge[o].closing THEN End(k) /\ UNCHANGED bridge
       ELSE Go(k, "testing", k) /\ Status(o, "ssh_test")
    /\ Keep /\ UNCHANGED <<timers, heard, faults, orphans, unheard>>

\* Refused, reset, or no answer in 15 s.
ConnectFails(k) ==
    /\ work[k].at = "connecting"
    /\ IF link[k] = "connecting" THEN Fault ELSE NoFault
    /\ link' = [link EXCEPT ![k] = "gone"]
    /\ \E transient \in BOOLEAN : Errored(work[k].of, transient)
    /\ End(k)
    /\ Keep /\ UNCHANGED <<heard, orphans, unheard>>

Tested(k) ==
    /\ work[k].at = "testing" /\ Answers(k)
    /\ Go(k, "forwarding", On(k))
    /\ Keep /\ UNCHANGED <<bridge, timers, link, heard, faults, orphans, unheard>>

\* The reverse tunnel is open.
Forwarded(k) ==
    LET o == work[k].of IN
    /\ work[k].at = "forwarding" /\ Answers(k)
    /\ IF bridge[o].closing THEN End(k) /\ UNCHANGED bridge
       ELSE Go(k, "checking", On(k)) /\ Status(o, "tunnel_open")
    /\ Keep /\ UNCHANGED <<timers, link, heard, faults, orphans, unheard>>

\* A command of runSetup cannot be sent, is not answered in time or fails.
RunFails(k) ==
    LET client == bridge[work[k].of].client
        timely == IF Sent(k) /\ link[work[k].on] = "up" THEN {TRUE, FALSE} ELSE {FALSE}
    IN
    /\ \/ work[k].at \in {"testing", "forwarding", "checking", "updating", "uploading"} /\ MayFail(k)
       \/ work[k].at = "verifying" /\ link[client] # "up" /\ NoFault
    /\ \E transient \in CASE work[k].at = "testing" -> timely
                          [] work[k].at = "uploading" /\ Sent(k) -> BOOLEAN
                          [] OTHER -> {FALSE} :
           Errored(work[k].of, transient)
    /\ End(k)
    /\ Keep /\ UNCHANGED <<link, heard, orphans, unheard>>

-----------------------------------------------------------------------------
(* tryInstallBridge.  Its commands are taken together as far as only the   *)
(* last one decides; a session that ends makes a command fail like any     *)
(* other answer, and only the next one throw.                              *)

\* The service runs already; bundle and configuration are brought up to date.
Found(k) ==
    /\ work[k].at = "checking" /\ Answers(k)
    /\ Go(k, "updating", On(k))
    /\ Keep /\ UNCHANGED <<bridge, timers, link, heard, faults, orphans, unheard>>

\* What runSetup does with a bridge that was not installed.
Skipped(w) ==
    IF bridge[work[w].of].closing THEN End(w) /\ UNCHANGED <<bridge, timers, heard>>
    ELSE Finished(w, "tunnel_open")

\* There is no install script.
Skip(k) ==
    /\ work[k].at = "checking" /\ Sent(k)
    /\ Skipped(k)
    /\ Keep /\ UNCHANGED <<link, faults, orphans, unheard>>

NeedsPassword(k) ==
    LET o == work[k].of IN
    /\ \/ work[k].at = "checking" /\ Answers(k)
       \/ work[k].at = "updating" /\ Sent(k)
    /\ IF bridge[o].closing
       THEN /\ bridge' = [bridge EXCEPT ![o].status = "needs_sudo_password", ![o].pending = TRUE]
            /\ UNCHANGED timers
       ELSE /\ bridge' = [bridge EXCEPT ![o].status = "needs_sudo_password", ![o].pending = TRUE,
                                        ![o].retryAttempt = 0]
            /\ timers' = [timers EXCEPT ![o] = 0]
    /\ End(k)
    /\ Keep /\ UNCHANGED <<link, heard, faults, orphans, unheard>>

Install(k) ==
    LET o == work[k].of IN
    /\ work[k].at = "checking" /\ Sent(k)
    /\ Status(o, "installing")
    /\ Go(k, "uploading", On(bridge[o].client))
    /\ Keep /\ UNCHANGED <<timers, link, heard, faults, orphans, unheard>>

AlreadyRunning(k) ==
    /\ work[k].at = "updating" /\ Sent(k)
    /\ IF bridge[work[k].of].closing THEN End(k) ELSE Go(k, "identifying", On(k))
    /\ Keep /\ UNCHANGED <<bridge, timers, link, heard, faults, orphans, unheard>>

Uploaded(w) ==
    /\ work[w].at = "uploading" /\ Answers(w)
    /\ Go(w, "scripting", On(bridge[work[w].of].client))
    /\ Keep /\ UNCHANGED <<bridge, timers, link, heard, faults, orphans, unheard>>

\* runInstallScript returns "installed"; a route has used its pending input.
Installed(w) ==
    LET o == work[w].of IN
    /\ work[w].at = "scripting" /\ Answers(w)
    /\ work[w].mode = "user" => bridge[o].pending
    /\ IF w \in Calls THEN NotPending(o) ELSE UNCHANGED bridge
    /\ IF bridge[o].closing THEN End(w)
       ELSE Go(w, "identifying", On(IF w \in Calls THEN bridge[o].client ELSE w))
    /\ Keep /\ UNCHANGED <<timers, link, heard, faults, orphans, unheard>>

\* It returns "skipped", also for a session that ended.  With a password the
\* user-mode installation follows.
NotInstalled(w) ==
    LET o == work[w].of IN
    /\ work[w].at = "scripting"
    /\ IF work[w].mode = "user" /\ ~bridge[o].pending THEN NoFault ELSE MayFail(w)
    /\ IF work[w].mode = "system"
       THEN /\ NotPending(o)
            /\ work' = [work EXCEPT ![w].at = "uploading", ![w].mode = "fallback",
                                    ![w].on = On(bridge[o].client)]
            /\ UNCHANGED <<timers, heard>>
       ELSE IF w \in Calls
       THEN /\ bridge' = [bridge EXCEPT ![o].pending = FALSE,
                                        ![o].status = IF bridge[o].closing THEN @ ELSE "tunnel_open"]
            /\ End(w) /\ UNCHANGED <<timers, heard>>
       ELSE Skipped(w)
    /\ Keep /\ UNCHANGED <<link, orphans, unheard>>

\* tryGetMachineId never throws, and nobody looks at `closing' here.
Identified(w) ==
    /\ work[w].at = "identifying"
    /\ Status(work[w].of, "running")
    /\ Go(w, "verifying", 0)
    /\ Keep /\ UNCHANGED <<timers, link, heard, faults, orphans, unheard>>

\* verifyTelemetry: a health check over the tunnel succeeds, or the time is over.
Verified(w) ==
    LET client == bridge[work[w].of].client IN
    /\ work[w].at = "verifying"
    /\ \/ link[client] \in {"up", "ending"} /\ Finished(w, "telemetry_active")
       \/ Finished(w, bridge[work[w].of].status)
    /\ Keep /\ UNCHANGED <<link, faults, orphans, unheard>>

-----------------------------------------------------------------------------
(* The routes.                                                             *)

\* The service runs: it is restarted.
AskedActive(c) ==
    /\ work[c].at = "asking" /\ Answers(c)
    /\ Status(work[c].of, "installing")
    /\ Go(c, "restarting", On(work[c].on))
    /\ Keep /\ UNCHANGED <<timers, link, heard, faults, orphans, unheard>>

\* It does not, or the session ended: it is installed.
AskedInactive(c) ==
    /\ work[c].at = "asking"
    /\ Status(work[c].of, "installing")
    /\ Go(c, "uploading", On(bridge[work[c].of].client))
    /\ Keep /\ UNCHANGED <<timers, link, heard, faults, orphans, unheard>>

ServiceRestarted(c) ==
    /\ work[c].at = "restarting" /\ Answers(c)
    /\ NotPending(work[c].of)
    /\ Go(c, "identifying", On(work[c].on))
    /\ Keep /\ UNCHANGED <<timers, link, heard, faults, orphans, unheard>>

RestartFails(c) ==
    /\ work[c].at = "restarting" /\ Sent(c)
    /\ MayFail(c)
    /\ bridge' = [bridge EXCEPT ![work[c].of].pending = FALSE, ![work[c].of].status = "error"]
    /\ End(c)
    /\ Keep /\ UNCHANGED <<timers, link, heard, orphans, unheard>>

\* A command throws: the route answers 500 and leaves everything as it is.
RouteFails(c) ==
    LET client == bridge[work[c].of].client IN
    /\ \/ work[c].at = "restarting" /\ ~Sent(c) /\ NoFault
       \/ work[c].at = "uploading" /\ MayFail(c)
       \/ work[c].at = "verifying" /\ link[client] # "up" /\ NoFault
    /\ unheard' = unheard \cup {client}
    /\ End(c)
    /\ Keep /\ UNCHANGED <<bridge, timers, link, heard, orphans>>

-----------------------------------------------------------------------------
(* The session, and the retry timer.                                       *)

\* An error event, before the close event that follows some time.
Broken(k) ==
    /\ link[k] = "up"
    /\ Fault
    /\ link' = [link EXCEPT ![k] = "broken"]
    /\ IF k \in heard THEN \E transient \in BOOLEAN : Errored(owner[k], transient)
       ELSE UNCHANGED <<bridge, timers>>
    /\ Keep /\ UNCHANGED <<heard, work, orphans, unheard>>

Closed(k) ==
    /\ link[k] \in {"up", "broken", "ending"} /\ work[k].at # "connecting"
    /\ IF link[k] = "up" THEN Fault ELSE NoFault
    /\ link' = [link EXCEPT ![k] = "gone"]
    /\ IF k \in heard THEN Errored(owner[k], TRUE) /\ UNCHANGED unheard
       ELSE unheard' = unheard \cup {k} /\ UNCHANGED <<bridge, timers>>
    /\ Keep /\ UNCHANGED <<heard, work, orphans>>

\* The callback of scheduleAutoRetry's timer.
Retry(o, k) ==
    LET old == bridge[o].client IN
    /\ timers[o] > 0 /\ ~bridge[o].closing
    /\ Fresh(k)
    /\ timers' = [timers EXCEPT ![o] = @ - 1]
    /\ link' = Ended(old)
    /\ bridge' = [bridge EXCEPT ![o].client = k, ![o].status = "connecting"]
    /\ Start(k, o)
    /\ crossed' = IF link[old] = "broken" /\ old \in heard THEN crossed \cup {o} ELSE crossed
    /\ UNCHANGED <<current, heard, faults, orphans, unheard>>

-----------------------------------------------------------------------------
RunStep(k) ==
    \/ Resolved(k) \/ ResolveFails(k) \/ Connected(k) \/ ConnectFails(k)
    \/ Tested(k) \/ Forwarded(k) \/ RunFails(k)
    \/ Found(k) \/ Skip(k) \/ NeedsPassword(k) \/ Install(k) \/ AlreadyRunning(k)

RouteStep(c) ==
    \/ AskedActive(c) \/ AskedInactive(c) \/ ServiceRestarted(c) \/ RestartFails(c) \/ RouteFails(c)

InstallStep(w) ==
    Uploaded(w) \/ Installed(w) \/ NotInstalled(w) \/ Identified(w) \/ Verified(w)

SetupNext ==
    \/ \E k \in Clients, o \in Setups : Setup(k, o) \/ Retry(o, k)
    \/ Disconnect \/ Remove
    \/ \E c \in Calls : Password(c) \/ SkipSudo(c) \/ RouteStep(c)
    \/ \E k \in Clients : RunStep(k) \/ Broken(k) \/ Closed(k)
    \/ \E w \in Workers : InstallStep(w)

SetupSpec == SetupInit /\ [][SetupNext]_setupVars

-----------------------------------------------------------------------------
(* Properties.                                                             *)

\* Every session that is open is the one of the listed bridge, which will end
\* it: no retry, failure, disconnect or removal leaves one (and its reverse
\* tunnel) behind - unless the client was given up before it began to connect,
\* which end() does not prevent.
SessionsOwned ==
    \A k \in Clients \ orphans :
        link[k] = "up" =>
            /\ current # 0 /\ owner[k] = current
            /\ bridge[current].client = k /\ ~bridge[current].closing

\* One thing at a time works on a bridge or waits to: its setup, a retry or a
\* route - unless a second route began during the first command of one, or the
\* close event of a session came after the retry its error event had caused.
OneAtATime ==
    \A o \in Setups \ crossed :
        ~bridge[o].closing => Cardinality(UnderWay(o)) + timers[o] <= 1

\* The status of a bridge that nothing works on is final and true: it says that
\* the tunnel is there only while its session is - unless the session ended
\* before runSetup had registered its handlers (never, after a password), a
\* route failed half-way, or the bridge was disconnected while one worked on it.
StatusIsTrue ==
    LET b == bridge[current] IN
    current # 0 /\ current \notin crossed /\ UnderWay(current) = {} /\ b.client \notin unheard =>
        /\ b.status \notin Busy
        /\ b.status \in Resting => link[b.client] # "gone"
=============================================================================
