--------------------------- MODULE RemoteTunnels ---------------------------
(***************************************************************************)
(* Remote endpoints: the tunnels of SshTunnelRuntime and the attachments   *)
(* that RemoteNodeAttachmentOrchestrator keeps over them.                  *)
(*                                                                         *)
(* A tunnel is an SSH session and a local server that forwards to it; it   *)
(* is named by the attach call that opened it.  The runtime knows only one *)
(* tunnel of an endpoint, and its close events name the endpoint, not the  *)
(* tunnel.  Calls, events and connections interleave at every await.       *)
(***************************************************************************)
EXTENDS Naturals, FiniteSets

CONSTANTS
    Endpoints,
    Calls,          \* attach calls
    None,           \* no tunnel, no endpoint
    MaxDetaches,    \* BOUND: detach calls
    MaxFaults       \* BOUND: lost sessions, failed probes and connects, broken streams

ASSUME TunnelAssumption ==
    /\ None \notin Calls /\ None \notin Endpoints
    /\ MaxDetaches \in Nat /\ MaxFaults \in Nat

VARIABLES
    call,           \* where each attach call is, its endpoint, the tunnel it was given
    server, client, \* of each tunnel: the forward server and the SSH session
    tunnels,        \* SshTunnelRuntime.tunnels
    attachments,    \* the tunnel of each entry of the orchestrator's map
    nodes,          \* remote nodes attached to the aggregator
    streams,        \* tunnels that carry the event stream of an attachment
    exit,           \* the orchestrator's close(): endpoints left, tunnel awaited
    detaches, faults,
    overlapped,     \* history: endpoints with two attach calls under way at once
    disturbed       \* history: endpoints that were busy when something else began

vars == <<call, server, client, tunnels, attachments, nodes, streams, exit,
          detaches, faults, overlapped, disturbed>>
tunnelVars == <<server, client, tunnels>>
attachVars == <<attachments, nodes, streams>>
historyVars == <<overlapped, disturbed>>

\* "answered": the health check has been answered, its continuation has not run;
\* "failing": the catch awaits closeTunnel.
UnderWay == {"connecting", "listening", "probing", "answered", "failing"}

TypeOK ==
    /\ call \in [Calls -> [at : {"new", "ended"} \cup UnderWay,
                           ep : Endpoints \cup {None}, tunnel : Calls \cup {None}]]
    /\ server \in [Calls -> {"none", "listening", "closing", "closed"}]
    /\ client \in [Calls -> {"none", "up", "ending", "gone"}]
    /\ tunnels \in [Endpoints -> Calls \cup {None}]
    /\ attachments \in [Endpoints -> Calls \cup {None}]
    /\ nodes = {e \in Endpoints : attachments[e] # None}
    /\ \A e \in Endpoints, h \in Calls :
           tunnels[e] = h => call[h].ep = e /\ server[h] = "listening"
    /\ streams \subseteq {attachments[e] : e \in Endpoints} \ {None}
    /\ exit \in [at : {"no", "closing", "exited"},
                 left : SUBSET Endpoints, awaits : Calls \cup {None}]
    /\ detaches \in 0 .. MaxDetaches /\ faults \in 0 .. MaxFaults
    /\ overlapped \subseteq disturbed /\ disturbed \subseteq Endpoints

Init ==
    /\ call = [c \in Calls |-> [at |-> "new", ep |-> None, tunnel |-> None]]
    /\ server = [c \in Calls |-> "none"] /\ client = [c \in Calls |-> "none"]
    /\ tunnels = [e \in Endpoints |-> None]
    /\ attachments = [e \in Endpoints |-> None]
    /\ nodes = {} /\ streams = {}
    /\ exit = [at |-> "no", left |-> {}, awaits |-> None]
    /\ detaches = 0 /\ faults = 0
    /\ overlapped = {} /\ disturbed = {}

Of(e) == {c \in Calls : call[c].ep = e}
Attaching(e) == \E c \in Of(e) : call[c].at \in UnderWay
Closing(e) == \E h \in Of(e) : server[h] = "closing"
Over(h) == {c \in Calls : call[c].tunnel = h}

Busy(e) == Attaching(e) \/ Closing(e)

\* Something new happens to e.
Disturb(e) == disturbed' = IF Busy(e) THEN disturbed \cup {e} ELSE disturbed

Fault == faults < MaxFaults /\ faults' = faults + 1
NoFault == UNCHANGED faults

-----------------------------------------------------------------------------
(* What the operations share.                                              *)

\* closeTunnel(e) up to its await.  Awaited(e) is what a caller waits for.
Awaited(e) == tunnels[e]
CloseTunnel(e) ==
    /\ tunnels' = [tunnels EXCEPT ![e] = None]
    /\ server' = [h \in Calls |-> IF h = tunnels[e] THEN "closing" ELSE server[h]]

\* Mutant: the aggregator keeps the node.
DetachedButNode(e) ==
    /\ attachments' = [attachments EXCEPT ![e] = None]
    /\ streams' = streams \ {attachments[e]}
    /\ UNCHANGED nodes

\* Mutant: the source is not stopped.
DetachedStreaming(e) ==
    /\ attachments' = [attachments EXCEPT ![e] = None]
    /\ nodes' = nodes \ {e}
    /\ UNCHANGED streams

\* detachEndpoint(e) without its closeTunnel.
Detached(e) ==
    /\ attachments' = [attachments EXCEPT ![e] = None]
    /\ nodes' = nodes \ {e}
    /\ streams' = streams \ {attachments[e]}

\* Mutant: the tunnel is left open.
CatchOnly(c) ==
    call' = [call EXCEPT ![c].at = "ended"] /\ UNCHANGED <<server, tunnels>>

\* attachEndpoint's catch: it closes whatever tunnel the endpoint has by now.
Catch(c) ==
    LET e == call[c].ep IN
    /\ CloseTunnel(e)
    /\ call' = [call EXCEPT ![c] =
           IF Awaited(e) = None THEN [@ EXCEPT !.at = "ended"]
           ELSE [@ EXCEPT !.at = "failing", !.tunnel = Awaited(e)]]

-----------------------------------------------------------------------------
(* attachEndpoint, from one await to the next.                             *)

Attach(c, e) ==
    /\ call[c].at = "new"
    /\ call' = [call EXCEPT ![c] =
           [at |-> IF attachments[e] # None THEN "ended"
                   ELSE IF tunnels[e] # None THEN "probing" ELSE "connecting",
            ep |-> e,
            tunnel |-> IF attachments[e] # None THEN None ELSE tunnels[e]]]
    /\ Disturb(e)
    /\ overlapped' = IF Attaching(e) THEN overlapped \cup {e} ELSE overlapped
    /\ UNCHANGED <<tunnelVars, attachVars, exit, detaches, faults>>

Connected(c) ==
    /\ call[c].at = "connecting"
    /\ call' = [call EXCEPT ![c].at = "listening"]
    /\ client' = [client EXCEPT ![c] = "up"]
    /\ UNCHANGED <<server, tunnels, attachVars, exit, detaches, faults, historyVars>>

\* No host key, no private key, refused or timed out.
ConnectFails(c) ==
    /\ call[c].at = "connecting"
    /\ Fault
    /\ call' = [call EXCEPT ![c].at = "ended"]
    /\ UNCHANGED <<tunnelVars, attachVars, exit, detaches, historyVars>>

\* The handlers of the session are registered here; the map is overwritten.
Listen(c) ==
    LET e == call[c].ep IN
    /\ call[c].at = "listening"
    /\ server' = [server EXCEPT ![c] = "listening"]
    /\ tunnels' = [tunnels EXCEPT ![e] = c]
    /\ call' = [call EXCEPT ![c].at = "probing", ![c].tunnel = c]
    /\ UNCHANGED <<client, attachVars, exit, detaches, faults, historyVars>>

ListenFails(c) ==
    /\ call[c].at = "listening"
    /\ Fault
    /\ call' = [call EXCEPT ![c].at = "ended"]
    /\ client' = [client EXCEPT ![c] = IF @ = "up" THEN "ending" ELSE @]
    /\ UNCHANGED <<server, tunnels, attachVars, exit, detaches, historyVars>>

ProbeAnswered(c) ==
    /\ call[c].at = "probing"
    /\ client[call[c].tunnel] = "up"
    /\ server[call[c].tunnel] # "closed"
    /\ call' = [call EXCEPT ![c].at = "answered"]
    /\ UNCHANGED <<tunnelVars, attachVars, exit, detaches, faults, historyVars>>

\* ensureHealthy throws: no answer in 5 s, or not one that says ok.
ProbeFails(c) ==
    LET h == call[c].tunnel IN
    /\ call[c].at = "probing"
    /\ IF client[h] = "up" /\ server[h] = "listening" THEN Fault ELSE NoFault
    /\ Catch(c)
    /\ UNCHANGED <<client, attachVars, exit, detaches, historyVars>>

\* The rest of attachEndpoint; attachNode throws if the node is attached.  The
\* stream may start over a kept-alive connection of a server that is closing.
Attached(c) ==
    LET e == call[c].ep
        h == call[c].tunnel
    IN
    /\ call[c].at = "answered"
    /\ \/ /\ e \notin nodes
          /\ nodes' = nodes \cup {e}
          /\ attachments' = [attachments EXCEPT ![e] = h]
          /\ \/ /\ client[h] = "up" /\ server[h] # "closed"
                /\ streams' = streams \cup {h}
             \/ /\ server[h] # "listening" \/ client[h] # "up"
                /\ UNCHANGED streams
          /\ call' = [call EXCEPT ![c].at = "ended"]
          /\ UNCHANGED <<server, tunnels>>
       \/ /\ e \in nodes
          /\ Catch(c)
          /\ UNCHANGED attachVars
    /\ UNCHANGED <<client, exit, detaches, faults, historyVars>>

-----------------------------------------------------------------------------
(* The other callers of detachEndpoint and closeTunnel.                    *)

\* POST /remote/detach.
Detach(e) ==
    /\ detaches < MaxDetaches /\ detaches' = detaches + 1
    /\ Detached(e)
    /\ CloseTunnel(e)
    /\ Disturb(e)
    /\ UNCHANGED <<client, call, exit, faults, overlapped>>

\* closeServer's callback, once no connection is left: the session is ended,
\* the close event detaches whatever the endpoint has, and who waited goes on.
ServerClosed(h) ==
    LET e == call[h].ep IN
    /\ server[h] = "closing"
    /\ h \notin streams
    /\ client[h] = "up" => \A c \in Over(h) : call[c].at # "probing"
    /\ server' = [server EXCEPT ![h] = "closed"]
    /\ client' = [client EXCEPT ![h] = IF @ = "up" THEN "ending" ELSE @]
    /\ Detached(e)
    /\ call' = [c \in Calls |->
           IF call[c].at = "failing" /\ call[c].tunnel = h
           THEN [call[c] EXCEPT !.at = "ended"] ELSE call[c]]
    /\ exit' = IF exit.awaits = h THEN [exit EXCEPT !.awaits = None] ELSE exit
    /\ UNCHANGED <<tunnels, detaches, faults, historyVars>>

\* Mutant: the tunnel is forgotten, and no close event follows.
DropTunnel(h) ==
    /\ tunnels' = [tunnels EXCEPT ![call[h].ep] = None]
    /\ server' = [server EXCEPT ![h] = "closed"]
    /\ UNCHANGED disturbed

\* Mutant: nobody listens to the session.
IgnoreEvent(h) == UNCHANGED <<server, tunnels, disturbed>>

\* The handlers of h's session call closeTunnel with the endpoint's id.
OnSessionEvent(h) ==
    LET e == call[h].ep IN
    IF server[h] = "none" THEN UNCHANGED <<server, tunnels, disturbed>>
    ELSE /\ CloseTunnel(e)
         /\ disturbed' = IF tunnels[e] \notin {None, h} \/ (tunnels[e] = h /\ Busy(e))
                         THEN disturbed \cup {e} ELSE disturbed

\* The session breaks, with an `error' event or without one.
SessionLost(h) ==
    /\ client[h] = "up"
    /\ Fault
    /\ client' = [client EXCEPT ![h] = "ending"]
    /\ streams' = streams \ {h}
    /\ OnSessionEvent(h) \/ UNCHANGED <<server, tunnels, disturbed>>
    /\ UNCHANGED <<call, attachments, nodes, exit, detaches, overlapped>>

\* Its `close' event.
SessionClosed(h) ==
    /\ client[h] = "ending"
    /\ client' = [client EXCEPT ![h] = "gone"]
    /\ OnSessionEvent(h)
    /\ UNCHANGED <<call, attachVars, exit, detaches, faults, overlapped>>

\* The remote end of a stream goes away, and SseSourceAdapter connects again.
StreamBroken(h) ==
    /\ h \in streams
    /\ Fault
    /\ streams' = streams \ {h}
    /\ UNCHANGED <<call, tunnelVars, attachments, nodes, exit, detaches, historyVars>>

Reconnect(e) ==
    LET h == attachments[e] IN
    /\ h # None /\ h \notin streams
    /\ server[h] = "listening" /\ client[h] = "up"
    /\ streams' = streams \cup {h}
    /\ UNCHANGED <<call, tunnelVars, attachments, nodes, exit, detaches, faults,
                   historyVars>>

-----------------------------------------------------------------------------
(* close(), at the shutdown of the server.                                 *)

Shutdown ==
    /\ exit.at = "no"
    /\ exit' = [at |-> "closing", awaits |-> None,
                left |-> {e \in Endpoints : attachments[e] # None}]
    /\ UNCHANGED <<call, tunnelVars, attachVars, detaches, faults, historyVars>>

ShutdownNext(e) ==
    /\ exit.at = "closing" /\ exit.awaits = None
    /\ e \in exit.left
    /\ exit' = [exit EXCEPT !.left = @ \ {e}, !.awaits = Awaited(e)]
    /\ Detached(e)
    /\ CloseTunnel(e)
    /\ Disturb(e)
    /\ UNCHANGED <<client, call, detaches, faults, overlapped>>

ShutdownEnd ==
    /\ exit.at = "closing" /\ exit.awaits = None /\ exit.left = {}
    /\ exit' = [exit EXCEPT !.at = "exited"]
    /\ UNCHANGED <<call, tunnelVars, attachVars, detaches, faults, historyVars>>

-----------------------------------------------------------------------------
CallStep(c) ==
    \/ Connected(c) \/ ConnectFails(c) \/ Listen(c) \/ ListenFails(c)
    \/ ProbeAnswered(c) \/ ProbeFails(c) \/ Attached(c)
TunnelStep(h) == ServerClosed(h) \/ SessionClosed(h)
ShutdownStep == ShutdownEnd \/ \E e \in Endpoints : ShutdownNext(e)

Next ==
    /\ exit.at # "exited"
    /\ \/ \E c \in Calls, e \in Endpoints : Attach(c, e)
       \/ \E c \in Calls :
              CallStep(c) \/ TunnelStep(c) \/ SessionLost(c) \/ StreamBroken(c)
       \/ \E e \in Endpoints : Detach(e) \/ Reconnect(e)
       \/ Shutdown \/ ShutdownStep

Spec == Init /\ [][Next]_vars

Live == exit.at # "exited"
Fairness ==
    /\ \A c \in Calls : WF_vars(Live /\ CallStep(c)) /\ WF_vars(Live /\ TunnelStep(c))
    /\ WF_vars(Live /\ ShutdownStep)
FairSpec == Spec /\ Fairness

-----------------------------------------------------------------------------
(* Properties.  An endpoint is disturbed once a call, a detach or the loss  *)
(* of its session met another operation on it that was under way, or the    *)
(* end of a former session closed its tunnel: what a lock per endpoint and  *)
(* an event that names its tunnel would prevent.                            *)

\* An attachment has the tunnel it was given, in the map or about to close and
\* then to take the attachment with it, unless operations on its endpoint met:
\* attachEndpoint, closeTunnel and the close events agree across their awaits.
AttachmentsBacked ==
    \A e \in Endpoints \ disturbed :
        attachments[e] # None =>
            tunnels[e] = attachments[e] \/ server[attachments[e]] = "closing"

\* No local server forwards unknown to the runtime, unless two attach calls of
\* its endpoint overlapped and one tunnel took the other's entry; and a tunnel
\* whose session ended unnoticed, before its handlers were there, is only in the
\* map while a health check is about to find out.
TunnelsAccounted ==
    /\ \A h \in Calls :
           server[h] = "listening" =>
               tunnels[call[h].ep] = h \/ call[h].ep \in overlapped
    /\ \A e \in Endpoints, h \in Calls :
           tunnels[e] = h /\ client[h] = "gone" =>
               \E c \in Over(h) : call[c].at = "probing"

\* A server that closes is not held open by the stream of an attachment, which
\* would hang whoever awaits closeTunnel, unless operations on its endpoint met.
ClosingIsIdle ==
    \A h \in streams : server[h] = "closing" => call[h].ep \in disturbed

\* Every attach call is answered and every attachment whose session ended is
\* taken away, unless operations on its endpoint met or the server exits.
Settles ==
    /\ \A c \in Calls :
           call[c].at \in UnderWay ~>
               call[c].at = "ended" \/ call[c].ep \in disturbed \/ ~Live
    /\ \A h \in Calls, e \in Endpoints :
           attachments[e] = h /\ client[h] = "gone" ~>
               attachments[e] # h \/ e \in disturbed \/ ~Live
=============================================================================
