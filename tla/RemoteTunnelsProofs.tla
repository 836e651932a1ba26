------------------------ MODULE RemoteTunnelsProofs ------------------------
(***************************************************************************)
(* Theorems about RemoteTunnels, for any endpoints, calls and bounds.      *)
(***************************************************************************)
EXTENDS RemoteTunnels, TLAPS

-----------------------------------------------------------------------------
(* Type correctness *)

\* A call under way has an endpoint; whoever holds a tunnel holds one of its
\* endpoint that has listened; a tunnel with a stream has its session.
Shape ==
    /\ \A c \in Calls : call[c].at = "new" <=> call[c].ep = None
    /\ \A c \in Calls :
           call[c].at \in {"new", "connecting", "listening"} => server[c] = "none"
    /\ \A c \in Calls :
           call[c].at \in {"probing", "answered", "failing"} => call[c].tunnel # None
    /\ \A c, h \in Calls :
           call[c].tunnel = h => call[h].ep = call[c].ep /\ server[h] # "none"
    /\ \A e \in Endpoints, h \in Calls :
           attachments[e] = h => call[h].ep = e /\ server[h] # "none"
    /\ \A h \in streams : client[h] = "up"

TypeInv == TypeOK /\ Shape

Call == [at : {"new", "ended"} \cup UnderWay,
         ep : Endpoints \cup {None}, tunnel : Calls \cup {None}]

\* The types, without the sets of functions.
LEMMA Types ==
    ASSUME TypeInv
    PROVE  /\ \A c \in Calls : call[c] \in Call
           /\ \A e \in Endpoints : tunnels[e] \in Calls \cup {None}
           /\ \A e \in Endpoints : attachments[e] \in Calls \cup {None}
           /\ None \notin Calls /\ None \notin Endpoints
           /\ streams \subseteq Calls
           /\ \A h \in streams : call[h].ep \in Endpoints /\ attachments[call[h].ep] = h
           /\ \A c \in Calls : call[c].at # "new" => call[c].ep \in Endpoints
           /\ \A c \in Calls : call[c].at \in {"probing", "answered", "failing"} =>
                  call[c].tunnel \in Calls
<1>1. /\ \A c \in Calls : call[c] \in Call
      /\ \A e \in Endpoints : tunnels[e] \in Calls \cup {None}
      /\ \A e \in Endpoints : attachments[e] \in Calls \cup {None}
  BY DEF TypeInv, TypeOK, Call
<1>2. None \notin Calls /\ None \notin Endpoints
  BY TunnelAssumption DEF TunnelAssumption
<1>3. /\ \A c \in Calls : call[c].at # "new" => call[c].ep \in Endpoints
      /\ \A c \in Calls : call[c].at \in {"probing", "answered", "failing"} =>
             call[c].tunnel \in Calls
  BY <1>1 DEF TypeInv, Shape, Call
<1>4. ASSUME NEW h \in streams
      PROVE  h \in Calls /\ call[h].ep \in Endpoints /\ attachments[call[h].ep] = h
  <2>1. PICK e \in Endpoints : attachments[e] = h /\ h # None
    BY DEF TypeInv, TypeOK
  <2> QED
    BY <1>1, <2>1 DEF TypeInv, Shape
<1> QED
  BY <1>1, <1>2, <1>3, <1>4

LEMMA TypeInit == Init => TypeInv
<1> SUFFICES ASSUME Init PROVE TypeInv
  OBVIOUS
<1> USE TunnelAssumption DEF TunnelAssumption, Init
<1>1. TypeOK
  BY DEF TypeOK
<1>2. Shape
  BY DEF Shape
<1> QED
  BY <1>1, <1>2 DEF TypeInv

\* The bounds are counted.
LEMMA Counts ==
    ASSUME TypeInv
    PROVE  /\ Fault => faults' \in 0 .. MaxFaults
           /\ detaches < MaxDetaches /\ detaches' = detaches + 1 =>
                  detaches' \in 0 .. MaxDetaches
  BY TunnelAssumption DEF TunnelAssumption, TypeInv, TypeOK, Fault

\* closeTunnel up to its await.
LEMMA Closes ==
    ASSUME TypeInv, NEW e \in Endpoints, CloseTunnel(e)
    PROVE  /\ server' \in [Calls -> {"none", "listening", "closing", "closed"}]
           /\ tunnels' \in [Endpoints -> Calls \cup {None}]
           /\ tunnels'[e] = None
           /\ \A f \in Endpoints : f # e => tunnels'[f] = tunnels[f]
           /\ \A h \in Calls : h = tunnels[e] => server[h] = "listening" /\ server'[h] = "closing"
                                                 /\ call[h].ep = e
           /\ \A h \in Calls : h # tunnels[e] => server'[h] = server[h]
           /\ \A f \in Endpoints, h \in Calls :
                  tunnels'[f] = h => call[h].ep = f /\ server'[h] = "listening"
  BY Types DEF CloseTunnel, TypeInv, TypeOK

\* detachEndpoint up to its closeTunnel.
LEMMA Detaches ==
    ASSUME TypeInv, NEW e \in Endpoints, Detached(e)
    PROVE  /\ attachments' \in [Endpoints -> Calls \cup {None}]
           /\ attachments'[e] = None
           /\ \A f \in Endpoints : f # e => attachments'[f] = attachments[f]
           /\ nodes' = {f \in Endpoints : attachments'[f] # None}
           /\ streams' \subseteq streams
           /\ \A h \in streams : call[h].ep # e => h \in streams'
           /\ \A h \in streams' : call[h].ep # e
           /\ streams' \subseteq {attachments'[f] : f \in Endpoints} \ {None}
<1>1. /\ attachments \in [Endpoints -> Calls \cup {None}]
      /\ nodes = {f \in Endpoints : attachments[f] # None}
  BY DEF TypeInv, TypeOK
<1>2. /\ attachments' \in [Endpoints -> Calls \cup {None}]
      /\ attachments'[e] = None
      /\ \A f \in Endpoints : f # e => attachments'[f] = attachments[f]
  BY <1>1 DEF Detached
<1>3. \A h \in streams : h \in Calls /\ call[h].ep \in Endpoints /\ attachments[call[h].ep] = h
  BY Types
<1>4. streams' = streams \ {attachments[e]} /\ nodes' = nodes \ {e}
  BY DEF Detached
<1>5. \A h \in streams' : h \in streams /\ call[h].ep # e
  BY <1>3, <1>4
<1>6. \A h \in streams : call[h].ep # e => h \in streams'
  <2>1. \A h \in Calls : attachments[e] = h => call[h].ep = e
    BY DEF TypeInv, Shape
  <2> QED
    BY <1>3, <1>4, <2>1
<1>7. streams' \subseteq {attachments'[f] : f \in Endpoints} \ {None}
  BY <1>2, <1>3, <1>5, Types
<1> QED
  BY <1>1, <1>2, <1>4, <1>5, <1>6, <1>7

LEMMA TypeAttach ==
    ASSUME TypeInv, NEW c \in Calls, NEW e \in Endpoints, Attach(c, e)
    PROVE  TypeInv'
<1> USE DEF Attach, tunnelVars, attachVars
<1>1. /\ call'[c].at \in {"ended", "probing", "connecting"} /\ call'[c].ep = e
      /\ call'[c].tunnel \in {None, tunnels[e]}
      /\ call'[c].at = "probing" => call'[c].tunnel # None
      /\ call'[c].at # "new"
      /\ \A d \in Calls \ {c} : call'[d] = call[d]
      /\ call' \in [Calls -> Call]
  <2>1. call \in [Calls -> Call] /\ tunnels[e] \in Calls \cup {None}
    BY DEF TypeInv, TypeOK, Call
  <2> DEFINE new == [at |-> IF attachments[e] # None THEN "ended"
                            ELSE IF tunnels[e] # None THEN "probing" ELSE "connecting",
                     ep |-> e,
                     tunnel |-> IF attachments[e] # None THEN None ELSE tunnels[e]]
  <2>2. /\ new.at \in {"ended", "probing", "connecting"} /\ new.ep = e
        /\ new.tunnel \in {None, tunnels[e]} /\ new \in Call
        /\ new.at = "probing" => new.tunnel # None
    BY <2>1 DEF Call, UnderWay
  <2>3. call' = [call EXCEPT ![c] = new]
    OBVIOUS
  <2> HIDE DEF new
  <2> QED
    BY <2>1, <2>2, <2>3
<1>2. call[c].ep = None /\ server[c] = "none" /\ \A f \in Endpoints : f # None
  BY Types DEF TypeInv, Shape
<1>3. \A f \in Endpoints, h \in Calls :
          /\ tunnels[f] = h => h # c /\ call[h].ep = f /\ server[h] = "listening"
          /\ attachments[f] = h => h # c
  BY <1>2 DEF TypeInv, TypeOK, Shape
<1>4. overlapped' \subseteq disturbed' /\ disturbed' \subseteq Endpoints
  <2>1. Attaching(e) => Busy(e)
    BY DEF Busy
  <2> QED
    BY <2>1 DEF TypeInv, TypeOK, Disturb
<1>5. TypeOK'
  BY <1>1, <1>3, <1>4 DEF TypeInv, TypeOK, Call
<1>6. \A d, h \in Calls : call'[d].tunnel = h => call'[h].ep = call'[d].ep /\ server[h] # "none"
  <2> SUFFICES ASSUME NEW d \in Calls, NEW h \in Calls, call'[d].tunnel = h
               PROVE  call'[h].ep = call'[d].ep /\ server[h] # "none"
    OBVIOUS
  <2>1. CASE d = c
    BY <1>1, <1>3, <2>1, Types
  <2>2. CASE d # c
    BY <1>1, <1>2, <2>2 DEF TypeInv, Shape
  <2> QED
    BY <2>1, <2>2
<1>7. Shape'
  BY <1>1, <1>2, <1>3, <1>6 DEF TypeInv, Shape
<1> QED
  BY <1>5, <1>7 DEF TypeInv

\* A call goes on to its next await.
LEMMA Goes ==
    ASSUME TypeInv, NEW c \in Calls, NEW at \in UnderWay \cup {"ended"},
           call' = [call EXCEPT ![c].at = at]
    PROVE  /\ call' \in [Calls -> Call] /\ call'[c].at = at
           /\ \A d \in Calls \ {c} : call'[d] = call[d]
           /\ \A d \in Calls : call'[d].ep = call[d].ep /\ call'[d].tunnel = call[d].tunnel
<1>1. call \in [Calls -> Call]
  BY DEF TypeInv, TypeOK, Call
<1>2. at # "new"
  BY DEF UnderWay
<1> QED
  BY <1>1 DEF Call

\* Connected, ConnectFails, ListenFails, ProbeAnswered: the call and perhaps the
\* session of its tunnel.
LEMMA TypeGoes ==
    ASSUME TypeInv, NEW c \in Calls, NEW at \in UnderWay \cup {"ended"},
           call' = [call EXCEPT ![c].at = at], call[c].at # "new",
           at \in {"connecting", "listening"} => server[c] = "none",
           at \in {"probing", "answered", "failing"} => call[c].tunnel # None,
           UNCHANGED <<server, tunnels, attachVars, exit, detaches, historyVars>>,
           UNCHANGED faults \/ Fault,
           client' \in [Calls -> {"none", "up", "ending", "gone"}],
           \A h \in streams : client'[h] = "up"
    PROVE  TypeInv'
<1>1. /\ call' \in [Calls -> Call] /\ call'[c].at = at
      /\ \A d \in Calls \ {c} : call'[d] = call[d]
      /\ \A d \in Calls : call'[d].ep = call[d].ep /\ call'[d].tunnel = call[d].tunnel
  BY Goes
<1>2. faults' \in 0 .. MaxFaults
  BY Counts DEF TypeInv, TypeOK
<1>3. at # "new" /\ UNCHANGED <<server, tunnels, attachments, nodes, streams, exit, detaches,
                                 overlapped, disturbed>>
  BY DEF UnderWay, attachVars, historyVars
<1>4. TypeOK'
  BY <1>1, <1>2, <1>3 DEF TypeInv, TypeOK, Call
<1>5. Shape'
  BY <1>1, <1>3 DEF TypeInv, Shape
<1> QED
  BY <1>4, <1>5 DEF TypeInv

LEMMA TypeConnected ==
    ASSUME TypeInv, NEW c \in Calls, Connected(c)
    PROVE  TypeInv'
<1>1. /\ client' \in [Calls -> {"none", "up", "ending", "gone"}]
      /\ \A h \in streams : client'[h] = "up"
  BY Types DEF Connected, TypeInv, TypeOK, Shape
<1>2. server[c] = "none" /\ call[c].at # "new"
  BY DEF Connected, TypeInv, Shape
<1>3. "listening" \in UnderWay \cup {"ended"}
  BY DEF UnderWay
<1> QED
  BY <1>1, <1>2, <1>3, TypeGoes DEF Connected

LEMMA TypeConnectFails ==
    ASSUME TypeInv, NEW c \in Calls, ConnectFails(c)
    PROVE  TypeInv'
<1>1. /\ client' \in [Calls -> {"none", "up", "ending", "gone"}]
      /\ \A h \in streams : client'[h] = "up"
      /\ UNCHANGED <<server, tunnels, attachVars, exit, detaches, historyVars>>
  BY DEF ConnectFails, tunnelVars, TypeInv, TypeOK, Shape
<1> QED
  BY <1>1, TypeGoes DEF ConnectFails

LEMMA TypeListenFails ==
    ASSUME TypeInv, NEW c \in Calls, ListenFails(c)
    PROVE  TypeInv'
<1>1. c \notin streams
  BY Types DEF ListenFails, TypeInv, Shape
<1>2. /\ client' \in [Calls -> {"none", "up", "ending", "gone"}]
      /\ \A h \in streams : client'[h] = "up"
  BY <1>1, Types DEF ListenFails, TypeInv, TypeOK, Shape
<1> QED
  BY <1>2, TypeGoes DEF ListenFails

LEMMA TypeProbeAnswered ==
    ASSUME TypeInv, NEW c \in Calls, ProbeAnswered(c)
    PROVE  TypeInv'
<1>1. /\ client' \in [Calls -> {"none", "up", "ending", "gone"}]
      /\ \A h \in streams : client'[h] = "up"
      /\ UNCHANGED <<server, tunnels, attachVars, exit, detaches, historyVars>>
      /\ call[c].tunnel # None /\ call[c].at # "new"
  BY DEF ProbeAnswered, tunnelVars, TypeInv, TypeOK, Shape
<1>2. "answered" \in UnderWay \cup {"ended"}
  BY DEF UnderWay
<1> QED
  BY <1>1, <1>2, TypeGoes DEF ProbeAnswered

\* What Listen does to the call and the tunnels.
LEMMA Listens ==
    ASSUME TypeInv, NEW c \in Calls, Listen(c)
    PROVE  /\ call' \in [Calls -> Call] /\ call'[c].at = "probing" /\ call'[c].tunnel = c
           /\ \A d \in Calls \ {c} : call'[d] = call[d]
           /\ \A d \in Calls : call'[d].ep = call[d].ep
           /\ call[c].ep \in Endpoints /\ server[c] = "none"
           /\ server' \in [Calls -> {"none", "listening", "closing", "closed"}]
           /\ server'[c] = "listening" /\ \A h \in Calls \ {c} : server'[h] = server[h]
           /\ tunnels' \in [Endpoints -> Calls \cup {None}]
           /\ tunnels'[call[c].ep] = c
           /\ \A f \in Endpoints : f # call[c].ep => tunnels'[f] = tunnels[f]
           /\ UNCHANGED <<client, attachments, nodes, streams, exit, detaches, faults,
                          overlapped, disturbed>>
<1>1. /\ call \in [Calls -> Call] /\ tunnels \in [Endpoints -> Calls \cup {None}]
      /\ server \in [Calls -> {"none", "listening", "closing", "closed"}]
  BY DEF TypeInv, TypeOK, Call
<1>2. call[c].at = "listening" /\ call[c].ep \in Endpoints /\ server[c] = "none"
  BY Types DEF Listen, TypeInv, Shape
<1>3. call' = [call EXCEPT ![c] = [@ EXCEPT !.at = "probing", !.tunnel = c]]
  BY <1>1 DEF Listen, Call
<1>4. [call[c] EXCEPT !.at = "probing", !.tunnel = c] \in Call
  BY <1>1 DEF Call, UnderWay
<1>5. /\ call' \in [Calls -> Call] /\ call'[c].at = "probing" /\ call'[c].tunnel = c
      /\ \A d \in Calls \ {c} : call'[d] = call[d]
      /\ \A d \in Calls : call'[d].ep = call[d].ep
  BY <1>1, <1>3, <1>4 DEF Call
<1> QED
  BY <1>1, <1>2, <1>5 DEF Listen, attachVars, historyVars

LEMMA TypeListen ==
    ASSUME TypeInv, NEW c \in Calls, Listen(c)
    PROVE  TypeInv'
<1>1. /\ call' \in [Calls -> Call] /\ call'[c].at = "probing" /\ call'[c].tunnel = c
      /\ \A d \in Calls \ {c} : call'[d] = call[d]
      /\ \A d \in Calls : call'[d].ep = call[d].ep
      /\ call[c].ep \in Endpoints /\ server[c] = "none"
      /\ server' \in [Calls -> {"none", "listening", "closing", "closed"}]
      /\ server'[c] = "listening" /\ \A h \in Calls \ {c} : server'[h] = server[h]
      /\ tunnels' \in [Endpoints -> Calls \cup {None}]
      /\ tunnels'[call[c].ep] = c
      /\ \A f \in Endpoints : f # call[c].ep => tunnels'[f] = tunnels[f]
      /\ UNCHANGED <<client, attachments, nodes, streams, exit, detaches, faults,
                     overlapped, disturbed>>
  BY Listens
<1>2. \A f \in Endpoints, h \in Calls :
          tunnels'[f] = h => call'[h].ep = f /\ server'[h] = "listening"
  BY <1>1 DEF TypeInv, TypeOK
<1>3. TypeOK'
  BY <1>1, <1>2 DEF TypeInv, TypeOK, Call
<1>4. Shape'
  BY <1>1, Types DEF TypeInv, Shape
<1> QED
  BY <1>3, <1>4 DEF TypeInv

\* The catch of a call.
LEMMA Catches ==
    ASSUME TypeInv, NEW c \in Calls, call[c].at # "new", Catch(c)
    PROVE  /\ call[c].ep \in Endpoints /\ CloseTunnel(call[c].ep)
           /\ call' \in [Calls -> Call]
           /\ call'[c].at \in {"ended", "failing"}
           /\ call'[c].at = "failing" => call'[c].tunnel # None
           /\ call'[c].tunnel \in {call[c].tunnel, tunnels[call[c].ep]}
           /\ \A d \in Calls \ {c} : call'[d] = call[d]
           /\ \A d \in Calls : call'[d].ep = call[d].ep
<1>1. /\ call \in [Calls -> Call] /\ call[c].ep \in Endpoints
      /\ tunnels \in [Endpoints -> Calls \cup {None}]
  BY Types DEF TypeInv, TypeOK, Call
<1> DEFINE e == call[c].ep
           new == IF Awaited(e) = None THEN [call[c] EXCEPT !.at = "ended"]
                  ELSE [call[c] EXCEPT !.at = "failing", !.tunnel = Awaited(e)]
<1>2. call' = [call EXCEPT ![c] = new]
  BY DEF Catch
<1>3. /\ new \in Call /\ new.at \in {"ended", "failing"} /\ new.ep = e
      /\ new.at = "failing" => new.tunnel # None
      /\ new.tunnel \in {call[c].tunnel, tunnels[e]}
  BY <1>1 DEF Call, UnderWay, Awaited
<1> HIDE DEF new
<1>4. /\ call' \in [Calls -> Call] /\ call'[c] = new
      /\ \A d \in Calls \ {c} : call'[d] = call[d]
  BY <1>1, <1>2, <1>3
<1> QED
  BY <1>1, <1>3, <1>4 DEF Catch

LEMMA TypeCatch ==
    ASSUME TypeInv, NEW c \in Calls, call[c].at # "new", Catch(c),
           UNCHANGED <<client, attachVars, exit, detaches, historyVars>>,
           faults' \in 0 .. MaxFaults
    PROVE  TypeInv'
<1> DEFINE e == call[c].ep
<1>1. /\ e \in Endpoints /\ CloseTunnel(e)
      /\ call' \in [Calls -> Call]
      /\ call'[c].at \in {"ended", "failing"}
      /\ call'[c].at = "failing" => call'[c].tunnel # None
      /\ call'[c].tunnel \in {call[c].tunnel, tunnels[e]}
      /\ \A d \in Calls \ {c} : call'[d] = call[d]
      /\ \A d \in Calls : call'[d].ep = call[d].ep
  BY Catches
<1>2. /\ server' \in [Calls -> {"none", "listening", "closing", "closed"}]
      /\ tunnels' \in [Endpoints -> Calls \cup {None}]
      /\ \A h \in Calls : h = tunnels[e] => server'[h] = "closing" /\ call[h].ep = e
      /\ \A h \in Calls : h # tunnels[e] => server'[h] = server[h]
      /\ \A f \in Endpoints, h \in Calls :
             tunnels'[f] = h => call[h].ep = f /\ server'[h] = "listening"
      /\ \A h \in Calls : h = tunnels[e] => server[h] = "listening"
  BY <1>1, Closes
<1> HIDE DEF e
<1>3. TypeOK'
  BY <1>1, <1>2 DEF TypeInv, TypeOK, Call, attachVars, historyVars
<1>4. \A d \in Calls : call'[d].at \in {"new", "connecting", "listening"} => server'[d] = "none"
  BY <1>1, <1>2 DEF TypeInv, Shape
<1>5. \A d, h \in Calls : call'[d].tunnel = h => call'[h].ep = call'[d].ep /\ server'[h] # "none"
  BY <1>1, <1>2 DEF TypeInv, Shape, e
<1>6. Shape'
  BY <1>1, <1>2, <1>4, <1>5 DEF TypeInv, Shape, attachVars
<1> QED
  BY <1>3, <1>6 DEF TypeInv

LEMMA TypeProbeFails ==
    ASSUME TypeInv, NEW c \in Calls, ProbeFails(c)
    PROVE  TypeInv'
<1>1. faults' \in 0 .. MaxFaults
  BY Counts DEF ProbeFails, NoFault, TypeInv, TypeOK
<1> QED
  BY <1>1, TypeCatch DEF ProbeFails

LEMMA TypeAttached ==
    ASSUME TypeInv, NEW c \in Calls, Attached(c)
    PROVE  TypeInv'
<1> DEFINE e == call[c].ep
           h == call[c].tunnel
<1>0. /\ call[c].at = "answered" /\ e \in Endpoints /\ h \in Calls /\ h # None
      /\ call[h].ep = e /\ server[h] # "none"
      /\ UNCHANGED <<client, exit, detaches, faults, overlapped, disturbed>>
  BY Types DEF Attached, TypeInv, Shape, historyVars
<1>1. CASE e \notin nodes
  <2>1. /\ nodes' = nodes \cup {e} /\ attachments' = [attachments EXCEPT ![e] = h]
        /\ streams' \subseteq streams \cup {h}
        /\ h \in streams' \ streams => client[h] = "up"
        /\ call' = [call EXCEPT ![c].at = "ended"]
        /\ UNCHANGED <<server, tunnels>>
    BY <1>1 DEF Attached
  <2>2. /\ call' \in [Calls -> Call] /\ call'[c].at = "ended"
        /\ \A d \in Calls \ {c} : call'[d] = call[d]
        /\ \A d \in Calls : call'[d].ep = call[d].ep /\ call'[d].tunnel = call[d].tunnel
    BY <2>1, Goes
  <2>3. attachments[e] = None
    BY <1>0, <1>1 DEF TypeInv, TypeOK
  <2> HIDE DEF e, h
  <2>4. /\ attachments' \in [Endpoints -> Calls \cup {None}] /\ attachments'[e] = h
        /\ \A f \in Endpoints : f # e => attachments'[f] = attachments[f]
    BY <1>0, <2>1 DEF TypeInv, TypeOK
  <2>5. /\ nodes' = {f \in Endpoints : attachments'[f] # None}
        /\ streams' \subseteq {attachments'[f] : f \in Endpoints} \ {None}
    <3>1. nodes' = {f \in Endpoints : attachments'[f] # None}
      BY <1>0, <2>1, <2>4 DEF TypeInv, TypeOK
    <3>2. \A k \in streams : \E f \in Endpoints : f # e /\ attachments[f] = k /\ k # None
      BY <2>3 DEF TypeInv, TypeOK
    <3> QED
      BY <1>0, <2>1, <2>4, <3>1, <3>2
  <2>6. TypeOK'
    BY <1>0, <2>1, <2>2, <2>4, <2>5 DEF TypeInv, TypeOK, Call
  <2>7. \A k \in streams' : client'[k] = "up"
    BY <1>0, <2>1 DEF TypeInv, Shape
  <2>8. Shape'
    BY <1>0, <2>1, <2>2, <2>4, <2>7 DEF TypeInv, Shape
  <2> QED
    BY <2>6, <2>8 DEF TypeInv
<1>2. CASE e \in nodes
  <2>1. Catch(c) /\ UNCHANGED attachVars
    BY <1>2 DEF Attached
  <2> HIDE DEF e, h
  <2>2. faults' \in 0 .. MaxFaults
    BY <1>0 DEF TypeInv, TypeOK
  <2>3. call[c].at # "new" /\ UNCHANGED <<client, attachVars, exit, detaches, historyVars>>
    BY <1>0, <2>1 DEF historyVars
  <2> QED
    BY <2>1, <2>2, <2>3, TypeCatch
<1> QED
  BY <1>1, <1>2

\* detachEndpoint and closeTunnel together: Detach and ShutdownNext.
LEMMA TypeDetaches ==
    ASSUME TypeInv, NEW e \in Endpoints, Detached(e), CloseTunnel(e), Disturb(e),
           UNCHANGED <<client, call, faults, overlapped>>,
           detaches' \in 0 .. MaxDetaches,
           exit' \in [at : {"no", "closing", "exited"},
                      left : SUBSET Endpoints, awaits : Calls \cup {None}]
    PROVE  TypeInv'
<1>1. /\ server' \in [Calls -> {"none", "listening", "closing", "closed"}]
      /\ tunnels' \in [Endpoints -> Calls \cup {None}]
      /\ \A h \in Calls : h = tunnels[e] => server[h] = "listening" /\ server'[h] = "closing"
      /\ \A h \in Calls : h # tunnels[e] => server'[h] = server[h]
      /\ \A f \in Endpoints, h \in Calls :
             tunnels'[f] = h => call[h].ep = f /\ server'[h] = "listening"
  BY Closes
<1>2. /\ attachments' \in [Endpoints -> Calls \cup {None}]
      /\ attachments'[e] = None
      /\ \A f \in Endpoints : f # e => attachments'[f] = attachments[f]
      /\ nodes' = {f \in Endpoints : attachments'[f] # None}
      /\ streams' \subseteq streams
      /\ streams' \subseteq {attachments'[f] : f \in Endpoints} \ {None}
  BY Detaches
<1>3. overlapped' \subseteq disturbed' /\ disturbed' \subseteq Endpoints
  BY DEF TypeInv, TypeOK, Disturb
<1>4. TypeOK'
  BY <1>1, <1>2, <1>3 DEF TypeInv, TypeOK
<1>5. \A d \in Calls : call'[d].at \in {"new", "connecting", "listening"} => server'[d] = "none"
  BY <1>1 DEF TypeInv, Shape
<1>6. \A h \in Calls : server[h] # "none" => server'[h] # "none"
  BY <1>1
<1>7. Shape'
  BY <1>2, <1>5, <1>6, Types DEF TypeInv, Shape
<1> QED
  BY <1>4, <1>7 DEF TypeInv

LEMMA TypeDetach ==
    ASSUME TypeInv, NEW e \in Endpoints, Detach(e)
    PROVE  TypeInv'
<1>1. detaches' \in 0 .. MaxDetaches
  BY Counts DEF Detach
<1>2. exit' \in [at : {"no", "closing", "exited"},
                 left : SUBSET Endpoints, awaits : Calls \cup {None}]
  BY DEF Detach, TypeInv, TypeOK
<1> QED
  BY <1>1, <1>2, TypeDetaches DEF Detach

LEMMA TypeShutdownNext ==
    ASSUME TypeInv, NEW e \in Endpoints, ShutdownNext(e)
    PROVE  TypeInv'
<1>1. detaches' \in 0 .. MaxDetaches
  BY DEF ShutdownNext, TypeInv, TypeOK
<1>2. exit' \in [at : {"no", "closing", "exited"},
                 left : SUBSET Endpoints, awaits : Calls \cup {None}]
  <2>1. Awaited(e) \in Calls \cup {None}
    BY Types DEF Awaited
  <2>2. /\ exit \in [at : {"no", "closing", "exited"},
                     left : SUBSET Endpoints, awaits : Calls \cup {None}]
        /\ exit' = [exit EXCEPT !.left = @ \ {e}, !.awaits = Awaited(e)]
    BY DEF ShutdownNext, TypeInv, TypeOK
  <2> QED
    BY <2>1, <2>2
<1> QED
  BY <1>1, <1>2, TypeDetaches DEF ShutdownNext

LEMMA TypeShutdown ==
    ASSUME TypeInv, Shutdown \/ ShutdownEnd
    PROVE  TypeInv'
<1>1. exit' \in [at : {"no", "closing", "exited"},
                 left : SUBSET Endpoints, awaits : Calls \cup {None}]
  <2>1. {e \in Endpoints : attachments[e] # None} \in SUBSET Endpoints
    OBVIOUS
  <2> QED
    BY <2>1 DEF Shutdown, ShutdownEnd, TypeInv, TypeOK
<1>2. UNCHANGED <<call, server, client, tunnels, attachments, nodes, streams, detaches, faults,
                  overlapped, disturbed>>
  BY DEF Shutdown, ShutdownEnd, tunnelVars, attachVars, historyVars
<1> QED
  BY <1>1, <1>2 DEF TypeInv, TypeOK, Shape

\* What the callback of closeServer does.
LEMMA CloseEnds ==
    ASSUME TypeInv, NEW h \in Calls, ServerClosed(h)
    PROVE  /\ call[h].ep \in Endpoints /\ Detached(call[h].ep)
           /\ server[h] = "closing" /\ h \notin streams
           /\ server' \in [Calls -> {"none", "listening", "closing", "closed"}]
           /\ server'[h] = "closed" /\ \A k \in Calls \ {h} : server'[k] = server[k]
           /\ client' \in [Calls -> {"none", "up", "ending", "gone"}]
           /\ \A k \in Calls \ {h} : client'[k] = client[k]
           /\ client'[h] = "gone" => client[h] = "gone"
           /\ call' \in [Calls -> Call]
           /\ \A c \in Calls : call'[c].ep = call[c].ep /\ call'[c].tunnel = call[c].tunnel
           /\ \A c \in Calls : call'[c].at = call[c].at
                               \/ (call[c].at = "failing" /\ call'[c].at = "ended")
           /\ UNCHANGED <<tunnels, detaches, faults, overlapped, disturbed>>
<1>1. /\ call \in [Calls -> Call]
      /\ server \in [Calls -> {"none", "listening", "closing", "closed"}]
      /\ client \in [Calls -> {"none", "up", "ending", "gone"}]
  BY DEF TypeInv, TypeOK, Call
<1>2. call[h].ep \in Endpoints
  <2>1. call[h].at # "new"
    BY DEF ServerClosed, TypeInv, Shape
  <2> QED
    BY <2>1, Types
<1>3. \A c \in Calls : [call[c] EXCEPT !.at = "ended"] \in Call
  BY <1>1 DEF Call
<1>4. call' = [c \in Calls |->
           IF call[c].at = "failing" /\ call[c].tunnel = h
           THEN [call[c] EXCEPT !.at = "ended"] ELSE call[c]]
  BY DEF ServerClosed
<1>5. call' \in [Calls -> Call]
  BY <1>1, <1>3, <1>4
<1>6. \A c \in Calls : /\ call'[c].ep = call[c].ep /\ call'[c].tunnel = call[c].tunnel
                       /\ call'[c].at = call[c].at
                            \/ (call[c].at = "failing" /\ call'[c].at = "ended")
  BY <1>1, <1>4 DEF Call
<1>7. /\ server'[h] = "closed" /\ \A k \in Calls \ {h} : server'[k] = server[k]
      /\ server' \in [Calls -> {"none", "listening", "closing", "closed"}]
      /\ client' \in [Calls -> {"none", "up", "ending", "gone"}]
      /\ \A k \in Calls \ {h} : client'[k] = client[k]
      /\ client'[h] = "gone" => client[h] = "gone"
  BY <1>1 DEF ServerClosed
<1> QED
  BY <1>2, <1>5, <1>6, <1>7 DEF ServerClosed, historyVars

LEMMA TypeServerClosed ==
    ASSUME TypeInv, NEW h \in Calls, ServerClosed(h)
    PROVE  TypeInv'
<1> DEFINE e == call[h].ep
<1>1. /\ e \in Endpoints /\ Detached(e)
      /\ server[h] = "closing" /\ h \notin streams
      /\ server' \in [Calls -> {"none", "listening", "closing", "closed"}]
      /\ server'[h] = "closed" /\ \A k \in Calls \ {h} : server'[k] = server[k]
      /\ client' \in [Calls -> {"none", "up", "ending", "gone"}]
      /\ \A k \in Calls \ {h} : client'[k] = client[k]
      /\ call' \in [Calls -> Call]
      /\ \A c \in Calls : call'[c].ep = call[c].ep /\ call'[c].tunnel = call[c].tunnel
      /\ \A c \in Calls : call'[c].at = call[c].at
                          \/ (call[c].at = "failing" /\ call'[c].at = "ended")
      /\ UNCHANGED <<tunnels, detaches, faults, overlapped, disturbed>>
  BY CloseEnds
<1>2. /\ attachments' \in [Endpoints -> Calls \cup {None}]
      /\ attachments'[e] = None
      /\ \A f \in Endpoints : f # e => attachments'[f] = attachments[f]
      /\ nodes' = {f \in Endpoints : attachments'[f] # None}
      /\ streams' \subseteq streams
      /\ streams' \subseteq {attachments'[f] : f \in Endpoints} \ {None}
  BY <1>1, Detaches
<1> HIDE DEF e
<1>3. exit' \in [at : {"no", "closing", "exited"},
                 left : SUBSET Endpoints, awaits : Calls \cup {None}]
  <2>1. exit' \in {exit, [exit EXCEPT !.awaits = None]}
    BY DEF ServerClosed
  <2> QED
    BY <2>1 DEF TypeInv, TypeOK
<1>4. \A f \in Endpoints, k \in Calls :
          tunnels'[f] = k => call'[k].ep = f /\ server'[k] = "listening"
  BY <1>1 DEF TypeInv, TypeOK
<1>5. TypeOK'
  BY <1>1, <1>2, <1>3, <1>4 DEF TypeInv, TypeOK, Call
<1>6. \A k \in Calls : server[k] # "none" <=> server'[k] # "none"
  BY <1>1
<1>7. \A c \in Calls : call'[c].at = "new" <=> call'[c].ep = None
  BY <1>1 DEF TypeInv, Shape
<1>8. \A k \in streams' : client'[k] = "up"
  BY <1>1, <1>2, Types DEF TypeInv, Shape
<1>9. \A c \in Calls : call'[c].at \in {"new", "connecting", "listening"} =>
                         call'[c].at = call[c].at
  BY <1>1
<1>10. \A c \in Calls : call'[c].at \in {"probing", "answered", "failing"} =>
                          call'[c].at = call[c].at
  BY <1>1
<1>11. \A f \in Endpoints, k \in Calls :
           attachments'[f] = k => call'[k].ep = f /\ server'[k] # "none"
  <2> SUFFICES ASSUME NEW f \in Endpoints, NEW k \in Calls, attachments'[f] = k
               PROVE  attachments[f] = k
    BY <1>1, <1>6 DEF TypeInv, Shape
  <2> QED
    BY <1>2, Types
<1>12. Shape'
  BY <1>1, <1>6, <1>7, <1>8, <1>9, <1>10, <1>11 DEF TypeInv, Shape
<1> QED
  BY <1>5, <1>12 DEF TypeInv

\* A session's event, or none, closes at most its endpoint's tunnel.
LEMMA SessionEvents ==
    ASSUME TypeInv, NEW h \in Calls,
           OnSessionEvent(h) \/ UNCHANGED <<server, tunnels, disturbed>>
    PROVE  \/ UNCHANGED <<server, tunnels, disturbed>>
           \/ /\ call[h].ep \in Endpoints /\ CloseTunnel(call[h].ep)
              /\ disturbed \subseteq disturbed' /\ disturbed' \subseteq Endpoints
              /\ tunnels[call[h].ep] \notin {None, h} => call[h].ep \in disturbed'
              /\ tunnels[call[h].ep] = h /\ Busy(call[h].ep) => call[h].ep \in disturbed'
<1>1. CASE server[h] = "none"
  BY <1>1 DEF OnSessionEvent
<1>2. CASE server[h] # "none"
  <2>1. call[h].ep \in Endpoints
    <3>1. call[h].at # "new"
      BY <1>2 DEF TypeInv, Shape
    <3> QED
      BY <3>1, Types
  <2>2. disturbed \subseteq Endpoints
    BY DEF TypeInv, TypeOK
  <2> QED
    BY <1>2, <2>1, <2>2 DEF OnSessionEvent
<1> QED
  BY <1>1, <1>2

\* SessionLost and SessionClosed.
LEMMA TypeSession ==
    ASSUME TypeInv, NEW h \in Calls,
           OnSessionEvent(h) \/ UNCHANGED <<server, tunnels, disturbed>>,
           UNCHANGED <<call, attachments, nodes, exit, detaches, overlapped>>,
           faults' \in 0 .. MaxFaults,
           client' \in [Calls -> {"none", "up", "ending", "gone"}],
           streams' \subseteq streams, \A k \in streams' : client'[k] = "up"
    PROVE  TypeInv'
<1>1. CASE UNCHANGED <<server, tunnels, disturbed>>
  <2>1. TypeOK'
    BY <1>1 DEF TypeInv, TypeOK
  <2>2. Shape'
    BY <1>1 DEF TypeInv, Shape
  <2> QED
    BY <2>1, <2>2 DEF TypeInv
<1>2. CASE ~UNCHANGED <<server, tunnels, disturbed>>
  <2> DEFINE e == call[h].ep
  <2>1. /\ e \in Endpoints /\ CloseTunnel(e)
        /\ disturbed \subseteq disturbed' /\ disturbed' \subseteq Endpoints
    BY <1>2, SessionEvents
  <2>2. /\ server' \in [Calls -> {"none", "listening", "closing", "closed"}]
        /\ tunnels' \in [Endpoints -> Calls \cup {None}]
        /\ \A k \in Calls : k = tunnels[e] => server[k] = "listening" /\ server'[k] = "closing"
        /\ \A k \in Calls : k # tunnels[e] => server'[k] = server[k]
        /\ \A f \in Endpoints, k \in Calls :
               tunnels'[f] = k => call[k].ep = f /\ server'[k] = "listening"
    BY <2>1, Closes
  <2>3. TypeOK'
    BY <2>1, <2>2 DEF TypeInv, TypeOK
  <2>4. \A k \in Calls : server[k] # "none" <=> server'[k] # "none"
    BY <2>2
  <2>5. Shape'
    BY <2>4 DEF TypeInv, Shape
  <2> QED
    BY <2>3, <2>5 DEF TypeInv
<1> QED
  BY <1>1, <1>2

LEMMA TypeSessionLost ==
    ASSUME TypeInv, NEW h \in Calls, SessionLost(h)
    PROVE  TypeInv'
<1>1. /\ client' \in [Calls -> {"none", "up", "ending", "gone"}]
      /\ streams' = streams \ {h} /\ \A k \in streams' : client'[k] = "up"
  BY Types DEF SessionLost, TypeInv, TypeOK, Shape
<1>2. faults' \in 0 .. MaxFaults
  BY Counts DEF SessionLost
<1> QED
  BY <1>1, <1>2, TypeSession DEF SessionLost

LEMMA TypeSessionClosed ==
    ASSUME TypeInv, NEW h \in Calls, SessionClosed(h)
    PROVE  TypeInv'
<1>1. /\ client' \in [Calls -> {"none", "up", "ending", "gone"}]
      /\ UNCHANGED <<attachments, nodes, streams, faults>>
      /\ \A k \in streams' : client'[k] = "up"
  BY Types DEF SessionClosed, attachVars, TypeInv, TypeOK, Shape
<1>2. faults' \in 0 .. MaxFaults
  BY <1>1 DEF TypeInv, TypeOK
<1> QED
  BY <1>1, <1>2, TypeSession DEF SessionClosed

LEMMA TypeStreams ==
    ASSUME TypeInv,
           (\E h \in Calls : StreamBroken(h)) \/ \E e \in Endpoints : Reconnect(e)
    PROVE  TypeInv'
<1>1. /\ UNCHANGED <<call, server, client, tunnels, attachments, nodes, exit, detaches,
                     overlapped, disturbed>>
      /\ faults' \in 0 .. MaxFaults
  BY Counts DEF StreamBroken, Reconnect, tunnelVars, historyVars, TypeInv, TypeOK
<1>2. /\ streams' \subseteq {attachments[e] : e \in Endpoints} \ {None}
      /\ \A h \in streams' : client[h] = "up"
  BY Types DEF StreamBroken, Reconnect, TypeInv, TypeOK, Shape
<1>3. TypeOK'
  BY <1>1, <1>2 DEF TypeInv, TypeOK
<1>4. Shape'
  BY <1>1, <1>2 DEF TypeInv, Shape
<1> QED
  BY <1>3, <1>4 DEF TypeInv

LEMMA TypeNext == TypeInv /\ [Next]_vars => TypeInv'
<1> SUFFICES ASSUME TypeInv, [Next]_vars PROVE TypeInv'
  OBVIOUS
<1>1. ASSUME NEW c \in Calls, CallStep(c) PROVE TypeInv'
  BY <1>1, TypeConnected, TypeConnectFails, TypeListen, TypeListenFails, TypeProbeAnswered,
     TypeProbeFails, TypeAttached DEF CallStep
<1>2. CASE UNCHANGED vars
  BY <1>2 DEF vars, TypeInv, TypeOK, Shape
<1> QED
  BY <1>1, <1>2, TypeAttach, TypeServerClosed, TypeSessionClosed, TypeSessionLost, TypeStreams,
     TypeDetach, TypeShutdown, TypeShutdownNext DEF Next, TunnelStep, ShutdownStep

LEMMA TypeInvariant == Spec => []TypeInv
<1> QED
  BY TypeInit, TypeNext, PTL DEF Spec

\* The type invariant: the map only has tunnels that listen, and the nodes and
\* streams are those of the attachments.
THEOREM TunnelsTypeCorrect == Spec => []TypeOK
<1>1. TypeInv => TypeOK
  BY DEF TypeInv
<1> QED
  BY <1>1, TypeInvariant, PTL

-----------------------------------------------------------------------------
(* No tunnel unknown to the runtime *)

\* Two calls of an endpoint at once overlap; and as long as none did, a call
\* that connects is to open the only tunnel.
Alone ==
    /\ \A c, d \in Calls :
           c # d /\ call[c].at \in UnderWay /\ call[d].at \in UnderWay
               /\ call[c].ep = call[d].ep => call[c].ep \in overlapped
    /\ \A c \in Calls :
           call[c].at \in {"connecting", "listening"} /\ call[c].ep \notin overlapped =>
               tunnels[call[c].ep] = None

AccountInv == Alone /\ TunnelsAccounted

LEMMA AccountInit == Init => AccountInv
  BY TunnelAssumption DEF TunnelAssumption, Init, AccountInv, Alone, TunnelsAccounted, UnderWay

\* The first step of attachEndpoint.
LEMMA Attaches ==
    ASSUME TypeInv, NEW c \in Calls, NEW e \in Endpoints, Attach(c, e)
    PROVE  /\ call[c].ep = None /\ call[c].at = "new" /\ server[c] = "none"
           /\ call'[c].ep = e /\ call'[c].at \in {"ended", "probing", "connecting"}
           /\ call'[c].at = "connecting" => tunnels[e] = None
           /\ call'[c].at = "probing" => call'[c].tunnel = tunnels[e]
           /\ call'[c].at # "ended" => attachments[e] = None
           /\ \A d \in Calls \ {c} : call'[d] = call[d]
           /\ Attaching(e) => e \in overlapped'
           /\ Busy(e) => e \in disturbed'
           /\ overlapped \subseteq overlapped' /\ disturbed \subseteq disturbed'
           /\ UNCHANGED <<server, client, tunnels, attachments, nodes, streams>>
<1>1. call \in [Calls -> Call] /\ call[c].at = "new" /\ call[c].ep = None /\ server[c] = "none"
  BY DEF Attach, TypeInv, TypeOK, Shape, Call
<1> DEFINE new == [at |-> IF attachments[e] # None THEN "ended"
                          ELSE IF tunnels[e] # None THEN "probing" ELSE "connecting",
                   ep |-> e,
                   tunnel |-> IF attachments[e] # None THEN None ELSE tunnels[e]]
<1>2. /\ new.at \in {"ended", "probing", "connecting"} /\ new.ep = e
      /\ new.at = "connecting" => tunnels[e] = None
      /\ new.at = "probing" => new.tunnel = tunnels[e]
      /\ new.at # "ended" => attachments[e] = None
  OBVIOUS
<1>3. call' = [call EXCEPT ![c] = new]
  BY DEF Attach
<1> HIDE DEF new
<1>4. call'[c] = new /\ \A d \in Calls \ {c} : call'[d] = call[d]
  BY <1>1, <1>3
<1> QED
  BY <1>1, <1>2, <1>4 DEF Attach, Disturb, tunnelVars, attachVars

LEMMA AccountAttach ==
    ASSUME TypeInv, AccountInv, NEW c \in Calls, NEW e \in Endpoints, Attach(c, e)
    PROVE  AccountInv'
<1>1. /\ call[c].ep = None /\ call[c].at = "new" /\ server[c] = "none"
      /\ call'[c].ep = e /\ call'[c].at \in {"ended", "probing", "connecting"}
      /\ call'[c].at = "connecting" => tunnels[e] = None
      /\ \A d \in Calls \ {c} : call'[d] = call[d]
      /\ Attaching(e) => e \in overlapped'
      /\ overlapped \subseteq overlapped'
      /\ UNCHANGED <<server, client, tunnels>>
  BY Attaches
<1>2. \A d \in Calls : call[d].at \in UnderWay /\ call[d].ep = e => e \in overlapped'
  BY <1>1 DEF Attaching, Of
<1>3. Alone'
  BY <1>1, <1>2 DEF AccountInv, Alone
<1>4. \A h \in Calls : server'[h] = "listening" =>
          tunnels'[call'[h].ep] = h \/ call'[h].ep \in overlapped'
  BY <1>1 DEF AccountInv, TunnelsAccounted
<1>5. ASSUME NEW f \in Endpoints, NEW h \in Calls, tunnels'[f] = h, client'[h] = "gone"
      PROVE  \E d \in Calls : call'[d].tunnel = h /\ call'[d].at = "probing"
  <2>1. PICK d \in Calls : call[d].tunnel = h /\ call[d].at = "probing"
    BY <1>1, <1>5 DEF AccountInv, TunnelsAccounted, Over
  <2>2. d # c
    BY <1>1, <2>1
  <2> QED
    BY <1>1, <2>1, <2>2
<1>6. TunnelsAccounted'
  BY <1>4, <1>5 DEF TunnelsAccounted, Over
<1> QED
  BY <1>3, <1>6 DEF AccountInv

\* Steps of a call that leave the tunnels alone.
LEMMA AccountGoes ==
    ASSUME TypeInv, AccountInv, NEW c \in Calls, NEW at \in UnderWay \cup {"ended"},
           call' = [call EXCEPT ![c].at = at],
           call[c].at \in UnderWay,
           at \in {"connecting", "listening"} => call[c].at = "connecting",
           UNCHANGED <<server, tunnels, overlapped>>,
           call[c].at = "probing" => client[call[c].tunnel] = "up",
           \A h \in Calls : client'[h] = "gone" => client[h] = "gone"
    PROVE  AccountInv'
<1>1. /\ call'[c].at = at /\ \A d \in Calls \ {c} : call'[d] = call[d]
      /\ \A d \in Calls : call'[d].ep = call[d].ep /\ call'[d].tunnel = call[d].tunnel
  BY Goes
<1>2. \A d \in Calls : call'[d].at \in UnderWay => call[d].at \in UnderWay
  BY <1>1
<1>3. \A d \in Calls : call'[d].at \in {"connecting", "listening"} =>
          call[d].at \in {"connecting", "listening"}
  BY <1>1
<1>4. Alone'
  BY <1>1, <1>2, <1>3 DEF AccountInv, Alone
<1>5. ASSUME NEW f \in Endpoints, NEW h \in Calls, tunnels'[f] = h, client'[h] = "gone"
      PROVE  \E d \in Calls : call'[d].tunnel = h /\ call'[d].at = "probing"
  <2>1. PICK d \in Calls : call[d].tunnel = h /\ call[d].at = "probing"
    BY <1>5 DEF AccountInv, TunnelsAccounted, Over
  <2>2. d # c
    BY <1>5, <2>1
  <2> QED
    BY <1>1, <2>1, <2>2
<1>6. TunnelsAccounted'
  BY <1>1, <1>5 DEF AccountInv, TunnelsAccounted, Over
<1> QED
  BY <1>4, <1>6 DEF AccountInv

LEMMA AccountListen ==
    ASSUME TypeInv, AccountInv, NEW c \in Calls, Listen(c)
    PROVE  AccountInv'
<1>1. /\ call'[c].at = "probing" /\ call'[c].tunnel = c /\ call[c].at = "listening"
      /\ \A d \in Calls \ {c} : call'[d] = call[d]
      /\ \A d \in Calls : call'[d].ep = call[d].ep
      /\ call[c].ep \in Endpoints
      /\ server'[c] = "listening" /\ \A h \in Calls \ {c} : server'[h] = server[h]
      /\ tunnels'[call[c].ep] = c
      /\ \A f \in Endpoints : f # call[c].ep => tunnels'[f] = tunnels[f]
      /\ UNCHANGED <<client, overlapped>>
  BY Listens DEF Listen
<1>2. \A d \in Calls : d # c /\ call'[d].at \in UnderWay /\ call[d].ep = call[c].ep =>
          call[c].ep \in overlapped
  BY <1>1 DEF AccountInv, Alone, UnderWay
<1>3. Alone'
  <2>1. \A a, b \in Calls :
            a # b /\ call'[a].at \in UnderWay /\ call'[b].at \in UnderWay
                /\ call'[a].ep = call'[b].ep => call'[a].ep \in overlapped'
    BY <1>1, <1>2 DEF AccountInv, Alone
  <2>2. ASSUME NEW a \in Calls, call'[a].at \in {"connecting", "listening"},
               call'[a].ep \notin overlapped'
        PROVE  tunnels'[call'[a].ep] = None
    <3>1. a # c /\ call'[a] = call[a] /\ call[a].ep \in Endpoints
      BY <1>1, <2>2, Types
    <3>2. call[a].ep # call[c].ep
      BY <1>1, <1>2, <2>2, <3>1 DEF UnderWay
    <3> QED
      BY <1>1, <2>2, <3>1, <3>2 DEF AccountInv, Alone
  <2> QED
    BY <2>1, <2>2 DEF Alone
<1>4. ASSUME NEW h \in Calls, server'[h] = "listening"
      PROVE  tunnels'[call'[h].ep] = h \/ call'[h].ep \in overlapped'
  <2>1. CASE h = c
    BY <1>1, <2>1
  <2>2. CASE h # c
    <3>1. call[h].ep \in Endpoints /\ server[h] = "listening"
      BY <1>1, <1>4, <2>2, Types DEF TypeInv, Shape
    <3>2. tunnels[call[h].ep] = h \/ call[h].ep \in overlapped
      BY <3>1 DEF AccountInv, TunnelsAccounted
    <3>3. call[h].ep = call[c].ep => tunnels[call[h].ep] = None \/ call[h].ep \in overlapped
      BY <1>1 DEF AccountInv, Alone
    <3> QED
      BY <1>1, <3>1, <3>2, <3>3, Types
  <2> QED
    BY <2>1, <2>2
<1>5. ASSUME NEW f \in Endpoints, NEW h \in Calls, tunnels'[f] = h, client'[h] = "gone"
      PROVE  \E d \in Calls : call'[d].tunnel = h /\ call'[d].at = "probing"
  <2>1. CASE f = call[c].ep
    BY <1>1, <1>5, <2>1
  <2>2. CASE f # call[c].ep
    <3>1. PICK d \in Calls : call[d].tunnel = h /\ call[d].at = "probing"
      BY <1>1, <1>5, <2>2 DEF AccountInv, TunnelsAccounted, Over
    <3>2. d # c
      BY <1>1, <3>1
    <3> QED
      BY <1>1, <3>1, <3>2
  <2> QED
    BY <2>1, <2>2
<1>6. TunnelsAccounted'
  BY <1>4, <1>5 DEF TunnelsAccounted, Over
<1> QED
  BY <1>3, <1>6 DEF AccountInv

\* closeTunnel, by a call of the endpoint whose probe is over, or by others.
LEMMA AccountCloses ==
    ASSUME TypeInv, AccountInv, NEW e \in Endpoints, CloseTunnel(e), overlapped' = overlapped,
           \A d \in Calls : /\ call'[d].ep = call[d].ep
                            /\ call'[d].at \in UnderWay => call[d].at \in UnderWay
                            /\ call'[d] = call[d] \/
                                   (call[d].ep = e /\ call'[d].at \in {"ended", "failing"}),
           \A h \in Calls : client'[h] = "gone" => client[h] = "gone" \/ call[h].ep = e
    PROVE  AccountInv'
<1>1. /\ tunnels'[e] = None
      /\ \A f \in Endpoints : f # e => tunnels'[f] = tunnels[f]
      /\ \A h \in Calls : h = tunnels[e] => server'[h] = "closing" /\ call[h].ep = e
      /\ \A h \in Calls : h # tunnels[e] => server'[h] = server[h]
      /\ \A f \in Endpoints, h \in Calls :
             tunnels'[f] = h => call[h].ep = f /\ server'[h] = "listening"
  BY Closes
<1>2. \A d \in Calls : call'[d].at \in {"connecting", "listening"} => call'[d] = call[d]
  OBVIOUS
<1>3. Alone'
  <2>1. \A a, b \in Calls :
            a # b /\ call'[a].at \in UnderWay /\ call'[b].at \in UnderWay
                /\ call'[a].ep = call'[b].ep => call'[a].ep \in overlapped'
    BY DEF AccountInv, Alone
  <2>2. ASSUME NEW a \in Calls, call'[a].at \in {"connecting", "listening"},
               call'[a].ep \notin overlapped'
        PROVE  tunnels'[call'[a].ep] = None
    <3>1. call'[a] = call[a] /\ call[a].ep \in Endpoints
      BY <1>2, <2>2, Types
    <3> QED
      BY <1>1, <2>2, <3>1 DEF AccountInv, Alone
  <2> QED
    BY <2>1, <2>2 DEF Alone
<1>4. ASSUME NEW h \in Calls, server'[h] = "listening"
      PROVE  tunnels'[call'[h].ep] = h \/ call'[h].ep \in overlapped'
  <2>1. h # tunnels[e] /\ server[h] = "listening"
    BY <1>1, <1>4
  <2>2. call[h].ep \in Endpoints
    BY <2>1, Types DEF TypeInv, Shape
  <2>3. tunnels[call[h].ep] = h \/ call[h].ep \in overlapped
    BY <2>1 DEF AccountInv, TunnelsAccounted
  <2> QED
    BY <1>1, <2>1, <2>2, <2>3
<1>5. ASSUME NEW f \in Endpoints, NEW h \in Calls, tunnels'[f] = h, client'[h] = "gone"
      PROVE  \E d \in Calls : call'[d].tunnel = h /\ call'[d].at = "probing"
  <2>1. f # e /\ tunnels[f] = h /\ call[h].ep = f /\ client[h] = "gone"
    BY <1>1, <1>5, Types
  <2>2. PICK d \in Calls : call[d].tunnel = h /\ call[d].at = "probing"
    BY <2>1 DEF AccountInv, TunnelsAccounted, Over
  <2>3. call[d].ep = f
    BY <2>1, <2>2 DEF TypeInv, Shape
  <2> QED
    BY <2>1, <2>2, <2>3
<1>6. TunnelsAccounted'
  BY <1>4, <1>5 DEF TunnelsAccounted, Over
<1> QED
  BY <1>3, <1>6 DEF AccountInv

LEMMA AccountServerClosed ==
    ASSUME TypeInv, AccountInv, NEW h \in Calls, ServerClosed(h)
    PROVE  AccountInv'
<1>1. /\ server'[h] = "closed" /\ \A k \in Calls \ {h} : server'[k] = server[k]
      /\ \A k \in Calls : client'[k] = "gone" => client[k] = "gone"
      /\ \A c \in Calls : call'[c].ep = call[c].ep /\ call'[c].tunnel = call[c].tunnel
      /\ \A c \in Calls : call'[c].at = call[c].at
                          \/ (call[c].at = "failing" /\ call'[c].at = "ended")
      /\ UNCHANGED <<tunnels, overlapped>>
  BY CloseEnds
<1>2. \A c \in Calls : /\ call'[c].at \in UnderWay => call[c].at \in UnderWay
                       /\ call'[c].at \in {"connecting", "listening"} =>
                              call[c].at \in {"connecting", "listening"}
                       /\ call[c].at = "probing" => call'[c].at = "probing"
  BY <1>1 DEF UnderWay
<1>3. Alone'
  BY <1>1, <1>2 DEF AccountInv, Alone
<1>4. TunnelsAccounted'
  BY <1>1, <1>2 DEF AccountInv, TunnelsAccounted, Over
<1> QED
  BY <1>3, <1>4 DEF AccountInv

\* What is neither about calls nor about tunnels.
LEMMA AccountSame ==
    ASSUME TypeInv, AccountInv, UNCHANGED <<call, server, tunnels, overlapped>>,
           \A k \in Calls, e \in Endpoints :
               tunnels[e] = k /\ client'[k] = "gone" => client[k] = "gone"
    PROVE  AccountInv'
  BY DEF AccountInv, Alone, TunnelsAccounted, Over

LEMMA AccountSession ==
    ASSUME TypeInv, AccountInv, NEW h \in Calls, SessionLost(h) \/ SessionClosed(h)
    PROVE  AccountInv'
<1>1. /\ UNCHANGED <<call, overlapped>> /\ client \in [Calls -> {"none", "up", "ending", "gone"}]
      /\ \A k \in Calls \ {h} : client'[k] = client[k]
      /\ SessionLost(h) => client'[h] = "ending"
      /\ OnSessionEvent(h) \/ (SessionLost(h) /\ UNCHANGED <<server, tunnels, disturbed>>)
  BY DEF SessionLost, SessionClosed, TypeInv, TypeOK
<1>2. CASE UNCHANGED <<server, tunnels>> /\ (SessionLost(h) \/ server[h] = "none")
  <2>1. server[h] = "none" => \A e \in Endpoints : tunnels[e] # h
    BY DEF TypeInv, TypeOK
  <2> QED
    BY <1>1, <1>2, <2>1, AccountSame
<1>3. CASE call[h].ep \in Endpoints /\ CloseTunnel(call[h].ep)
  <2>1. \A k \in Calls : client'[k] = "gone" => client[k] = "gone" \/ call[k].ep = call[h].ep
    BY <1>1
  <2> QED
    BY <1>1, <1>3, <2>1, AccountCloses
<1> QED
  <2>1. CASE server[h] = "none"
    BY <1>1, <1>2, <2>1 DEF OnSessionEvent
  <2>2. CASE SessionLost(h) /\ UNCHANGED <<server, tunnels, disturbed>>
    BY <1>2, <2>2
  <2>3. CASE OnSessionEvent(h) /\ server[h] # "none"
    <3>1. call[h].at # "new"
      BY <2>3 DEF TypeInv, Shape
    <3> QED
      BY <1>3, <2>3, <3>1, Types DEF OnSessionEvent
  <2> QED
    BY <1>1, <2>1, <2>2, <2>3

LEMMA AccountNext == TypeInv /\ AccountInv /\ [Next]_vars => AccountInv'
<1> SUFFICES ASSUME TypeInv, AccountInv, [Next]_vars PROVE AccountInv'
  OBVIOUS
<1>1. ASSUME NEW c \in Calls, CallStep(c) PROVE AccountInv'
  <2>0. {"listening", "answered", "ended"} \subseteq UnderWay \cup {"ended"}
        /\ {"connecting", "listening", "probing", "answered"} \subseteq UnderWay
    BY DEF UnderWay
  <2>1. CASE Connected(c)
    <3>1. \A h \in Calls : client'[h] = "gone" => client[h] = "gone"
      BY <2>1 DEF Connected, TypeInv, TypeOK
    <3> QED
      BY <2>0, <2>1, <3>1, AccountGoes DEF Connected, historyVars
  <2>2. CASE ConnectFails(c)
    BY <2>0, <2>2, AccountGoes DEF ConnectFails, historyVars, tunnelVars
  <2>3. CASE Listen(c)
    BY <2>3, AccountListen
  <2>4. CASE ListenFails(c)
    <3>1. \A h \in Calls : client'[h] = "gone" => client[h] = "gone"
      BY <2>4 DEF ListenFails, TypeInv, TypeOK
    <3> QED
      BY <2>0, <2>4, <3>1, AccountGoes DEF ListenFails, historyVars
  <2>5. CASE ProbeAnswered(c)
    BY <2>0, <2>5, AccountGoes DEF ProbeAnswered, historyVars, tunnelVars
  <2>6. ASSUME call[c].at \in {"probing", "answered"}, Catch(c), UNCHANGED <<client, overlapped>>
        PROVE  AccountInv'
    <3>1. /\ call[c].ep \in Endpoints /\ CloseTunnel(call[c].ep)
          /\ call'[c].at \in {"ended", "failing"}
          /\ \A d \in Calls \ {c} : call'[d] = call[d]
          /\ \A d \in Calls : call'[d].ep = call[d].ep
      BY <2>6, Catches
    <3>2. \A d \in Calls : /\ call'[d].ep = call[d].ep
                           /\ call'[d].at \in UnderWay => call[d].at \in UnderWay
                           /\ call'[d] = call[d] \/
                                (call[d].ep = call[c].ep /\ call'[d].at \in {"ended", "failing"})
      BY <2>0, <2>6, <3>1
    <3> QED
      BY <2>6, <3>1, <3>2, AccountCloses
  <2>7. CASE ProbeFails(c)
    BY <2>6, <2>7 DEF ProbeFails, historyVars
  <2>8. CASE Attached(c)
    <3>1. CASE call' = [call EXCEPT ![c].at = "ended"] /\ UNCHANGED <<server, tunnels>>
      BY <2>0, <2>8, <3>1, AccountGoes DEF Attached, historyVars
    <3> QED
      BY <2>6, <2>8, <3>1 DEF Attached, historyVars
  <2> QED
    BY <1>1, <2>1, <2>2, <2>3, <2>4, <2>5, <2>7, <2>8 DEF CallStep
<1>2. ASSUME NEW e \in Endpoints, Detach(e) \/ ShutdownNext(e) PROVE AccountInv'
  <2>1. CloseTunnel(e) /\ UNCHANGED <<client, call, overlapped>>
    BY <1>2 DEF Detach, ShutdownNext
  <2> QED
    BY <2>1, AccountCloses
<1>3. ASSUME \/ \E h \in Calls : StreamBroken(h)
             \/ \E e \in Endpoints : Reconnect(e)
             \/ Shutdown \/ ShutdownEnd \/ UNCHANGED vars
      PROVE  AccountInv'
  <2>1. UNCHANGED <<call, server, client, tunnels, overlapped>>
    BY <1>3 DEF StreamBroken, Reconnect, Shutdown, ShutdownEnd, vars, tunnelVars, historyVars
  <2> QED
    BY <2>1, AccountSame
<1> QED
  BY <1>1, <1>2, <1>3, AccountAttach, AccountServerClosed, AccountSession
  DEF Next, TunnelStep, ShutdownStep

\* TunnelsAccounted: a local server that forwards is in the map, unless two
\* attach calls overlapped; and the map has no tunnel whose session is gone,
\* but for one that a health check is about to find out.
THEOREM NoStrayTunnels == Spec => []TunnelsAccounted
<1>1. AccountInv => TunnelsAccounted
  BY DEF AccountInv
<1> QED
  BY <1>1, AccountInit, AccountNext, TypeInvariant, PTL DEF Spec

-----------------------------------------------------------------------------
(* Attachments have their tunnels *)

\* On an endpoint where no operations met: a call that checks the health of a
\* tunnel checks the one in the map, and nobody attaches what is attached.
Undisturbed ==
    /\ \A c \in Calls :
           call[c].at \in {"probing", "answered"} /\ call[c].ep \notin disturbed =>
               tunnels[call[c].ep] = call[c].tunnel
    /\ \A c \in Calls :
           call[c].at \in UnderWay /\ call[c].ep \notin disturbed =>
               attachments[call[c].ep] = None

BackInv == Undisturbed /\ AttachmentsBacked /\ ClosingIsIdle

Invs == TypeInv /\ AccountInv /\ BackInv

LEMMA BackInit == Init => BackInv
  BY TunnelAssumption
  DEF TunnelAssumption, Init, BackInv, Undisturbed, AttachmentsBacked, ClosingIsIdle, UnderWay

LEMMA BackAttach ==
    ASSUME Invs, NEW c \in Calls, NEW e \in Endpoints, Attach(c, e)
    PROVE  BackInv'
<1>1. /\ call[c].ep = None /\ call[c].at = "new" /\ server[c] = "none"
      /\ call'[c].ep = e /\ call'[c].at \in {"ended", "probing", "connecting"}
      /\ call'[c].at = "probing" => call'[c].tunnel = tunnels[e]
      /\ call'[c].at # "ended" => attachments[e] = None
      /\ \A d \in Calls \ {c} : call'[d] = call[d]
      /\ disturbed \subseteq disturbed'
      /\ UNCHANGED <<server, tunnels, attachments, streams>>
  BY Attaches DEF Invs
<1>2. Undisturbed'
  BY <1>1 DEF Invs, BackInv, Undisturbed, UnderWay
<1>3. AttachmentsBacked'
  BY <1>1 DEF Invs, BackInv, AttachmentsBacked
<1>4. \A h \in streams : h \in Calls \ {c}
  BY <1>1, Types DEF Invs
<1>5. ClosingIsIdle'
  BY <1>1, <1>4 DEF Invs, BackInv, ClosingIsIdle
<1> QED
  BY <1>2, <1>3, <1>5 DEF BackInv

LEMMA BackGoes ==
    ASSUME Invs, NEW c \in Calls, NEW at \in UnderWay \cup {"ended"},
           call' = [call EXCEPT ![c].at = at],
           call[c].at \in UnderWay,
           at \in {"probing", "answered"} => call[c].at \in {"probing", "answered"},
           UNCHANGED <<server, tunnels, attachments, streams, disturbed>>
    PROVE  BackInv'
<1>1. /\ call'[c].at = at /\ \A d \in Calls \ {c} : call'[d] = call[d]
      /\ \A d \in Calls : call'[d].ep = call[d].ep /\ call'[d].tunnel = call[d].tunnel
  BY Goes DEF Invs
<1>2. \A d \in Calls : /\ call'[d].at \in UnderWay => call[d].at \in UnderWay
                       /\ call'[d].at \in {"probing", "answered"} =>
                              call[d].at \in {"probing", "answered"}
  BY <1>1
<1>3. Undisturbed'
  BY <1>1, <1>2 DEF Invs, BackInv, Undisturbed
<1>4. AttachmentsBacked' /\ ClosingIsIdle'
  BY <1>1, Types DEF Invs, BackInv, AttachmentsBacked, ClosingIsIdle
<1> QED
  BY <1>3, <1>4 DEF BackInv

\* Other calls of an undisturbed endpoint are not under way.
LEMMA Lonely ==
    ASSUME Invs, NEW c \in Calls, call[c].at \in UnderWay, call[c].ep \notin disturbed,
           NEW d \in Calls, d # c, call[d].at \in UnderWay
    PROVE  call[d].ep # call[c].ep
<1>1. overlapped \subseteq disturbed
  BY DEF Invs, TypeInv, TypeOK
<1> QED
  BY <1>1 DEF Invs, AccountInv, Alone

LEMMA BackListen ==
    ASSUME Invs, NEW c \in Calls, Listen(c)
    PROVE  BackInv'
<1> DEFINE e == call[c].ep
<1>1. /\ call'[c].at = "probing" /\ call'[c].tunnel = c /\ call[c].at \in UnderWay
      /\ \A d \in Calls \ {c} : call'[d] = call[d]
      /\ \A d \in Calls : call'[d].ep = call[d].ep
      /\ e \in Endpoints /\ server[c] = "none"
      /\ server'[c] = "listening" /\ \A h \in Calls \ {c} : server'[h] = server[h]
      /\ tunnels'[e] = c
      /\ \A f \in Endpoints : f # e => tunnels'[f] = tunnels[f]
      /\ UNCHANGED <<attachments, streams, disturbed>>
  BY Listens DEF Listen, Invs, UnderWay
<1>2. \A d \in Calls : d # c /\ call[d].at \in UnderWay /\ e \notin disturbed =>
          call[d].ep # e
  BY <1>1, Lonely
<1>3. e \notin disturbed => attachments[e] = None
  BY <1>1 DEF Invs, BackInv, Undisturbed
<1>4. {"probing", "answered"} \subseteq UnderWay
  BY DEF UnderWay
<1>5. \A d \in Calls : call'[d].at # "new" => call'[d].ep \in Endpoints
  BY <1>1, Types DEF Invs
<1> HIDE DEF e
<1>6. ASSUME NEW d \in Calls, call'[d].at \in {"probing", "answered"},
             call'[d].ep \notin disturbed'
      PROVE  tunnels'[call'[d].ep] = call'[d].tunnel
  <2>1. CASE d = c
    BY <1>1, <2>1 DEF e
  <2>2. CASE d # c
    <3>1. call[d].at \in UnderWay /\ call'[d] = call[d] /\ call[d].ep \in Endpoints
      BY <1>1, <1>4, <1>5, <1>6, <2>2
    <3>2. call[d].ep # e
      BY <1>1, <1>2, <1>6, <2>2, <3>1
    <3> QED
      BY <1>1, <1>6, <3>1, <3>2 DEF Invs, BackInv, Undisturbed
  <2> QED
    BY <2>1, <2>2
<1>7. \A d \in Calls : call'[d].at \in UnderWay => call[d].at \in UnderWay
  BY <1>1
<1>8. Undisturbed'
  BY <1>1, <1>6, <1>7 DEF Invs, BackInv, Undisturbed
<1>9. \A f \in Endpoints : attachments[f] # c
  BY <1>1 DEF Invs, TypeInv, Shape
<1>10. AttachmentsBacked'
  <2> SUFFICES ASSUME NEW f \in Endpoints, f \notin disturbed, attachments[f] # None
               PROVE  tunnels'[f] = attachments[f] \/ server'[attachments[f]] = "closing"
    BY <1>1 DEF AttachmentsBacked
  <2>1. f # e /\ attachments[f] \in Calls \ {c}
    BY <1>3, <1>9, Types DEF Invs
  <2> QED
    BY <1>1, <2>1 DEF Invs, BackInv, AttachmentsBacked
<1>11. ClosingIsIdle'
  <2>1. \A h \in streams : h \in Calls \ {c}
    BY <1>9, Types DEF Invs
  <2> QED
    BY <1>1, <2>1 DEF Invs, BackInv, ClosingIsIdle
<1> QED
  BY <1>8, <1>10, <1>11 DEF BackInv

LEMMA BackAttached ==
    ASSUME Invs, NEW c \in Calls, Attached(c), call[c].ep \notin nodes
    PROVE  BackInv'
<1> DEFINE e == call[c].ep
           h == call[c].tunnel
<1>1. /\ call[c].at = "answered" /\ e \in Endpoints /\ h \in Calls /\ h # None
      /\ call[h].ep = e
      /\ call' = [call EXCEPT ![c].at = "ended"]
      /\ attachments' = [attachments EXCEPT ![e] = h] /\ streams' \subseteq streams \cup {h}
      /\ UNCHANGED <<server, tunnels, disturbed>>
  BY Types DEF Attached, Invs, TypeInv, Shape, historyVars
<1>2. /\ call'[c].at = "ended" /\ \A d \in Calls \ {c} : call'[d] = call[d]
      /\ \A d \in Calls : call'[d].ep = call[d].ep /\ call'[d].tunnel = call[d].tunnel
  BY <1>1, Goes DEF Invs
<1>3. "answered" \in UnderWay /\ \A d \in Calls : call'[d].at \in UnderWay => d # c
  BY <1>2 DEF UnderWay
<1>4. e \notin disturbed => tunnels[e] = h
  BY <1>1 DEF Invs, BackInv, Undisturbed
<1>5. \A d \in Calls : d # c /\ call[d].at \in UnderWay /\ e \notin disturbed =>
          call[d].ep # e
  BY <1>1, <1>3, Lonely
<1> HIDE DEF e, h
<1>6. /\ attachments'[e] = h /\ \A f \in Endpoints : f # e => attachments'[f] = attachments[f]
  BY <1>1 DEF Invs, TypeInv, TypeOK
<1>7. Undisturbed'
  <2>1. ASSUME NEW d \in Calls, call'[d].at \in {"probing", "answered"},
               call'[d].ep \notin disturbed'
        PROVE  tunnels'[call'[d].ep] = call'[d].tunnel
    BY <1>1, <1>2, <2>1 DEF Invs, BackInv, Undisturbed
  <2>2. ASSUME NEW d \in Calls, call'[d].at \in UnderWay, call'[d].ep \notin disturbed'
        PROVE  attachments'[call'[d].ep] = None
    <3>1. d # c /\ call[d].at \in UnderWay /\ call[d].ep \notin disturbed
      BY <1>1, <1>2, <1>3, <2>2
    <3>2. call[d].ep # e /\ call[d].ep \in Endpoints
      BY <1>5, <3>1, Types DEF Invs, UnderWay
    <3> QED
      BY <1>2, <1>6, <3>1, <3>2 DEF Invs, BackInv, Undisturbed
  <2> QED
    BY <2>1, <2>2 DEF Undisturbed
<1>8. AttachmentsBacked'
  BY <1>1, <1>4, <1>6 DEF Invs, BackInv, AttachmentsBacked
<1>9. e \notin disturbed => server[h] = "listening"
  BY <1>1, <1>4 DEF Invs, TypeInv, TypeOK
<1>10. ClosingIsIdle'
  <2> SUFFICES ASSUME NEW k \in streams', server[k] = "closing"
               PROVE  call[k].ep \in disturbed
    BY <1>1, <1>2, Types DEF ClosingIsIdle, Invs
  <2>1. CASE k = h
    BY <1>1, <1>9, <2>1
  <2>2. CASE k # h
    BY <1>1, <2>2 DEF Invs, BackInv, ClosingIsIdle
  <2> QED
    BY <2>1, <2>2
<1> QED
  BY <1>7, <1>8, <1>10 DEF BackInv

LEMMA BackCatch ==
    ASSUME Invs, NEW c \in Calls, call[c].at \in {"probing", "answered"}, Catch(c),
           UNCHANGED <<attachments, streams, disturbed>>
    PROVE  BackInv'
<1> DEFINE e == call[c].ep
<1>1. /\ e \in Endpoints /\ CloseTunnel(e)
      /\ call'[c].at \in {"ended", "failing"}
      /\ \A d \in Calls \ {c} : call'[d] = call[d]
      /\ \A d \in Calls : call'[d].ep = call[d].ep
  BY Catches DEF Invs
<1>2. /\ tunnels'[e] = None
      /\ \A f \in Endpoints : f # e => tunnels'[f] = tunnels[f]
      /\ \A h \in Calls : h = tunnels[e] => server'[h] = "closing" /\ call[h].ep = e
      /\ \A h \in Calls : h # tunnels[e] => server'[h] = server[h]
  BY <1>1, Closes DEF Invs
<1>3. call[c].at \in UnderWay /\ {"probing", "answered"} \subseteq UnderWay
  BY DEF UnderWay
<1>4. \A d \in Calls : d # c /\ call[d].at \in UnderWay /\ e \notin disturbed =>
          call[d].ep # e
  BY <1>3, Lonely
<1>5. e \notin disturbed => attachments[e] = None
  BY <1>3 DEF Invs, BackInv, Undisturbed
<1> HIDE DEF e
<1>6. Undisturbed'
  <2>1. ASSUME NEW d \in Calls, call'[d].at \in {"probing", "answered"},
               call'[d].ep \notin disturbed'
        PROVE  tunnels'[call'[d].ep] = call'[d].tunnel
    <3>1. d # c /\ call'[d] = call[d] /\ call[d].at \in UnderWay
      BY <1>1, <1>3, <2>1
    <3>2. call[d].ep # e /\ call[d].ep \in Endpoints
      BY <1>4, <2>1, <3>1, Types DEF Invs, UnderWay
    <3> QED
      BY <1>2, <2>1, <3>1, <3>2 DEF Invs, BackInv, Undisturbed
  <2>2. ASSUME NEW d \in Calls, call'[d].at \in UnderWay, call'[d].ep \notin disturbed'
        PROVE  attachments'[call'[d].ep] = None
    BY <1>1, <1>3, <2>2 DEF Invs, BackInv, Undisturbed
  <2> QED
    BY <2>1, <2>2 DEF Undisturbed
<1>7. AttachmentsBacked'
  <2> SUFFICES ASSUME NEW f \in Endpoints, f \notin disturbed, attachments[f] # None
               PROVE  tunnels'[f] = attachments[f] \/ server'[attachments[f]] = "closing"
    BY DEF AttachmentsBacked
  <2>1. f # e /\ attachments[f] \in Calls
    BY <1>5, Types DEF Invs
  <2> QED
    BY <1>2, <2>1 DEF Invs, BackInv, AttachmentsBacked
<1>8. ClosingIsIdle'
  <2> SUFFICES ASSUME NEW h \in streams, server'[h] = "closing"
               PROVE  call[h].ep \in disturbed
    BY <1>1, Types DEF ClosingIsIdle, Invs
  <2>1. h \in Calls /\ attachments[call[h].ep] = h /\ h # None
    BY Types DEF Invs
  <2>2. CASE h = tunnels[e]
    BY <1>2, <1>5, <2>1, <2>2
  <2>3. CASE h # tunnels[e]
    BY <1>2, <2>1, <2>3 DEF Invs, BackInv, ClosingIsIdle
  <2> QED
    BY <2>2, <2>3
<1> QED
  BY <1>6, <1>7, <1>8 DEF BackInv

LEMMA BackDetaches ==
    ASSUME Invs, NEW e \in Endpoints, Detached(e), CloseTunnel(e), Disturb(e),
           UNCHANGED call
    PROVE  BackInv'
<1>1. /\ \A f \in Endpoints : f # e => tunnels'[f] = tunnels[f]
      /\ \A h \in Calls : h = tunnels[e] => server'[h] = "closing" /\ call[h].ep = e
      /\ \A h \in Calls : h # tunnels[e] => server'[h] = server[h]
  BY Closes DEF Invs
<1>2. /\ attachments'[e] = None
      /\ \A f \in Endpoints : f # e => attachments'[f] = attachments[f]
      /\ streams' \subseteq streams /\ \A h \in streams' : call[h].ep # e
  BY Detaches DEF Invs
<1>3. disturbed \subseteq disturbed' /\ (Busy(e) => e \in disturbed')
  BY DEF Disturb
<1>4. \A d \in Calls : call[d].at \in UnderWay /\ call[d].ep = e => e \in disturbed'
  BY <1>3 DEF Busy, Attaching, Of
<1>5. {"probing", "answered"} \subseteq UnderWay /\ "new" \notin UnderWay
  BY DEF UnderWay
<1>6. Undisturbed'
  <2> SUFFICES ASSUME NEW d \in Calls, call[d].at \in UnderWay, call[d].ep \notin disturbed'
               PROVE  /\ call[d].at \in {"probing", "answered"} =>
                             tunnels'[call[d].ep] = call[d].tunnel
                      /\ attachments'[call[d].ep] = None
    BY <1>5 DEF Undisturbed
  <2>1. call[d].ep # e /\ call[d].ep \in Endpoints
    BY <1>4, <1>5, Types DEF Invs
  <2> QED
    BY <1>1, <1>2, <1>3, <2>1 DEF Invs, BackInv, Undisturbed
<1>7. AttachmentsBacked'
  <2> SUFFICES ASSUME NEW f \in Endpoints, f \notin disturbed', attachments'[f] # None
               PROVE  tunnels'[f] = attachments'[f] \/ server'[attachments'[f]] = "closing"
    BY DEF AttachmentsBacked
  <2>1. f # e /\ attachments'[f] = attachments[f] /\ attachments[f] \in Calls
        /\ f \notin disturbed
    BY <1>2, <1>3, Types DEF Invs
  <2> QED
    BY <1>1, <2>1 DEF Invs, BackInv, AttachmentsBacked
<1>8. ClosingIsIdle'
  BY <1>1, <1>2, <1>3, Types DEF Invs, BackInv, ClosingIsIdle
<1> QED
  BY <1>6, <1>7, <1>8 DEF BackInv

LEMMA BackServerClosed ==
    ASSUME Invs, NEW h \in Calls, ServerClosed(h)
    PROVE  BackInv'
<1> DEFINE e == call[h].ep
<1>1. /\ e \in Endpoints /\ Detached(e)
      /\ server'[h] = "closed" /\ \A k \in Calls \ {h} : server'[k] = server[k]
      /\ \A c \in Calls : call'[c].ep = call[c].ep /\ call'[c].tunnel = call[c].tunnel
      /\ \A c \in Calls : call'[c].at = call[c].at
                          \/ (call[c].at = "failing" /\ call'[c].at = "ended")
      /\ UNCHANGED <<tunnels, disturbed>>
  BY CloseEnds DEF Invs
<1>2. /\ attachments'[e] = None
      /\ \A f \in Endpoints : f # e => attachments'[f] = attachments[f]
      /\ streams' \subseteq streams
  BY <1>1, Detaches DEF Invs
<1>3. \A c \in Calls : /\ call'[c].at \in UnderWay => call[c].at \in UnderWay
                       /\ call'[c].at \in {"probing", "answered"} =>
                              call[c].at \in {"probing", "answered"}
  BY <1>1 DEF UnderWay
<1>4. Undisturbed'
  <2>1. \A c \in Calls : call[c].at \in UnderWay => call[c].ep \in Endpoints
    BY Types DEF Invs, UnderWay
  <2> QED
    BY <1>1, <1>2, <1>3, <2>1 DEF Invs, BackInv, Undisturbed
<1>5. AttachmentsBacked'
  <2> SUFFICES ASSUME NEW f \in Endpoints, f \notin disturbed, attachments'[f] # None
               PROVE  tunnels[f] = attachments'[f] \/ server'[attachments'[f]] = "closing"
    BY <1>1 DEF AttachmentsBacked
  <2>1. f # e /\ attachments'[f] = attachments[f] /\ attachments[f] \in Calls
    BY <1>2, Types DEF Invs
  <2>2. attachments[f] # h
    BY <2>1 DEF Invs, TypeInv, Shape
  <2> QED
    BY <1>1, <2>1, <2>2 DEF Invs, BackInv, AttachmentsBacked
<1>6. ClosingIsIdle'
  BY <1>1, <1>2, Types DEF Invs, BackInv, ClosingIsIdle
<1> QED
  BY <1>4, <1>5, <1>6 DEF BackInv

LEMMA BackSession ==
    ASSUME Invs, NEW h \in Calls, SessionLost(h) \/ SessionClosed(h)
    PROVE  BackInv'
<1>1. /\ UNCHANGED <<call, attachments>> /\ streams' \subseteq streams /\ h \notin streams'
      /\ OnSessionEvent(h) \/ UNCHANGED <<server, tunnels, disturbed>>
  <2>1. SessionClosed(h) => h \notin streams
    BY DEF SessionClosed, Invs, TypeInv, Shape
  <2> QED
    BY <2>1 DEF SessionLost, SessionClosed, attachVars
<1>2. CASE UNCHANGED <<server, tunnels, disturbed>>
  BY <1>1, <1>2 DEF Invs, BackInv, Undisturbed, AttachmentsBacked, ClosingIsIdle
<1>3. CASE ~UNCHANGED <<server, tunnels, disturbed>>
  <2> DEFINE e == call[h].ep
  <2>1. /\ e \in Endpoints /\ CloseTunnel(e)
        /\ disturbed \subseteq disturbed'
        /\ tunnels[e] \notin {None, h} => e \in disturbed'
        /\ tunnels[e] = h /\ Busy(e) => e \in disturbed'
    BY <1>1, <1>3, SessionEvents DEF Invs
  <2>2. /\ \A f \in Endpoints : f # e => tunnels'[f] = tunnels[f]
        /\ \A k \in Calls : k = tunnels[e] => server'[k] = "closing" /\ call[k].ep = e
        /\ \A k \in Calls : k # tunnels[e] => server'[k] = server[k]
    BY <2>1, Closes DEF Invs
  <2> HIDE DEF e
  <2>3. Undisturbed'
    <3>1. ASSUME NEW d \in Calls, call[d].at \in {"probing", "answered"},
                 call[d].ep \notin disturbed'
          PROVE  tunnels'[call[d].ep] = call[d].tunnel
      <4>1. /\ call[d].ep \notin disturbed /\ call[d].ep \in Endpoints
            /\ tunnels[call[d].ep] = call[d].tunnel /\ call[d].tunnel # None
        BY <2>1, <3>1, Types DEF Invs, BackInv, Undisturbed, UnderWay
      <4>2. call[d].ep = e => Busy(e)
        BY <3>1 DEF Busy, Attaching, Of, UnderWay
      <4>3. call[d].ep # e
        BY <2>1, <3>1, <4>1, <4>2
      <4> QED
        BY <2>2, <4>1, <4>3
    <3>2. \A d \in Calls : call[d].at \in UnderWay /\ call[d].ep \notin disturbed' =>
              attachments[call[d].ep] = None
      BY <2>1 DEF Invs, BackInv, Undisturbed
    <3> QED
      BY <1>1, <3>1, <3>2 DEF Undisturbed
  <2>4. AttachmentsBacked'
    <3> SUFFICES ASSUME NEW f \in Endpoints, f \notin disturbed', attachments[f] # None
                 PROVE  tunnels'[f] = attachments[f] \/ server'[attachments[f]] = "closing"
      BY <1>1 DEF AttachmentsBacked
    <3>1. attachments[f] \in Calls /\ f \notin disturbed
      BY <2>1, Types DEF Invs
    <3>2. tunnels[f] = attachments[f] \/ server[attachments[f]] = "closing"
      BY <3>1 DEF Invs, BackInv, AttachmentsBacked
    <3> QED
      BY <2>2, <3>1, <3>2
  <2>5. ClosingIsIdle'
    <3> SUFFICES ASSUME NEW k \in streams', server'[k] = "closing"
                 PROVE  call[k].ep \in disturbed'
      BY <1>1 DEF ClosingIsIdle
    <3>1. k \in streams /\ k \in Calls /\ k # h /\ k # None
      BY <1>1, Types DEF Invs
    <3>2. CASE k = tunnels[e]
      BY <2>1, <2>2, <3>1, <3>2
    <3>3. CASE k # tunnels[e]
      BY <2>1, <2>2, <3>1, <3>3 DEF Invs, BackInv, ClosingIsIdle
    <3> QED
      BY <3>2, <3>3
  <2> QED
    BY <2>3, <2>4, <2>5 DEF BackInv
<1> QED
  BY <1>2, <1>3

LEMMA BackNext == Invs /\ [Next]_vars => BackInv'
<1> SUFFICES ASSUME Invs, [Next]_vars PROVE BackInv'
  OBVIOUS
<1>1. ASSUME NEW c \in Calls, CallStep(c) PROVE BackInv'
  <2>0. {"listening", "answered", "ended"} \subseteq UnderWay \cup {"ended"}
        /\ {"connecting", "listening", "probing", "answered"} \subseteq UnderWay
    BY DEF UnderWay
  <2>1. CASE Connected(c) \/ ConnectFails(c) \/ ListenFails(c) \/ ProbeAnswered(c)
    <3>1. UNCHANGED <<server, tunnels, attachments, streams, disturbed>>
      BY <2>1 DEF Connected, ConnectFails, ListenFails, ProbeAnswered, tunnelVars, attachVars,
                  historyVars
    <3>2. PICK at \in {"listening", "answered", "ended"} :
              /\ call' = [call EXCEPT ![c].at = at]
              /\ at = "answered" => call[c].at = "probing"
              /\ call[c].at \in {"connecting", "listening", "probing", "answered"}
      BY <2>1 DEF Connected, ConnectFails, ListenFails, ProbeAnswered
    <3> QED
      BY <2>0, <3>1, <3>2, BackGoes
  <2>2. CASE Listen(c)
    BY <2>2, BackListen
  <2>3. CASE ProbeFails(c)
    BY <2>3, BackCatch DEF ProbeFails, attachVars, historyVars
  <2>4. CASE Attached(c)
    <3>1. CASE call[c].ep \notin nodes
      BY <2>4, <3>1, BackAttached
    <3>2. CASE call[c].ep \in nodes
      <4>1. /\ Catch(c) /\ UNCHANGED <<attachments, streams, disturbed>>
            /\ call[c].at \in {"probing", "answered"}
        BY <2>4, <3>2 DEF Attached, attachVars, historyVars
      <4> QED
        BY <4>1, BackCatch
    <3> QED
      BY <3>1, <3>2
  <2> QED
    BY <1>1, <2>1, <2>2, <2>3, <2>4 DEF CallStep
<1>2. ASSUME NEW e \in Endpoints, Detach(e) \/ ShutdownNext(e) PROVE BackInv'
  BY <1>2, BackDetaches DEF Detach, ShutdownNext
<1>3. ASSUME NEW e \in Endpoints, Reconnect(e) PROVE BackInv'
  <2> DEFINE h == attachments[e]
  <2>1. /\ UNCHANGED <<call, server, tunnels, attachments, disturbed>>
        /\ streams' = streams \cup {h} /\ server[h] = "listening"
    BY <1>3 DEF Reconnect, tunnelVars, historyVars
  <2> HIDE DEF h
  <2> QED
    BY <2>1 DEF Invs, BackInv, Undisturbed, AttachmentsBacked, ClosingIsIdle
<1>4. ASSUME \/ \E h \in Calls : StreamBroken(h)
             \/ Shutdown \/ ShutdownEnd \/ UNCHANGED vars
      PROVE  BackInv'
  <2>1. UNCHANGED <<call, server, tunnels, attachments, disturbed>> /\ streams' \subseteq streams
    BY <1>4 DEF StreamBroken, Shutdown, ShutdownEnd, vars, tunnelVars, attachVars, historyVars
  <2> QED
    BY <2>1 DEF Invs, BackInv, Undisturbed, AttachmentsBacked, ClosingIsIdle
<1> QED
  BY <1>1, <1>2, <1>3, <1>4, BackAttach, BackServerClosed, BackSession
  DEF Next, TunnelStep, ShutdownStep

LEMMA BackInvariant == Spec => []BackInv
<1>1. Init => Invs
  BY TypeInit, AccountInit, BackInit DEF Invs
<1>2. Invs /\ [Next]_vars => Invs'
  BY TypeNext, AccountNext, BackNext DEF Invs
<1>3. Invs => BackInv
  BY DEF Invs
<1> QED
  BY <1>1, <1>2, <1>3, PTL DEF Spec

\* AttachmentsBacked: an attachment has its tunnel, in the map or about to close
\* and to take it away, unless operations on its endpoint met.
THEOREM AttachmentsHaveTunnels == Spec => []AttachmentsBacked
<1>1. BackInv => AttachmentsBacked
  BY DEF BackInv
<1> QED
  BY <1>1, BackInvariant, PTL

\* ClosingIsIdle: nobody waits for a server that a stream holds open, unless
\* operations on its endpoint met.
THEOREM ClosesAreIdle == Spec => []ClosingIsIdle
<1>1. BackInv => ClosingIsIdle
  BY DEF BackInv
<1> QED
  BY <1>1, BackInvariant, PTL
=============================================================================
