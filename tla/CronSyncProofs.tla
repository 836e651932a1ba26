--------------------------- MODULE CronSyncProofs ---------------------------
(***************************************************************************)
(* Theorems about CronSync, for any files, jobs, requests and bounds.      *)
(***************************************************************************)
EXTENDS CronSync, TLAPS

-----------------------------------------------------------------------------
(* Type correctness *)

\* The types of a request's parts.
Offsets == [Jobs -> 0 .. MaxRecords]
Contents == [Files -> Content \cup {Nothing}]

LEMMA Constants ==
    /\ Unparsable \subseteq JobLists
    /\ Missing \notin JobLists \cup Configs
    /\ Nothing \notin Content
    /\ "jobs" \notin Jobs /\ "config" \notin Jobs
    /\ Files = {"jobs", "config"}
    /\ MaxRecords \in Nat
    /\ MaxChanges \in Nat /\ MaxFaults \in Nat /\ MaxCrashes \in Nat
BY CronSyncAssumption DEF CronSyncAssumption, Content, Files

LEMMA RequestParts ==
    ASSUME NEW q
    PROVE  q \in Request <=>
             /\ q = [at |-> q.at, sent |-> q.sent, hash |-> q.hash,
                     from |-> q.from, next |-> q.next]
             /\ q.at \in {"none", "late", "sent", "handled"}
             /\ q.sent \in Contents /\ q.hash \in Contents
             /\ q.from \in Offsets /\ q.next \in Offsets
BY DEF Request, Awaited, Contents, Offsets

LEMMA NoRequestType ==
    NoRequest \in Request /\ NoRequest.at = "none"
BY Constants DEF NoRequest, Request, Awaited

LEMMA LateType ==
    ASSUME NEW q \in Request
    PROVE  /\ Late(q) \in Request /\ Late(q).at = "late"
           /\ Late(q).sent = q.sent /\ Late(q).from = q.from /\ Late(q).next = q.next
BY DEF Late, Request, Awaited

\* What each machine's files may hold is of their type.
LEMMA ContentTypes ==
    ASSUME NEW x \in Files, NEW v \in ContentsOf(x)
    PROVE  /\ v \in Content /\ Read(x, v) \in ContentsOf(x)
           /\ v # Nothing /\ Read(x, v) # Nothing
BY Constants DEF ContentsOf, Content, Read, Parsed

\* TypeOK in parts that the actions change together.
SourceTypes ==
    /\ file \in [Files -> Content] /\ runs \in Offsets
    /\ \A x \in Files : file[x] \in ContentsOf(x)
    /\ truncated \subseteq Jobs
BridgeTypes ==
    /\ bridge \in {"down", "first", "running"}
    /\ hash \in Contents /\ offset \in Offsets
    /\ saved \in [hash : Contents, offset : Offsets]
    /\ bridge = "down" => hash = saved.hash /\ offset = saved.offset
PushTypes ==
    /\ push \in [Pushes -> Request]
    /\ bridge = "down" => \A p \in Pushes : push[p].at \notin Awaited
MirrorTypes ==
    /\ mirror \in [Files -> Content] /\ \A x \in Files : mirror[x] \in ContentsOf(x)
    /\ target \in BOOLEAN
CopyTypes == copies \in [Jobs -> [1 .. MaxRecords -> Nat]]
BoundTypes ==
    /\ changes \in 0 .. MaxChanges /\ faults \in 0 .. MaxFaults
    /\ crashes \in 0 .. MaxCrashes
DoubtTypes == doubt \subseteq Files \cup Jobs

\* What a request says of a file is something the file can hold.
SentTypes ==
    \A p \in Pushes : \A x \in Files : push[p].sent[x] \in ContentsOf(x) \cup {Nothing}

TypeInv ==
    /\ SourceTypes /\ BridgeTypes /\ PushTypes /\ MirrorTypes /\ CopyTypes
    /\ BoundTypes /\ DoubtTypes /\ SentTypes

LEMMA TypeParts == TypeInv => TypeOK
<1>1. ASSUME BridgeTypes
      PROVE  [hash |-> hash, offset |-> offset] \in State /\ saved \in State
  BY <1>1 DEF BridgeTypes, State, Contents, Offsets
<1> QED
  BY <1>1 DEF TypeInv, TypeOK, SourceTypes, BridgeTypes, PushTypes, MirrorTypes,
     CopyTypes, BoundTypes, DoubtTypes, Offsets

\* Steps that leave a part alone.
LEMMA Kept ==
    /\ UNCHANGED sourceVars => (SourceTypes => SourceTypes')
    /\ UNCHANGED bridgeVars => (BridgeTypes => BridgeTypes')
    /\ UNCHANGED push => (SentTypes => SentTypes')
    /\ UNCHANGED <<push, bridge>> => (PushTypes => PushTypes')
    /\ UNCHANGED <<mirror, target>> => (MirrorTypes => MirrorTypes')
    /\ UNCHANGED copies => (CopyTypes => CopyTypes')
    /\ UNCHANGED boundVars => (BoundTypes => BoundTypes')
    /\ UNCHANGED doubt => (DoubtTypes => DoubtTypes')
BY DEF SourceTypes, BridgeTypes, PushTypes, MirrorTypes, CopyTypes, BoundTypes, DoubtTypes,
   SentTypes, sourceVars, bridgeVars, boundVars

LEMMA BoundKept ==
    ASSUME BoundTypes
    PROVE  /\ Change /\ UNCHANGED <<faults, crashes>> => BoundTypes'
           /\ Fault /\ UNCHANGED <<changes, crashes>> => BoundTypes'
           /\ UNCHANGED <<changes, faults, crashes>> => BoundTypes'
           /\ crashes < MaxCrashes /\ crashes' = crashes + 1
                /\ UNCHANGED <<changes, faults>> => BoundTypes'
BY Constants DEF BoundTypes, Change, Fault

\* A request ends, or is no longer waited for.
LEMMA PushChange ==
    ASSUME PushTypes, SentTypes, NEW q \in Pushes, NEW r \in Request,
           r.sent = push[q].sent \/ r = NoRequest,
           push' = [push EXCEPT ![q] = r],
           bridge' = "down" => bridge = "down" /\ r.at \notin Awaited
    PROVE  PushTypes' /\ SentTypes'
<1>1. push' \in [Pushes -> Request] /\ \A p \in Pushes : push'[p] = IF p = q THEN r ELSE push[p]
  BY DEF PushTypes
<1>2. \A x \in Files : NoRequest.sent[x] = Nothing
  BY DEF NoRequest
<1>3. SentTypes'
  BY <1>1, <1>2 DEF SentTypes
<1>4. bridge' = "down" => \A p \in Pushes : push'[p].at \notin Awaited
  BY <1>1 DEF PushTypes
<1> QED
  BY <1>1, <1>3, <1>4 DEF PushTypes

\* What a request brings is files and jobs.
LEMMA BringsType == \A q : Brings(q) \subseteq Files \cup Jobs
BY DEF Brings

LEMMA MachineTypes ==
    ASSUME TypeInv,
           \/ \E x \in Files : \E v \in ContentsOf(x) : WriteFile(x, v)
           \/ \E f \in Jobs : Record(f) \/ Truncate(f)
    PROVE  TypeInv'
<1>0. /\ SourceTypes /\ BridgeTypes /\ PushTypes /\ MirrorTypes /\ CopyTypes
      /\ BoundTypes /\ DoubtTypes /\ SentTypes
  BY DEF TypeInv
<1>1. UNCHANGED <<bridgeVars, push, serverVars, doubt>>
  BY DEF WriteFile, Record, Truncate
<1>2. BridgeTypes' /\ PushTypes' /\ MirrorTypes' /\ CopyTypes' /\ DoubtTypes' /\ SentTypes'
  BY <1>0, <1>1, Kept DEF serverVars, bridgeVars
<1>3. BoundTypes'
  BY <1>0, BoundKept DEF WriteFile, Record, Truncate, boundVars
<1>4. ASSUME NEW x \in Files, NEW v \in ContentsOf(x), WriteFile(x, v) PROVE SourceTypes'
  BY <1>0, <1>4, ContentTypes DEF WriteFile, SourceTypes
<1>5. ASSUME NEW f \in Jobs, Record(f) PROVE SourceTypes'
  BY <1>0, <1>5, Constants DEF Record, SourceTypes, Offsets
<1>6. ASSUME NEW f \in Jobs, Truncate(f) PROVE SourceTypes'
  <2>1. PICK n \in 0 .. runs[f] - 1 : runs' = [runs EXCEPT ![f] = n]
    BY <1>6 DEF Truncate
  <2>2. runs[f] \in 0 .. MaxRecords
    BY <1>0 DEF SourceTypes, Offsets
  <2>3. n \in 0 .. MaxRecords
    BY <2>2, Constants
  <2> QED
    BY <1>0, <1>6, <2>1, <2>3 DEF Truncate, SourceTypes, Offsets
<1> QED
  BY <1>2, <1>3, <1>4, <1>5, <1>6 DEF TypeInv

\* A new request.
LEMMA DeltaType ==
    ASSUME TypeInv, NEW later \in ContentsOf("jobs")
    PROVE  /\ Delta(later) \in Request /\ Delta(later).at = "sent"
           /\ \A x \in Files : Delta(later).sent[x] \in ContentsOf(x) \cup {Nothing}
           /\ \A f \in Jobs : Delta(later).from[f] = SafeOffset(f)
           /\ Delta(later).next = runs
<1>1. file \in [Files -> Content] /\ \A x \in Files : file[x] \in ContentsOf(x)
  BY DEF TypeInv, SourceTypes
<1>2. Parsed(later) \in ContentsOf("jobs") /\ "jobs" \in Files
  BY Constants, ContentTypes DEF Parsed, ContentsOf
<1>3. \A x \in Files : Delta(later).sent[x] \in ContentsOf(x) \cup {Nothing}
  BY <1>1, <1>2 DEF Delta
<1>4. \A x \in Files : ContentsOf(x) \subseteq Content
  BY ContentTypes
<1>5. Delta(later).sent \in Contents
  <2>1. Delta(later).sent = [x \in Files |-> Delta(later).sent[x]]
    BY DEF Delta
  <2>2. \A x \in Files : Delta(later).sent[x] \in Content \cup {Nothing}
    BY <1>3, <1>4
  <2> QED
    BY <2>1, <2>2 DEF Contents
<1>6. Delta(later).hash \in Contents
  BY <1>1 DEF Delta, Contents
<1>7. Delta(later).from \in Offsets /\ Delta(later).next \in Offsets
  <2>1. offset \in Offsets /\ runs \in Offsets
    BY DEF TypeInv, BridgeTypes, SourceTypes
  <2>2. \A f \in Jobs : SafeOffset(f) \in 0 .. MaxRecords
    BY <2>1, Constants DEF SafeOffset, Offsets
  <2> QED
    BY <2>1, <2>2 DEF Delta, Offsets
<1>8. Delta(later).at = "sent" /\ Delta(later).next = runs
      /\ \A f \in Jobs : Delta(later).from[f] = SafeOffset(f)
  BY DEF Delta
<1>9. Delta(later) = [at |-> Delta(later).at, sent |-> Delta(later).sent,
                     hash |-> Delta(later).hash, from |-> Delta(later).from,
                     next |-> Delta(later).next]
  BY DEF Delta
<1> HIDE DEF Delta
<1>10. Delta(later) \in Request
  BY <1>5, <1>6, <1>7, <1>8, <1>9 DEF Request, Contents, Offsets, Awaited
<1> QED
  BY <1>3, <1>8, <1>10

LEMMA PusherTypes ==
    ASSUME TypeInv,
           \/ Start \/ Arm \/ Crash
           \/ \E p \in Pushes : Push(p) \/ Answer(p) \/ GiveUp(p)
    PROVE  TypeInv'
<1>0. /\ SourceTypes /\ BridgeTypes /\ PushTypes /\ MirrorTypes /\ CopyTypes
      /\ BoundTypes /\ DoubtTypes /\ SentTypes
  BY DEF TypeInv
<1>1. UNCHANGED serverVars
  BY DEF Start, Arm, Crash, Push, Answer, GiveUp
<1>2. MirrorTypes' /\ CopyTypes'
  BY <1>0, <1>1, Kept DEF serverVars
<1>t. ASSUME NEW p \in Pushes PROVE push[p] \in Request
  BY <1>0 DEF PushTypes
<1>3. CASE Start \/ Arm
  <2>1. UNCHANGED <<sourceVars, hash, offset, saved, push, boundVars, doubt>>
    BY <1>3 DEF Start, Arm
  <2>2. SourceTypes' /\ BoundTypes' /\ DoubtTypes' /\ SentTypes'
    BY <1>0, <2>1, Kept
  <2>3. bridge' \in {"first", "running"}
    BY <1>3 DEF Start, Arm
  <2>4. BridgeTypes' /\ PushTypes'
    BY <1>0, <2>1, <2>3 DEF BridgeTypes, PushTypes
  <2> QED
    BY <1>2, <2>2, <2>4 DEF TypeInv
<1>4. CASE Crash
  <2>1. SourceTypes' /\ BoundTypes'
    BY <1>0, <1>4, Kept, BoundKept DEF Crash
  <2>2. BridgeTypes'
    BY <1>0, <1>4 DEF Crash, BridgeTypes
  <2>3. \A p \in Pushes :
           /\ push'[p] \in Request /\ push'[p].at \notin Awaited
           /\ push'[p].sent = push[p].sent \/ push'[p] = NoRequest
    <3> SUFFICES ASSUME NEW p \in Pushes
                 PROVE  /\ push'[p] \in Request /\ push'[p].at \notin Awaited
                        /\ push'[p].sent = push[p].sent \/ push'[p] = NoRequest
      OBVIOUS
    <3>1. push'[p] = CASE push[p].at = "sent" -> Late(push[p])
                       [] push[p].at = "handled" -> NoRequest
                       [] OTHER -> push[p]
      BY <1>4 DEF Crash
    <3>2. push[p] \in Request
      BY <1>t
    <3>3. CASE push[p].at = "sent"
      BY <3>1, <3>2, <3>3, LateType DEF Awaited
    <3>4. CASE push[p].at = "handled"
      BY <3>1, <3>4, NoRequestType DEF Awaited
    <3>5. CASE push[p].at \notin Awaited
      BY <3>1, <3>2, <3>5 DEF Awaited
    <3> QED
      BY <3>3, <3>4, <3>5 DEF Awaited
  <2>4. push' \in [Pushes -> Request]
    <3>1. DOMAIN push' = Pushes /\ push' = [p \in Pushes |-> push'[p]]
      BY <1>4 DEF Crash
    <3> QED
      BY <3>1, <2>3
  <2>5. PushTypes'
    BY <2>3, <2>4 DEF PushTypes
  <2>6. SentTypes'
    <3>1. \A x \in Files : NoRequest.sent[x] = Nothing
      BY DEF NoRequest
    <3> QED
      BY <1>0, <2>3, <3>1 DEF SentTypes
  <2>7. DoubtTypes'
    <3> DEFINE U == UNION {Brings(push[p]) : p \in InFlight}
               A == {x \in Files : hash[x] # saved.hash[x]}
               B == {f \in Jobs : offset[f] # saved.offset[f]}
    <3>1. U \subseteq Files \cup Jobs
      BY BringsType
    <3>2. A \subseteq Files /\ B \subseteq Jobs
      OBVIOUS
    <3>3. doubt' = doubt \cup U \cup A \cup B
      BY <1>4, Zenon DEF Crash
    <3> HIDE DEF U, A, B
    <3> QED
      BY <1>0, <3>1, <3>2, <3>3 DEF DoubtTypes
  <2> QED
    BY <1>2, <2>1, <2>2, <2>5, <2>6, <2>7 DEF TypeInv
<1>5. ASSUME NEW p \in Pushes, Push(p) PROVE TypeInv'
  <2>1. PICK later \in ContentsOf("jobs") :
           /\ IF later = file["jobs"] THEN UNCHANGED <<file, changes>>
              ELSE Change /\ Delta(later).sent["jobs"] # Nothing
                   /\ file' = [file EXCEPT !["jobs"] = later]
           /\ push' = [push EXCEPT ![p] = Delta(later)]
           /\ doubt' = doubt \cup Crossed(Delta(later))
    BY <1>5 DEF Push
  <2>2. UNCHANGED <<runs, truncated, bridgeVars, faults, crashes>> /\ bridge # "down"
    BY <1>5 DEF Push
  <2>3. /\ Delta(later) \in Request
        /\ \A x \in Files : Delta(later).sent[x] \in ContentsOf(x) \cup {Nothing}
    BY DeltaType
  <2>4. later \in Content /\ "jobs" \in Files
    BY ContentTypes, Constants
  <2>5. SourceTypes'
    <3>1. CASE UNCHANGED file
      BY <1>0, <2>2, <3>1 DEF SourceTypes
    <3>2. CASE file' = [file EXCEPT !["jobs"] = later]
      BY <1>0, <2>2, <2>4, <3>2 DEF SourceTypes
    <3> QED
      BY <2>1, <3>1, <3>2
  <2>6. BoundTypes'
    BY <1>0, <2>1, <2>2, BoundKept
  <2>7. BridgeTypes'
    BY <1>0, <2>2, Kept
  <2>8. /\ push' \in [Pushes -> Request]
        /\ \A q \in Pushes : push'[q] = IF q = p THEN Delta(later) ELSE push[q]
    BY <1>0, <2>1, <2>3 DEF PushTypes
  <2>9. PushTypes' /\ SentTypes'
    BY <1>0, <2>2, <2>3, <2>8 DEF PushTypes, SentTypes, bridgeVars
  <2>10. DoubtTypes'
    <3>1. Crossed(Delta(later)) \subseteq Files \cup Jobs
      BY DEF Crossed
    <3> QED
      BY <1>0, <2>1, <3>1 DEF DoubtTypes
  <2> QED
    BY <1>2, <2>5, <2>6, <2>7, <2>9, <2>10 DEF TypeInv
<1>6. ASSUME NEW p \in Pushes, Answer(p) PROVE TypeInv'
  <2> DEFINE q == push[p]
  <2>1. q \in Request /\ q.at = "handled" /\ bridge # "down"
    BY <1>0, <1>6, <1>t DEF Answer, PushTypes, Awaited
  <2>2. q.hash \in Contents /\ q.next \in Offsets
    BY <2>1, RequestParts
  <2>3. /\ hash' = q.hash /\ offset' = q.next /\ bridge' = bridge
        /\ saved' = saved \/ saved' = [hash |-> q.hash, offset |-> q.next]
    BY <1>6 DEF Answer, Acknowledged
  <2>4. BridgeTypes'
    BY <1>0, <2>1, <2>2, <2>3 DEF BridgeTypes
  <2>5. SourceTypes' /\ DoubtTypes' /\ BoundTypes'
    BY <1>0, <1>6, Kept, BoundKept DEF Answer
  <2>6. push' = [push EXCEPT ![p] = NoRequest]
    BY <1>6 DEF Answer
  <2>7. PushTypes' /\ SentTypes'
    BY <1>0, <2>1, <2>3, <2>6, NoRequestType, PushChange
  <2> QED
    BY <1>2, <2>4, <2>5, <2>7 DEF TypeInv
<1>7. ASSUME NEW p \in Pushes, GiveUp(p) PROVE TypeInv'
  <2> DEFINE r == IF push[p].at = "sent" THEN Late(push[p]) ELSE NoRequest
  <2>1. push[p] \in Request /\ push' = [push EXCEPT ![p] = r]
    BY <1>7, <1>t, <1>0 DEF GiveUp, PushTypes
  <2>2. r \in Request /\ r.at \notin Awaited /\ (r.sent = push[p].sent \/ r = NoRequest)
    BY <2>1, LateType, NoRequestType DEF Awaited
  <2>3. UNCHANGED <<sourceVars, bridgeVars>>
    BY <1>7 DEF GiveUp
  <2> HIDE DEF r
  <2>4. PushTypes' /\ SentTypes'
    BY <1>0, <2>1, <2>2, <2>3, PushChange DEF bridgeVars
  <2>5. SourceTypes' /\ BridgeTypes' /\ BoundTypes'
    BY <1>0, <1>7, <2>3, Kept, BoundKept DEF GiveUp
  <2>6. DoubtTypes'
    BY <1>0, <1>7, BringsType DEF GiveUp, DoubtTypes
  <2> QED
    BY <1>2, <2>4, <2>5, <2>6 DEF TypeInv
<1> QED
  BY <1>3, <1>4, <1>5, <1>6, <1>7

\* What the server writes is of its files' types.
LEMMA MirroredType ==
    ASSUME TypeInv, NEW p \in Pushes, NEW X
    PROVE  /\ Mirrored(push[p], X) \in [Files -> Content]
           /\ \A x \in Files : Mirrored(push[p], X)[x] \in ContentsOf(x)
<1>1. \A x \in Files : push[p].sent[x] \in ContentsOf(x) \cup {Nothing}
  BY DEF TypeInv, SentTypes
<1>2. \A x \in Files : mirror[x] \in ContentsOf(x)
  BY DEF TypeInv, MirrorTypes
<1>3. \A x \in Files : Mirrored(push[p], X)[x] \in ContentsOf(x)
  BY <1>1, <1>2 DEF Mirrored
<1>4. \A x \in Files : Mirrored(push[p], X)[x] \in Content
  BY <1>3, ContentTypes
<1> QED
  BY <1>3, <1>4 DEF Mirrored

LEMMA AppendedType ==
    ASSUME TypeInv, NEW q, NEW F
    PROVE  Appended(q, F) \in [Jobs -> [1 .. MaxRecords -> Nat]]
<1>1. \A f \in Jobs, n \in 1 .. MaxRecords : copies[f][n] \in Nat /\ copies[f][n] + 1 \in Nat
  <2> TAKE f \in Jobs, n \in 1 .. MaxRecords
  <2>1. copies[f] \in [1 .. MaxRecords -> Nat]
    BY DEF TypeInv, CopyTypes
  <2>2. copies[f][n] \in Nat
    BY <2>1
  <2> QED
    BY <2>2
<1>2. \A f \in Jobs, n \in 1 .. MaxRecords :
         (IF f \in F /\ n \in q.from[f] + 1 .. q.next[f]
          THEN copies[f][n] + 1 ELSE copies[f][n]) \in Nat
  BY <1>1
<1> QED
  BY <1>2 DEF Appended

LEMMA RouteTypes ==
    ASSUME TypeInv,
           \/ Remove
           \/ \E v \in Configs : Configure(v)
           \/ \E p \in Pushes : Handle(p) \/ HandlePartly(p) \/ Refuse(p)
    PROVE  TypeInv'
<1>0. /\ SourceTypes /\ BridgeTypes /\ PushTypes /\ MirrorTypes /\ CopyTypes
      /\ BoundTypes /\ DoubtTypes /\ SentTypes
  BY DEF TypeInv
<1>1. UNCHANGED <<sourceVars, bridgeVars>>
  BY DEF Remove, Configure, Handle, HandlePartly, Refuse
<1>2. SourceTypes' /\ BridgeTypes'
  BY <1>0, <1>1, Kept
<1>t. ASSUME NEW p \in Pushes PROVE push[p] \in Request
  BY <1>0 DEF PushTypes
<1>3. CASE Remove
  <2>1. PushTypes' /\ SentTypes' /\ CopyTypes' /\ DoubtTypes'
    BY <1>0, <1>1, <1>3, Kept DEF Remove, bridgeVars
  <2>2. MirrorTypes'
    BY <1>0, <1>3 DEF Remove, MirrorTypes
  <2>3. BoundTypes'
    BY <1>0, <1>3, BoundKept DEF Remove
  <2> QED
    BY <1>2, <2>1, <2>2, <2>3 DEF TypeInv
<1>4. ASSUME NEW v \in Configs, Configure(v) PROVE TypeInv'
  <2>1. PushTypes' /\ SentTypes' /\ CopyTypes'
    BY <1>0, <1>1, <1>4, Kept DEF Configure, bridgeVars
  <2>2. MirrorTypes'
    BY <1>0, <1>4 DEF Configure, MirrorTypes, ContentsOf, Content, Files
  <2>3. BoundTypes'
    BY <1>0, <1>4, BoundKept DEF Configure
  <2>4. DoubtTypes'
    BY <1>0, <1>4 DEF Configure, DoubtTypes, Files
  <2> QED
    BY <1>2, <2>1, <2>2, <2>3, <2>4 DEF TypeInv
<1>5. ASSUME NEW p \in Pushes, Handle(p) PROVE TypeInv'
  <2> DEFINE r == IF push[p].at = "sent" THEN [push[p] EXCEPT !.at = "handled"] ELSE NoRequest
  <2>1. push[p] \in Request /\ push' = [push EXCEPT ![p] = r]
    BY <1>5, <1>t, <1>0 DEF Handle, PushTypes
  <2>2. r \in Request /\ (r.sent = push[p].sent \/ r = NoRequest)
    BY <2>1, NoRequestType DEF Request, Awaited
  <2>3. bridge' = "down" => bridge = "down" /\ r.at \notin Awaited
    BY <1>0, <1>1, NoRequestType DEF PushTypes, bridgeVars, Awaited
  <2> HIDE DEF r
  <2>4. PushTypes' /\ SentTypes'
    BY <1>0, <2>1, <2>2, <2>3, PushChange
  <2>5. MirrorTypes' /\ CopyTypes'
    BY <1>5, MirroredType, AppendedType DEF Handle, MirrorTypes, CopyTypes
  <2>6. BoundTypes' /\ DoubtTypes'
    BY <1>0, <1>5, Kept DEF Handle, DoubtTypes, Torn
  <2> QED
    BY <1>2, <2>4, <2>5, <2>6 DEF TypeInv
<1>6. ASSUME NEW p \in Pushes, HandlePartly(p) PROVE TypeInv'
  <2>1. push' = [push EXCEPT ![p] = NoRequest]
    BY <1>6 DEF HandlePartly
  <2>2. PushTypes' /\ SentTypes'
    BY <1>0, <1>1, <2>1, NoRequestType, PushChange DEF bridgeVars, Awaited
  <2>3. MirrorTypes' /\ CopyTypes'
    <3>1. PICK X, F : /\ mirror' = Mirrored(push[p], X)
                      /\ copies' = Appended(push[p], F)
      BY <1>6 DEF HandlePartly
    <3>2. target' = TRUE
      BY <1>6 DEF HandlePartly
    <3> QED
      BY <3>1, <3>2, MirroredType, AppendedType DEF MirrorTypes, CopyTypes
  <2>4. BoundTypes' /\ DoubtTypes'
    BY <1>0, <1>6, BoundKept, BringsType DEF HandlePartly, DoubtTypes
  <2> QED
    BY <1>2, <2>2, <2>3, <2>4 DEF TypeInv
<1>7. ASSUME NEW p \in Pushes, Refuse(p) PROVE TypeInv'
  <2>1. push' = [push EXCEPT ![p] = NoRequest]
    BY <1>7 DEF Refuse
  <2>2. PushTypes' /\ SentTypes'
    BY <1>0, <1>1, <2>1, NoRequestType, PushChange DEF bridgeVars, Awaited
  <2>3. MirrorTypes' /\ CopyTypes' /\ DoubtTypes'
    BY <1>0, <1>7, Kept DEF Refuse, serverVars
  <2>4. BoundTypes'
    BY <1>0, <1>7, BoundKept DEF Refuse
  <2> QED
    BY <1>2, <2>2, <2>3, <2>4 DEF TypeInv
<1> QED
  BY <1>3, <1>4, <1>5, <1>6, <1>7

LEMMA TypeNext == TypeInv /\ [Next]_vars => TypeInv'
<1>1. TypeInv /\ UNCHANGED vars => TypeInv'
  BY Kept DEF TypeInv, vars, sourceVars, bridgeVars, boundVars
<1> QED
  BY <1>1, MachineTypes, PusherTypes, RouteTypes DEF Next

LEMMA TypeInit == Init => TypeInv
<1> SUFFICES ASSUME Init PROVE TypeInv
  OBVIOUS
<1>0. [f \in Jobs |-> 0] \in Offsets /\ [x \in Files |-> Nothing] \in Contents
  BY Constants DEF Offsets, Contents
<1>1. SourceTypes
  BY <1>0 DEF Init, SourceTypes
<1>2. BridgeTypes
  BY <1>0 DEF Init, BridgeTypes
<1>3. \A p \in Pushes : push[p] = NoRequest
  BY DEF Init
<1>4. \A x \in Files : NoRequest.sent[x] = Nothing
  BY DEF NoRequest
<1>5. PushTypes
  BY <1>3, NoRequestType DEF Init, PushTypes, Awaited
<1>6. SentTypes
  BY <1>3, <1>4 DEF SentTypes
<1>7. MirrorTypes
  BY DEF Init, MirrorTypes, ContentsOf, Content
<1>8. CopyTypes
  BY DEF Init, CopyTypes
<1>9. BoundTypes /\ DoubtTypes
  BY Constants DEF Init, BoundTypes, DoubtTypes
<1> QED
  BY <1>1, <1>2, <1>5, <1>6, <1>7, <1>8, <1>9 DEF TypeInv

LEMMA TypeInvariant == Spec => []TypeInv
BY TypeInit, TypeNext, PTL DEF Spec

\* TypeOK: in every reachable state the variables hold values of their types, and
\* a bridge that is down waits for no answer and remembers what its file says.
THEOREM SyncTypeCorrect == Spec => []TypeOK
BY TypeInvariant, TypeParts, PTL

-----------------------------------------------------------------------------
(* No record is missing *)

Covered(f, n) == \A k \in 1 .. MaxRecords : k <= n => copies[f][k] > 0

\* The server has every record before an offset, before the first that a request
\* brings, and, once it is handled, before the next it says.
Mirrors(f) ==
    /\ offset[f] <= runs[f] /\ saved.offset[f] <= runs[f]
    /\ Covered(f, offset[f]) /\ Covered(f, saved.offset[f])
    /\ \A p \in Pushes :
          /\ push[p].from[f] <= push[p].next[f] /\ push[p].next[f] <= runs[f]
          /\ Covered(f, push[p].from[f])
          /\ push[p].at = "handled" => Covered(f, push[p].next[f])
MirrorInv == \A f \in Jobs \ truncated : Mirrors(f)

\* The numbers of a job.
LEMMA JobTypes ==
    ASSUME TypeInv, NEW f \in Jobs
    PROVE  /\ offset[f] \in 0 .. MaxRecords /\ saved.offset[f] \in 0 .. MaxRecords
           /\ runs[f] \in 0 .. MaxRecords
           /\ \A p \in Pushes :
                 /\ push[p] \in Request
                 /\ push[p].from[f] \in 0 .. MaxRecords
                 /\ push[p].next[f] \in 0 .. MaxRecords
           /\ \A n \in 1 .. MaxRecords : copies[f][n] \in Nat
<1>1. \A p \in Pushes : push[p] \in Request
  BY DEF TypeInv, PushTypes
<1>2. ASSUME NEW p \in Pushes
      PROVE  push[p].from[f] \in 0 .. MaxRecords /\ push[p].next[f] \in 0 .. MaxRecords
  BY <1>1, RequestParts DEF Offsets
<1>3. copies[f] \in [1 .. MaxRecords -> Nat]
  BY DEF TypeInv, CopyTypes
<1> QED
  BY <1>1, <1>2, <1>3 DEF TypeInv, BridgeTypes, SourceTypes, Offsets

\* A request that ended says nothing of a job.
LEMMA Ended == \A f \in Jobs : NoRequest.from[f] = 0 /\ NoRequest.next[f] = 0
BY DEF NoRequest

LEMMA NoneCovered == ASSUME NEW f PROVE Covered(f, 0)
BY Constants DEF Covered

\* Steps that leave the requests and the pusher alone.
LEMMA MirrorSame ==
    ASSUME TypeInv, NEW f \in Jobs, Mirrors(f), UNCHANGED <<offset, saved, push, copies>>,
           runs'[f] \in Nat, runs[f] <= runs'[f]
    PROVE  Mirrors(f)'
BY JobTypes DEF Mirrors, Covered

\* Steps that end requests, stop waiting for them or append their records.
LEMMA MirrorRequests ==
    ASSUME TypeInv, NEW f \in Jobs, Mirrors(f), runs' = runs,
           offset'[f] \in {offset[f], saved.offset[f]}, saved' = saved,
           \A n \in 1 .. MaxRecords : copies[f][n] > 0 => copies'[f][n] > 0,
           \A p \in Pushes :
              \/ push'[p] = push[p]
              \/ push'[p].from[f] = 0 /\ push'[p].next[f] = 0
              \/ /\ push'[p].from[f] = push[p].from[f]
                 /\ push'[p].next[f] = push[p].next[f]
                 /\ push'[p].at = "handled" => Covered(f, push[p].next[f])'
    PROVE  Mirrors(f)'
<1>1. \A k \in 0 .. MaxRecords : Covered(f, k) => Covered(f, k)'
  BY DEF Covered
<1>2. Covered(f, offset[f])' /\ Covered(f, saved.offset[f])'
      /\ offset'[f] <= runs'[f] /\ saved'.offset[f] <= runs'[f]
  BY <1>1, JobTypes DEF Mirrors, Covered
<1>3. ASSUME NEW p \in Pushes
      PROVE  /\ push'[p].from[f] <= push'[p].next[f] /\ push'[p].next[f] <= runs'[f]
             /\ Covered(f, push[p].from[f])'
             /\ push'[p].at = "handled" => Covered(f, push[p].next[f])'
  <2>1. CASE push'[p] = push[p]
    BY <2>1, <1>1, JobTypes DEF Mirrors, Covered
  <2>2. CASE push'[p].from[f] = 0 /\ push'[p].next[f] = 0
    BY <2>2, JobTypes, Constants DEF Covered
  <2>3. CASE /\ push'[p].from[f] = push[p].from[f]
             /\ push'[p].next[f] = push[p].next[f]
             /\ push'[p].at = "handled" => Covered(f, push[p].next[f])'
    BY <2>3, <1>1, JobTypes DEF Mirrors, Covered
  <2> QED
    BY <2>1, <2>2, <2>3
<1> QED
  BY <1>2, <1>3 DEF Mirrors

\* Records that are appended are there, and none is lost.
LEMMA AppendedGrows ==
    ASSUME TypeInv, NEW q, NEW F, NEW f \in Jobs, NEW n \in 1 .. MaxRecords
    PROVE  /\ copies[f][n] > 0 => Appended(q, F)[f][n] > 0
           /\ f \in F /\ n \in q.from[f] + 1 .. q.next[f] => Appended(q, F)[f][n] > 0
<1>1. copies[f][n] \in Nat
  BY JobTypes
<1> QED
  BY <1>1 DEF Appended

LEMMA MirrorNext ==
    ASSUME TypeInv, TypeInv', MirrorInv, [Next]_vars
    PROVE  MirrorInv'
<1>0. truncated \subseteq truncated'
  BY DEF Next, WriteFile, Record, Truncate, Start, Arm, Crash, Push, Answer, GiveUp, Handle,
     HandlePartly, Refuse, Remove, Configure, vars, sourceVars
<1> SUFFICES ASSUME NEW f \in Jobs \ truncated' PROVE Mirrors(f)'
  BY DEF MirrorInv
<1>i. f \in Jobs /\ Mirrors(f)
  BY <1>0 DEF MirrorInv
<1>t. DOMAIN push = Pushes
  BY DEF TypeInv, PushTypes
<1>1. CASE \/ \E x \in Files : \E v \in ContentsOf(x) : WriteFile(x, v)
           \/ Start \/ Arm \/ Remove \/ (\E v \in Configs : Configure(v)) \/ UNCHANGED vars
  <2>1. UNCHANGED <<offset, saved, push, copies, runs>>
    BY <1>1 DEF WriteFile, Start, Arm, Remove, Configure, vars, sourceVars, bridgeVars, serverVars
  <2> QED
    BY <2>1, <1>i, MirrorSame, JobTypes
<1>2. ASSUME NEW g \in Jobs, Record(g) \/ Truncate(g) PROVE Mirrors(f)'
  <2>1. UNCHANGED <<offset, saved, push, copies>>
    BY <1>2 DEF Record, Truncate, bridgeVars, serverVars
  <2>2. runs'[f] \in 0 .. MaxRecords
    BY DEF TypeInv, SourceTypes, Offsets
  <2>3. runs \in Offsets
    BY DEF TypeInv, SourceTypes
  <2>4. runs[f] <= runs'[f]
    <3>1. CASE Record(g)
      BY <3>1, <2>3, Constants DEF Record, Offsets
    <3>2. CASE Truncate(g)
      <4>1. f # g /\ runs'[f] = runs[f]
        BY <3>2, <2>3 DEF Truncate, Offsets
      <4> QED
        BY <4>1, <2>3, Constants DEF Offsets
    <3> QED
      BY <1>2, <3>1, <3>2
  <2> QED
    BY <2>1, <2>2, <2>4, <1>i, MirrorSame
<1>3. CASE Crash
  <2>1. /\ runs' = runs /\ saved' = saved /\ copies' = copies /\ offset' = saved.offset
    BY <1>3 DEF Crash, sourceVars, serverVars
  <2>2. ASSUME NEW p \in Pushes
        PROVE  \/ push'[p] = push[p]
               \/ push'[p].from[f] = 0 /\ push'[p].next[f] = 0
               \/ /\ push'[p].from[f] = push[p].from[f]
                  /\ push'[p].next[f] = push[p].next[f]
                  /\ push'[p].at # "handled"
    <3>1. push[p] \in Request
      BY JobTypes, <1>i
    <3>2. push'[p] = CASE push[p].at = "sent" -> Late(push[p])
                       [] push[p].at = "handled" -> NoRequest
                       [] OTHER -> push[p]
      BY <1>3 DEF Crash
    <3> QED
      BY <3>1, <3>2, LateType, Ended, <1>i
  <2> QED
    BY <2>1, <2>2, <1>i, MirrorRequests
<1>4. ASSUME NEW p \in Pushes, Push(p) PROVE Mirrors(f)'
  <2>1. PICK later \in ContentsOf("jobs") : push' = [push EXCEPT ![p] = Delta(later)]
    BY <1>4 DEF Push
  <2>2. UNCHANGED <<offset, saved, runs, copies>>
    BY <1>4 DEF Push, bridgeVars, serverVars
  <2>3. /\ Delta(later).from[f] = offset[f] /\ Delta(later).next[f] = runs[f]
        /\ Delta(later).at = "sent"
    BY DeltaType, JobTypes, <1>i DEF SafeOffset, Mirrors
  <2>4. \A q \in Pushes : push'[q] = IF q = p THEN Delta(later) ELSE push[q]
    BY <2>1, <1>t
  <2>5. \A k : Covered(f, k)' <=> Covered(f, k)
    BY <2>2 DEF Covered
  <2>6. /\ offset'[f] <= runs'[f] /\ saved'.offset[f] <= runs'[f]
        /\ Covered(f, offset[f])' /\ Covered(f, saved.offset[f])'
    BY <2>2, <1>i DEF Mirrors, Covered
  <2>7. ASSUME NEW q \in Pushes
        PROVE  /\ push'[q].from[f] <= push'[q].next[f] /\ push'[q].next[f] <= runs'[f]
               /\ Covered(f, push[q].from[f])'
               /\ push'[q].at = "handled" => Covered(f, push[q].next[f])'
    <3>1. CASE q = p
      <4>1. push'[q] = Delta(later)
        BY <3>1, <2>4
      <4> HIDE DEF Delta
      <4>2. /\ push'[q].from[f] = offset[f] /\ push'[q].next[f] = runs[f]
            /\ push'[q].at # "handled"
        BY <4>1, <2>3
      <4>3. Covered(f, push[q].from[f])'
        BY <4>2, <2>2, <1>i DEF Mirrors, Covered
      <4> QED
        BY <4>2, <4>3, <2>2, <1>i, JobTypes DEF Mirrors
    <3>2. CASE q # p
      <4>1. push'[q] = push[q]
        BY <3>2, <2>4
      <4> QED
        BY <4>1, <2>2, <1>i DEF Mirrors, Covered
    <3> QED
      BY <3>1, <3>2
  <2> QED
    BY <2>6, <2>7 DEF Mirrors
<1>5. ASSUME NEW p \in Pushes, Answer(p) PROVE Mirrors(f)'
  <2>1. /\ push[p].at = "handled" /\ push' = [push EXCEPT ![p] = NoRequest]
        /\ UNCHANGED <<runs, copies>> /\ offset' = push[p].next
        /\ saved' = saved \/ saved' = [hash |-> push[p].hash, offset |-> push[p].next]
    BY <1>5 DEF Answer, sourceVars, serverVars, Acknowledged
  <2>2. saved'.offset[f] \in {saved.offset[f], push[p].next[f]}
    BY <2>1
  <2>3. offset'[f] = push[p].next[f]
    BY <2>1
  <2>4. \A q \in Pushes : push'[q] = IF q = p THEN NoRequest ELSE push[q]
    BY <2>1, <1>t
  <2>5. Covered(f, push[p].next[f]) /\ push[p].next[f] <= runs[f]
    BY <2>1, <1>i DEF Mirrors
  <2>6. \A k : Covered(f, k)' <=> Covered(f, k)
    BY <2>1 DEF Covered
  <2>7. /\ offset'[f] <= runs'[f] /\ saved'.offset[f] <= runs'[f]
        /\ Covered(f, offset[f])' /\ Covered(f, saved.offset[f])'
    BY <2>1, <2>2, <2>3, <2>5, <1>i DEF Mirrors, Covered
  <2>8. ASSUME NEW q \in Pushes
        PROVE  /\ push'[q].from[f] <= push'[q].next[f] /\ push'[q].next[f] <= runs'[f]
               /\ Covered(f, push[q].from[f])'
               /\ push'[q].at = "handled" => Covered(f, push[q].next[f])'
    <3>1. CASE q = p
      BY <3>1, <2>1, <2>4, <1>i, Ended, NoRequestType, JobTypes, Constants DEF Covered
    <3>2. CASE q # p
      BY <3>2, <2>1, <2>4, <1>i DEF Mirrors, Covered
    <3> QED
      BY <3>1, <3>2
  <2> QED
    BY <2>7, <2>8 DEF Mirrors
<1>6. ASSUME NEW p \in Pushes, GiveUp(p) PROVE Mirrors(f)'
  <2>1. UNCHANGED <<runs, offset, saved, copies>>
    BY <1>6 DEF GiveUp, sourceVars, bridgeVars, serverVars
  <2>2. \A q \in Pushes :
           push'[q] = IF q # p THEN push[q]
                      ELSE IF push[p].at = "sent" THEN Late(push[p]) ELSE NoRequest
    BY <1>6, <1>t DEF GiveUp
  <2>3. push[p] \in Request
    BY JobTypes, <1>i
  <2> QED
    BY <2>1, <2>2, <2>3, LateType, Ended, <1>i, MirrorRequests
<1>7. ASSUME NEW p \in Pushes, Handle(p) PROVE Mirrors(f)'
  <2>1. UNCHANGED <<runs, offset, saved>> /\ copies' = Appended(push[p], Jobs)
    BY <1>7 DEF Handle, sourceVars, bridgeVars
  <2>2. \A q \in Pushes :
           push'[q] = IF q # p THEN push[q]
                      ELSE IF push[p].at = "sent" THEN [push[p] EXCEPT !.at = "handled"]
                      ELSE NoRequest
    BY <1>7, <1>t DEF Handle
  <2>3. push[p] \in Request
    BY JobTypes, <1>i
  <2>4. ASSUME NEW n \in 1 .. MaxRecords
        PROVE  /\ copies[f][n] > 0 => copies'[f][n] > 0
               /\ n \in push[p].from[f] + 1 .. push[p].next[f] => copies'[f][n] > 0
    BY <2>1, <1>i, AppendedGrows
  <2>5. \A n \in 1 .. MaxRecords : n <= push[p].next[f] => copies'[f][n] > 0
    <3> TAKE n \in 1 .. MaxRecords
    <3>1. n <= push[p].from[f] \/ push[p].from[f] + 1 <= n
      BY JobTypes, <1>i
    <3>2. n <= push[p].from[f] => copies[f][n] > 0
      BY <1>i DEF Mirrors, Covered
    <3> QED
      BY <3>1, <3>2, <2>4, JobTypes, <1>i
  <2>6. \A q \in Pushes :
           \/ push'[q] = push[q]
           \/ push'[q].from[f] = 0 /\ push'[q].next[f] = 0
           \/ /\ push'[q].from[f] = push[q].from[f]
              /\ push'[q].next[f] = push[q].next[f]
              /\ push'[q].at = "handled" => Covered(f, push[q].next[f])'
    <3> TAKE q \in Pushes
    <3>1. CASE q # p
      BY <3>1, <2>2
    <3>2. CASE q = p /\ push[p].at # "sent"
      BY <3>2, <2>2, Ended, <1>i
    <3>3. CASE q = p /\ push[p].at = "sent"
      <4>1. /\ push'[q].from[f] = push[q].from[f]
            /\ push'[q].next[f] = push[q].next[f]
        BY <3>3, <2>2, <2>3 DEF Request
      <4>2. Covered(f, push[q].next[f])'
        BY <4>1, <3>3, <2>5 DEF Covered
      <4> QED
        BY <4>1, <4>2
    <3> QED
      BY <3>1, <3>2, <3>3
  <2> QED
    BY <2>1, <2>4, <2>6, <1>i, MirrorRequests
<1>8. ASSUME NEW p \in Pushes, HandlePartly(p) \/ Refuse(p) PROVE Mirrors(f)'
  <2>1. UNCHANGED <<runs, offset, saved>> /\ push' = [push EXCEPT ![p] = NoRequest]
    BY <1>8 DEF HandlePartly, Refuse, sourceVars, bridgeVars
  <2>2. \A n \in 1 .. MaxRecords : copies[f][n] > 0 => copies'[f][n] > 0
    <3>1. CASE Refuse(p)
      BY <3>1 DEF Refuse, serverVars
    <3>2. CASE HandlePartly(p)
      <4>1. PICK F : copies' = Appended(push[p], F)
        BY <3>2 DEF HandlePartly
      <4> QED
        BY <4>1, <1>i, AppendedGrows
    <3> QED
      BY <1>8, <3>1, <3>2
  <2>3. \A q \in Pushes : push'[q] = IF q = p THEN NoRequest ELSE push[q]
    BY <2>1, <1>t
  <2> QED
    BY <2>1, <2>2, <2>3, Ended, <1>i, MirrorRequests
<1> QED
  BY <1>1, <1>2, <1>3, <1>4, <1>5, <1>6, <1>7, <1>8 DEF Next

LEMMA MirrorInit == Init => MirrorInv
<1> SUFFICES ASSUME Init, NEW f \in Jobs PROVE Mirrors(f)
  BY DEF MirrorInv
<1>1. offset[f] = 0 /\ saved.offset[f] = 0 /\ runs[f] = 0
  BY DEF Init
<1>2. \A p \in Pushes : push[p] = NoRequest
  BY DEF Init
<1> QED
  BY <1>1, <1>2, Ended, NoRequestType, NoneCovered DEF Mirrors

-----------------------------------------------------------------------------
(* No record is there twice *)

Carries(q, f) == q.from[f] < q.next[f]

\* The requests waited for say the same of a job and begin at the pusher's
\* offset; at most one request carries records, and it is waited for; and the
\* server has no record beyond the offset that no handled request carried.
Once(f) ==
    /\ \A n \in 1 .. MaxRecords : copies[f][n] <= 1
    /\ \A p, q \in Pushes :
          push[p].at \in Awaited /\ push[q].at \in Awaited => push[p].next[f] = push[q].next[f]
    /\ \A p, q \in Pushes : Carries(push[p], f) /\ Carries(push[q], f) => p = q
    /\ \A p \in Pushes : push[p].at \in Awaited => push[p].from[f] = offset[f]
    /\ \A p \in Pushes : Carries(push[p], f) => push[p].at \in Awaited
    /\ \A n \in 1 .. MaxRecords : copies[f][n] > 0 =>
          \/ n <= offset[f]
          \/ \E p \in Pushes : push[p].at = "handled" /\ n <= push[p].next[f]
OnceInv == \A f \in Jobs \ (truncated \cup doubt) : Once(f)

LEMMA CarriedIsBrought ==
    ASSUME NEW q, NEW f \in Jobs
    PROVE  f \in Brings(q) <=> Carries(q, f)
BY Constants DEF Brings, Carries

\* Steps that end requests that carry nothing, or stop waiting for them.
LEMMA OnceEnds ==
    ASSUME TypeInv, NEW f \in Jobs, Mirrors(f), Once(f),
           \A n \in 1 .. MaxRecords : copies'[f][n] = copies[f][n],
           offset'[f] = offset[f],
           \A p \in Pushes :
              \/ push'[p] = push[p]
              \/ /\ ~ Carries(push[p], f) \/ push[p].at # "handled"
                 /\ push'[p].from[f] = 0 /\ push'[p].next[f] = 0 /\ push'[p].at = "none"
              \/ /\ ~ Carries(push[p], f) /\ push[p].at = "sent" /\ push'[p].at = "late"
                 /\ push'[p].from[f] = push[p].from[f] /\ push'[p].next[f] = push[p].next[f]
    PROVE  Once(f)'
<1>1. \A p \in Pushes : Carries(push[p], f)' => push'[p] = push[p] /\ Carries(push[p], f)
  BY JobTypes DEF Carries
<1>2. \A p \in Pushes : push'[p].at \in Awaited => push'[p] = push[p]
  BY DEF Awaited
<1> DEFINE There(n) ==
             \/ n <= offset'[f]
             \/ \E p \in Pushes : push'[p].at = "handled" /\ n <= push'[p].next[f]
<1>3. ASSUME NEW n \in 1 .. MaxRecords, copies'[f][n] > 0 PROVE There(n)
  <2>1. CASE n <= offset[f]
    BY <2>1
  <2>2. ASSUME NEW p \in Pushes, push[p].at = "handled", n <= push[p].next[f] PROVE There(n)
    <3>1. CASE push'[p] = push[p]
      BY <2>2, <3>1
    <3>2. CASE push'[p] # push[p]
      <4>1. ~ Carries(push[p], f)
        BY <2>2, <3>2
      <4>2. push[p].next[f] <= offset[f]
        BY <4>1, <2>2, JobTypes DEF Carries, Mirrors, Once, Awaited
      <4> QED
        BY <4>2, <2>2, JobTypes
    <3> QED
      BY <3>1, <3>2
  <2> QED
    BY <1>3, <2>1, <2>2 DEF Once
<1> QED
  BY <1>1, <1>2, <1>3 DEF Once

LEMMA OnceNext ==
    ASSUME TypeInv, MirrorInv, OnceInv, [Next]_vars
    PROVE  OnceInv'
<1>0. truncated \subseteq truncated'
  BY DEF Next, WriteFile, Record, Truncate, Start, Arm, Crash, Push, Answer, GiveUp, Handle,
     HandlePartly, Refuse, Remove, Configure, vars, sourceVars
<1> SUFFICES ASSUME NEW f \in Jobs, f \notin truncated', f \notin doubt' PROVE Once(f)'
  BY DEF OnceInv
<1>c. f \notin Files
  BY Constants
<1>i. f \notin doubt => Mirrors(f) /\ Once(f)
  BY <1>0 DEF MirrorInv, OnceInv
<1>t. DOMAIN push = Pushes
  BY DEF TypeInv, PushTypes
<1>r. \A p \in Pushes : push[p] \in Request
  BY JobTypes
<1>1. CASE \/ \E x \in Files : \E v \in ContentsOf(x) : WriteFile(x, v)
           \/ \E g \in Jobs : Record(g) \/ Truncate(g)
           \/ Start \/ Arm \/ Remove \/ (\E v \in Configs : Configure(v)) \/ UNCHANGED vars
  <2>1. UNCHANGED <<offset, push, copies>> /\ doubt \subseteq doubt'
    BY <1>1 DEF WriteFile, Record, Truncate, Start, Arm, Remove, Configure, vars, bridgeVars,
       serverVars
  <2> QED
    BY <2>1, <1>i DEF Once, Carries
<1>2. CASE Crash
  <2>1. /\ copies' = copies /\ offset' = saved.offset
        /\ f \notin doubt /\ f \notin UNION {Brings(push[p]) : p \in InFlight}
        /\ offset[f] = saved.offset[f]
    BY <1>2, Zenon DEF Crash, serverVars
  <2>2. ASSUME NEW p \in Pushes, push[p].at # "none" PROVE ~ Carries(push[p], f)
    <3>1. Brings(push[p]) \in {Brings(push[q]) : q \in InFlight}
      BY <2>2 DEF InFlight
    <3> QED
      BY <2>1, <3>1, CarriedIsBrought
  <2>3. \A p \in Pushes :
           push'[p] = CASE push[p].at = "sent" -> Late(push[p])
                        [] push[p].at = "handled" -> NoRequest
                        [] OTHER -> push[p]
    BY <1>2 DEF Crash
  <2>4. ASSUME NEW p \in Pushes
        PROVE  \/ push'[p] = push[p]
               \/ /\ ~ Carries(push[p], f) \/ push[p].at # "handled"
                  /\ push'[p].from[f] = 0 /\ push'[p].next[f] = 0 /\ push'[p].at = "none"
               \/ /\ ~ Carries(push[p], f) /\ push[p].at = "sent" /\ push'[p].at = "late"
                  /\ push'[p].from[f] = push[p].from[f] /\ push'[p].next[f] = push[p].next[f]
    BY <2>2, <2>3, <1>r, LateType, Ended, NoRequestType
  <2> QED
    BY <2>1, <2>4, <1>i, OnceEnds
<1>3. ASSUME NEW p \in Pushes, Push(p) PROVE Once(f)'
  <2>1. PICK later \in ContentsOf("jobs") :
           /\ push' = [push EXCEPT ![p] = Delta(later)]
           /\ doubt' = doubt \cup Crossed(Delta(later))
    BY <1>3 DEF Push
  <2> DEFINE new == Delta(later)
  <2>2. /\ UNCHANGED <<offset, copies>> /\ push[p].at = "none"
        /\ Mirrors(f) /\ Once(f) /\ f \notin Crossed(new)
    BY <1>3, <1>i, <2>1 DEF Push, bridgeVars, serverVars
  <2>3. new.from[f] = offset[f] /\ new.next[f] = runs[f] /\ new.at = "sent"
    BY DeltaType, JobTypes, <2>2 DEF SafeOffset, Mirrors
  <2> HIDE DEF new
  <2>4. \A q \in Pushes : push'[q] = IF q = p THEN new ELSE push[q]
    BY <2>1, <1>t DEF new
  <2>5. ASSUME NEW q \in Pushes, push[q].at # "none"
        PROVE  /\ ~ (Carries(push[q], f) /\ Carries(new, f))
               /\ push[q].at \in Awaited => push[q].next[f] = new.next[f]
    <3>1. AgreeOnRuns(push[q], new, f)
      BY <2>2, <2>5 DEF Crossed, InFlight
    <3> QED
      BY <3>1, CarriedIsBrought DEF AgreeOnRuns
  <2>6. \A q \in Pushes : Carries(push[q], f) => push[q].at # "none"
    BY <2>2 DEF Once, Awaited
  <2>7. \A n \in 1 .. MaxRecords : copies'[f][n] > 0 =>
          \/ n <= offset'[f]
          \/ \E q \in Pushes : push'[q].at = "handled" /\ n <= push'[q].next[f]
    <3>1. \A q \in Pushes : push[q].at = "handled" => push'[q] = push[q]
      BY <2>2, <2>4
    <3> QED
      BY <2>2, <3>1 DEF Once
  <2>8. \A n \in 1 .. MaxRecords : copies'[f][n] <= 1
    BY <2>2 DEF Once
  <2>9. \A q, r \in Pushes :
          push'[q].at \in Awaited /\ push'[r].at \in Awaited => push'[q].next[f] = push'[r].next[f]
    BY <2>2, <2>4, <2>5 DEF Once, Awaited
  <2>10. \A q, r \in Pushes : Carries(push[q], f)' /\ Carries(push[r], f)' => q = r
    BY <2>2, <2>4, <2>5, <2>6 DEF Once, Carries
  <2>11. \A q \in Pushes : push'[q].at \in Awaited => push'[q].from[f] = offset'[f]
    BY <2>2, <2>3, <2>4 DEF Once
  <2>12. \A q \in Pushes : Carries(push[q], f)' => push'[q].at \in Awaited
    BY <2>2, <2>3, <2>4 DEF Once, Awaited, Carries
  <2> QED
    BY <2>7, <2>8, <2>9, <2>10, <2>11, <2>12 DEF Once
<1>4. ASSUME NEW p \in Pushes, Answer(p) PROVE Once(f)'
  <2>1. /\ push[p].at = "handled" /\ push' = [push EXCEPT ![p] = NoRequest]
        /\ copies' = copies /\ offset' = push[p].next /\ f \notin doubt
    BY <1>4 DEF Answer, serverVars, Acknowledged
  <2>2. Mirrors(f) /\ Once(f)
    BY <1>i, <2>1
  <2>3. \A q \in Pushes : push'[q] = IF q = p THEN NoRequest ELSE push[q]
    BY <2>1, <1>t
  <2>4. /\ NoRequest.at \notin Awaited /\ ~ Carries(NoRequest, f)
        /\ \A q \in Pushes : push'[q].at \in Awaited => q # p /\ push'[q] = push[q]
        /\ \A q \in Pushes : Carries(push[q], f)' => q # p /\ push'[q] = push[q]
    BY <2>3, NoRequestType, Ended DEF Awaited, Carries
  <2>5. ASSUME NEW q \in Pushes, q # p, push[q].at \in Awaited
        PROVE  push[q].from[f] = push[p].next[f]
    <3>1. /\ push[q].next[f] = push[p].next[f] /\ push[p].from[f] = offset[f]
          /\ push[q].from[f] = offset[f]
      BY <2>1, <2>2, <2>5 DEF Once, Awaited
    <3>2. ~ (Carries(push[p], f) /\ Carries(push[q], f))
      BY <2>2, <2>5 DEF Once
    <3>3. push[p].from[f] = push[p].next[f] \/ push[q].from[f] = push[q].next[f]
      BY <3>2, <2>2, JobTypes DEF Carries, Mirrors
    <3> QED
      BY <3>1, <3>3
  <2>6. ASSUME NEW n \in 1 .. MaxRecords, copies[f][n] > 0
        PROVE  n <= push[p].next[f]
    <3>1. push[p].from[f] <= push[p].next[f] /\ push[p].from[f] = offset[f]
      BY <2>1, <2>2 DEF Mirrors, Once, Awaited
    <3>2. CASE n <= offset[f]
      BY <3>1, <3>2, JobTypes
    <3>3. ASSUME NEW q \in Pushes, push[q].at = "handled", n <= push[q].next[f]
          PROVE  n <= push[p].next[f]
      BY <3>3, <2>1, <2>2 DEF Once, Awaited
    <3> QED
      BY <2>2, <2>6, <3>2, <3>3 DEF Once
  <2>7. offset'[f] = push[p].next[f]
    BY <2>1
  <2>8. \A q \in Pushes : push'[q].at \in Awaited => push'[q].from[f] = offset'[f]
    BY <2>4, <2>5, <2>7
  <2>9. \A n \in 1 .. MaxRecords : copies'[f][n] > 0 => n <= offset'[f]
    BY <2>1, <2>6, <2>7
  <2> QED
    BY <2>1, <2>2, <2>4, <2>8, <2>9 DEF Once
<1>5. ASSUME NEW p \in Pushes, GiveUp(p) PROVE Once(f)'
  <2>1. UNCHANGED <<offset, copies>> /\ f \notin doubt /\ ~ Carries(push[p], f)
    BY <1>5, CarriedIsBrought DEF GiveUp, bridgeVars, serverVars
  <2>2. \A q \in Pushes :
           push'[q] = IF q # p THEN push[q]
                      ELSE IF push[p].at = "sent" THEN Late(push[p]) ELSE NoRequest
    BY <1>5, <1>t DEF GiveUp
  <2> QED
    BY <2>1, <2>2, <1>i, <1>r, LateType, Ended, NoRequestType, OnceEnds
<1>6. ASSUME NEW p \in Pushes, Handle(p) PROVE Once(f)'
  <2>1. /\ offset' = offset /\ copies' = Appended(push[p], Jobs) /\ push[p].at \in {"sent", "late"}
        /\ f \notin doubt
    BY <1>6, <1>c DEF Handle, bridgeVars, Arrived, Settled
  <2>2. Mirrors(f) /\ Once(f)
    BY <1>i, <2>1
  <2>3. \A n \in 1 .. MaxRecords :
           copies'[f][n] = IF n \in push[p].from[f] + 1 .. push[p].next[f]
                           THEN copies[f][n] + 1 ELSE copies[f][n]
    BY <2>1 DEF Appended
  <2>4. \A q \in Pushes :
           push'[q] = IF q # p THEN push[q]
                      ELSE IF push[p].at = "sent" THEN [push[p] EXCEPT !.at = "handled"]
                      ELSE NoRequest
    BY <1>6, <1>t DEF Handle
  <2>5. CASE push[p].at = "late"
    <3>1. ~ Carries(push[p], f)
      BY <2>2, <2>5 DEF Once, Awaited
    <3>2. \A n \in 1 .. MaxRecords : n \notin push[p].from[f] + 1 .. push[p].next[f]
      BY <3>1, JobTypes DEF Carries
    <3>4. \A n \in 1 .. MaxRecords : copies'[f][n] = copies[f][n]
      BY <2>3, <3>2
    <3>5. push'[p] = NoRequest /\ \A q \in Pushes \ {p} : push'[q] = push[q]
      BY <2>4, <2>5
    <3> QED
      BY <3>1, <3>4, <3>5, <2>1, <2>2, Ended, NoRequestType, OnceEnds
  <2>6. CASE push[p].at = "sent"
    <3>1. /\ push'[p].at = "handled" /\ push'[p].from[f] = push[p].from[f]
          /\ push'[p].next[f] = push[p].next[f]
          /\ \A q \in Pushes \ {p} : push'[q] = push[q]
      BY <2>4, <2>6, <1>r DEF Request
    <3>2. ASSUME NEW n \in 1 .. MaxRecords, n \in push[p].from[f] + 1 .. push[p].next[f]
          PROVE  copies[f][n] = 0
      <4> SUFFICES ASSUME copies[f][n] > 0 PROVE FALSE
        BY JobTypes
      <4>1. push[p].from[f] = offset[f] /\ Carries(push[p], f) /\ ~ (n <= offset[f])
        BY <2>2, <2>6, <3>2, JobTypes DEF Once, Awaited, Carries
      <4>2. PICK q \in Pushes : push[q].at = "handled" /\ n <= push[q].next[f]
        BY <2>2, <4>1 DEF Once
      <4>3. ~ Carries(push[q], f) /\ push[q].from[f] = offset[f]
        BY <2>2, <2>6, <4>1, <4>2 DEF Once, Awaited
      <4>4. push[q].next[f] <= offset[f]
        BY <4>3, JobTypes DEF Carries
      <4> QED
        BY <4>1, <4>2, <4>4, JobTypes
    <3>3. \A n \in 1 .. MaxRecords : copies'[f][n] <= 1
      BY <2>2, <2>3, <3>2 DEF Once
    <3>4. ASSUME NEW n \in 1 .. MaxRecords, copies'[f][n] > 0
          PROVE  \/ n <= offset'[f]
                 \/ \E q \in Pushes : push'[q].at = "handled" /\ n <= push'[q].next[f]
      <4>1. CASE n \in push[p].from[f] + 1 .. push[p].next[f]
        BY <4>1, <3>1
      <4>2. CASE n \notin push[p].from[f] + 1 .. push[p].next[f]
        <5>1. copies[f][n] > 0
          BY <4>2, <3>4, <2>3
        <5>2. \A q \in Pushes : push[q].at = "handled" => push'[q] = push[q]
          BY <3>1, <2>6
        <5> QED
          BY <5>1, <5>2, <2>1, <2>2 DEF Once
      <4> QED
        BY <4>1, <4>2
    <3>5. \A q \in Pushes :
             /\ push'[q].at \in Awaited <=> push[q].at \in Awaited
             /\ push'[q].from[f] = push[q].from[f] /\ push'[q].next[f] = push[q].next[f]
      BY <3>1, <2>6 DEF Awaited
    <3> QED
      BY <3>3, <3>4, <3>5, <2>1, <2>2 DEF Once, Carries
  <2> QED
    BY <2>1, <2>5, <2>6
<1>7. ASSUME NEW p \in Pushes, HandlePartly(p) \/ Refuse(p) PROVE Once(f)'
  <2>1. /\ offset' = offset /\ push' = [push EXCEPT ![p] = NoRequest]
        /\ push[p].at \in {"sent", "late"} /\ f \notin doubt
    BY <1>7 DEF HandlePartly, Refuse, bridgeVars, Arrived
  <2>2. \A n \in 1 .. MaxRecords : copies'[f][n] = copies[f][n]
    <3>1. CASE Refuse(p)
      BY <3>1 DEF Refuse, serverVars
    <3>2. CASE HandlePartly(p)
      <4>1. PICK F : copies' = Appended(push[p], F)
        BY <3>2 DEF HandlePartly
      <4>2. ~ Carries(push[p], f)
        BY <3>2, CarriedIsBrought DEF HandlePartly
      <4>3. \A n \in 1 .. MaxRecords : n \notin push[p].from[f] + 1 .. push[p].next[f]
        BY <4>2, JobTypes DEF Carries
      <4>4. \A n \in 1 .. MaxRecords : copies'[f][n] = copies[f][n]
        BY <4>1, <4>3 DEF Appended
      <4> QED
        BY <4>4
    <3> QED
      BY <1>7, <3>1, <3>2
  <2>3. \A q \in Pushes : push'[q] = IF q = p THEN NoRequest ELSE push[q]
    BY <2>1, <1>t
  <2> QED
    BY <2>1, <2>2, <2>3, <1>i, Ended, NoRequestType, OnceEnds
<1> QED
  BY <1>1, <1>2, <1>3, <1>4, <1>5, <1>6, <1>7 DEF Next

LEMMA OnceInit == Init => OnceInv
<1> SUFFICES ASSUME Init, NEW f \in Jobs PROVE Once(f)
  BY DEF OnceInv
<1>1. \A p \in Pushes : push[p] = NoRequest
  BY DEF Init
<1>2. \A n \in 1 .. MaxRecords : copies[f][n] = 0
  BY DEF Init
<1> QED
  BY <1>1, <1>2, Ended, NoRequestType DEF Once, Carries, Awaited

\* RecordsMirrored: the server has every record before an offset, and none twice
\* unless a request with records of the job was lost, failed half-way, crossed
\* another or was forgotten in a crash.
THEOREM RecordsAreMirrored == Spec => []RecordsMirrored
<1> DEFINE Inv == TypeInv /\ MirrorInv /\ OnceInv
<1>1. Init => Inv
  BY TypeInit, MirrorInit, OnceInit
<1>2. Inv /\ [Next]_vars => Inv'
  BY TypeNext, MirrorNext, OnceNext
<1>3. Inv => RecordsMirrored
  <2> SUFFICES ASSUME Inv, NEW f \in Jobs \ truncated, NEW n \in 1 .. MaxRecords
               PROVE  /\ n <= offset[f] \/ n <= saved.offset[f] => copies[f][n] > 0
                      /\ f \notin doubt => copies[f][n] <= 1
    BY DEF RecordsMirrored
  <2>1. Mirrors(f) /\ (f \notin doubt => Once(f))
    BY DEF MirrorInv, OnceInv
  <2> QED
    BY <2>1 DEF Mirrors, Covered, Once
<1> QED
  BY <1>1, <1>2, <1>3, PTL DEF Spec

-----------------------------------------------------------------------------
(* The copies of the files *)

Holds(q, x) == q.sent[x] # Nothing

\* The requests waited for have one hash of a file, and those that bring it bring
\* one content, which is the server's when one of them was handled or is late;
\* what was handled is what its hash says; one that does not bring the file has
\* the pusher's hash, or that of one that was handled; and but for what was
\* handled and not answered, the server has what the pusher's hash says.
InStep(x) ==
    /\ \A p, q \in Pushes :
          push[p].at \in Awaited /\ push[q].at \in Awaited => push[p].hash[x] = push[q].hash[x]
    /\ \A p, q \in Pushes :
          Holds(push[p], x) /\ Holds(push[q], x) => push[p].sent[x] = push[q].sent[x]
    /\ \A p \in Pushes : Holds(push[p], x) /\ push[p].at = "handled" =>
          mirror[x] = push[p].sent[x] /\ mirror[x] = Read(x, push[p].hash[x])
    /\ \A p \in Pushes : Holds(push[p], x) /\ push[p].at = "late" => mirror[x] = push[p].sent[x]
    /\ \A p \in Pushes : push[p].at \in Awaited /\ ~ Holds(push[p], x) =>
          \/ push[p].hash[x] = hash[x]
          \/ \E q \in Pushes : Holds(push[q], x) /\ push[q].at = "handled"
    /\ hash[x] # Nothing /\ (\A p \in Pushes : Holds(push[p], x) => push[p].at # "handled") =>
          mirror[x] = Read(x, hash[x])
FileInv ==
    /\ \A x \in Files \ doubt : InStep(x)
    /\ \A p \in Pushes : push[p].at = "none" => \A x \in Files : ~ Holds(push[p], x)

LEMMA HeldIsBrought ==
    ASSUME NEW q, NEW x \in Files
    PROVE  x \in Brings(q) <=> Holds(q, x)
BY Constants DEF Brings, Holds

LEMMA NothingHeld == \A x \in Files : ~ Holds(NoRequest, x)
BY DEF NoRequest, Holds

\* Steps that end requests, or stop waiting for them, none of them handled with
\* the file.
LEMMA StepEnds ==
    ASSUME NEW x \in Files, InStep(x), mirror'[x] = mirror[x], hash'[x] = hash[x],
           \A p \in Pushes :
              \/ push'[p] = push[p]
              \/ /\ ~ Holds(push[p], x) \/ push[p].at # "handled"
                 /\ push'[p].at = "none" /\ ~ Holds(push'[p], x)
              \/ ~ Holds(push[p], x) /\ ~ Holds(push'[p], x) /\ push'[p].at = "late"
    PROVE  InStep(x)'
<1>1. \A p \in Pushes : Holds(push[p], x)' => push'[p] = push[p] /\ Holds(push[p], x)
  BY DEF Holds
<1>2. \A p \in Pushes : push'[p].at \in Awaited => push'[p] = push[p]
  BY DEF Awaited
<1>3. \A p \in Pushes : Holds(push[p], x) /\ push[p].at = "handled" =>
         Holds(push[p], x)' /\ push'[p].at = "handled"
  BY DEF Holds
<1>4. Read(x, hash[x])' = Read(x, hash[x])
      /\ \A p \in Pushes : push'[p] = push[p] => Read(x, push[p].hash[x])' = Read(x, push[p].hash[x])
  BY DEF Read, Parsed
<1>5. \A p \in Pushes : push'[p].at \in Awaited /\ ~ Holds(push[p], x)' =>
          \/ push'[p].hash[x] = hash'[x]
          \/ \E q \in Pushes : Holds(push[q], x)' /\ push'[q].at = "handled"
  BY <1>2, <1>3 DEF InStep, Holds
<1>6. hash'[x] # Nothing /\ (\A p \in Pushes : Holds(push[p], x)' => push'[p].at # "handled") =>
          mirror'[x] = Read(x, hash[x])'
  BY <1>3, <1>4 DEF InStep
<1>7. \A p \in Pushes : Holds(push[p], x)' /\ push'[p].at = "handled" =>
          mirror'[x] = push'[p].sent[x] /\ mirror'[x] = Read(x, push[p].hash[x])'
  BY <1>1, <1>4 DEF InStep
<1> QED
  BY <1>1, <1>2, <1>5, <1>6, <1>7 DEF InStep

LEMMA FileNext ==
    ASSUME TypeInv, FileInv, [Next]_vars, NEW x \in Files, x \notin doubt'
    PROVE  InStep(x)'
<1>i. x \notin doubt => InStep(x)
  BY DEF FileInv
<1>t. DOMAIN push = Pushes
  BY DEF TypeInv, PushTypes
<1>r. \A p \in Pushes : push[p] \in Request
  BY DEF TypeInv, PushTypes
<1>n. \A p \in Pushes : Holds(push[p], x) => push[p].at # "none"
  BY DEF FileInv
<1>s. \A v : Read(x, v)' = Read(x, v)
  BY DEF Read, Parsed
<1>1. CASE \/ \E y \in Files : \E v \in ContentsOf(y) : WriteFile(y, v)
           \/ \E g \in Jobs : Record(g) \/ Truncate(g)
           \/ Start \/ Arm \/ Remove \/ UNCHANGED vars
  <2>1. UNCHANGED <<hash, push, mirror>> /\ x \notin doubt
    BY <1>1 DEF WriteFile, Record, Truncate, Start, Arm, Remove, vars, bridgeVars, serverVars
  <2> QED
    BY <2>1, <1>i, StepEnds
<1>2. ASSUME NEW v \in Configs, Configure(v) PROVE InStep(x)'
  <2>1. UNCHANGED <<hash, push>> /\ x \notin doubt /\ mirror'[x] = mirror[x]
    BY <1>2 DEF Configure, bridgeVars, TypeInv, MirrorTypes
  <2> QED
    BY <2>1, <1>i, StepEnds
<1>3. CASE Crash
  <2>1. /\ mirror' = mirror /\ hash' = saved.hash
        /\ x \notin doubt /\ x \notin UNION {Brings(push[p]) : p \in InFlight}
        /\ hash[x] = saved.hash[x]
    BY <1>3, Zenon DEF Crash, serverVars
  <2>2. ASSUME NEW p \in Pushes PROVE ~ Holds(push[p], x)
    <3>1. push[p].at # "none" => Brings(push[p]) \in {Brings(push[q]) : q \in InFlight}
      BY DEF InFlight
    <3> QED
      BY <2>1, <3>1, <1>n, HeldIsBrought
  <2>3. \A p \in Pushes :
           push'[p] = CASE push[p].at = "sent" -> Late(push[p])
                        [] push[p].at = "handled" -> NoRequest
                        [] OTHER -> push[p]
    BY <1>3 DEF Crash
  <2>4. \A p \in Pushes :
              \/ push'[p] = push[p]
              \/ push'[p].at = "none" /\ ~ Holds(push'[p], x)
              \/ ~ Holds(push'[p], x) /\ push'[p].at = "late"
    BY <2>2, <2>3, <1>r, LateType, NothingHeld, NoRequestType DEF Holds
  <2> QED
    BY <2>1, <2>2, <2>4, <1>i, StepEnds
<1>4. ASSUME NEW p \in Pushes, Push(p) PROVE InStep(x)'
  <2>1. PICK later \in ContentsOf("jobs") :
           /\ push' = [push EXCEPT ![p] = Delta(later)]
           /\ doubt' = doubt \cup Crossed(Delta(later))
    BY <1>4 DEF Push
  <2> DEFINE new == Delta(later)
  <2>2. UNCHANGED <<hash, mirror>> /\ push[p].at = "none" /\ InStep(x) /\ x \notin Crossed(new)
    BY <1>4, <1>i, <2>1 DEF Push, bridgeVars, serverVars
  <2>3. new.at = "sent" /\ new.hash = file /\ (~ Holds(new, x) => new.hash[x] = hash[x])
    <3>1. Parsed(later) # Nothing /\ file[x] # Nothing
      BY ContentTypes, Constants DEF Parsed, ContentsOf, TypeInv, SourceTypes
    <3> QED
      BY <3>1 DEF Delta, Holds
  <2> HIDE DEF new
  <2>4. \A q \in Pushes : push'[q] = IF q = p THEN new ELSE push[q]
    BY <2>1, <1>t DEF new
  <2>5. ASSUME NEW q \in Pushes, push[q].at # "none"
        PROVE  /\ push[q].at \in Awaited => push[q].hash[x] = new.hash[x]
               /\ Holds(push[q], x) /\ Holds(new, x) => push[q].sent[x] = new.sent[x]
    <3>1. Agree(push[q], new, x)
      BY <2>2, <2>5 DEF Crossed, InFlight
    <3> QED
      BY <3>1, <2>3, HeldIsBrought DEF Agree, Awaited
  <2>6. ~ Holds(push[p], x)
    BY <2>2, <1>n
  <2>7. \A q \in Pushes : push[q].at \in Awaited \/ Holds(push[q], x) => push[q].at # "none"
    BY <1>n DEF Awaited
  <2>8. \A q, r \in Pushes :
          push'[q].at \in Awaited /\ push'[r].at \in Awaited => push'[q].hash[x] = push'[r].hash[x]
    BY <2>2, <2>4, <2>5, <2>7 DEF InStep
  <2>9. \A q, r \in Pushes :
          Holds(push[q], x)' /\ Holds(push[r], x)' => push'[q].sent[x] = push'[r].sent[x]
    BY <2>2, <2>4, <2>5, <2>7 DEF InStep, Holds
  <2>10. \A q \in Pushes : push'[q].at \in {"handled", "late"} => push'[q] = push[q]
    BY <2>3, <2>4
  <2>11. \A q \in Pushes : push[q].at = "handled" => push'[q] = push[q]
    BY <2>2, <2>4
  <2>12. \A q \in Pushes : Holds(push[q], x)' /\ push'[q].at = "handled" =>
          mirror'[x] = push'[q].sent[x] /\ mirror'[x] = Read(x, push[q].hash[x])'
    BY <2>2, <2>10, <1>s DEF InStep, Holds
  <2>13. \A q \in Pushes : Holds(push[q], x)' /\ push'[q].at = "late" =>
          mirror'[x] = push'[q].sent[x]
    BY <2>2, <2>10 DEF InStep, Holds
  <2>14. \A q \in Pushes : push'[q].at \in Awaited /\ ~ Holds(push[q], x)' =>
          \/ push'[q].hash[x] = hash'[x]
          \/ \E r \in Pushes : Holds(push[r], x)' /\ push'[r].at = "handled"
    BY <2>2, <2>3, <2>4, <2>11 DEF InStep, Holds
  <2>15. hash'[x] # Nothing /\ (\A q \in Pushes : Holds(push[q], x)' => push'[q].at # "handled") =>
          mirror'[x] = Read(x, hash[x])'
    BY <2>2, <2>11, <1>s DEF InStep, Holds
  <2> QED
    BY <2>8, <2>9, <2>12, <2>13, <2>14, <2>15 DEF InStep
<1>5. ASSUME NEW p \in Pushes, Answer(p) PROVE InStep(x)'
  <2>1. /\ push[p].at = "handled" /\ push' = [push EXCEPT ![p] = NoRequest]
        /\ mirror' = mirror /\ hash' = push[p].hash /\ InStep(x)
    BY <1>5, <1>i DEF Answer, serverVars, Acknowledged
  <2>2. \A q \in Pushes : push'[q] = IF q = p THEN NoRequest ELSE push[q]
    BY <2>1, <1>t
  <2>3. \A q \in Pushes : push'[q].at # "none" \/ Holds(push[q], x)' => q # p /\ push'[q] = push[q]
    BY <2>2, NoRequestType, NothingHeld DEF Holds
  <2>4. \A q \in Pushes : q # p => push'[q] = push[q]
    BY <2>2
  <2>5. \A q \in Pushes : push'[q].at \in Awaited => push'[q].hash[x] = hash'[x]
    BY <2>1, <2>3 DEF InStep, Awaited
  <2>6. ASSUME hash'[x] # Nothing,
               \A q \in Pushes : Holds(push[q], x)' => push'[q].at # "handled"
        PROVE  mirror'[x] = Read(x, hash'[x])
    <3>1. CASE Holds(push[p], x)
      BY <2>1, <3>1 DEF InStep
    <3>2. CASE ~ Holds(push[p], x)
      <4>1. \A q \in Pushes : Holds(push[q], x) => push[q].at # "handled"
        BY <2>4, <2>6, <3>2 DEF Holds
      <4>2. push[p].hash[x] = hash[x]
        BY <2>1, <3>2, <4>1 DEF InStep, Awaited
      <4> QED
        BY <2>1, <2>6, <4>1, <4>2 DEF InStep
    <3> QED
      BY <3>1, <3>2
  <2>7. \A q \in Pushes : Holds(push[q], x)' /\ push'[q].at = "handled" =>
          mirror'[x] = push'[q].sent[x] /\ mirror'[x] = Read(x, push[q].hash[x])'
    BY <2>1, <2>3, <1>s DEF InStep, Holds
  <2>8. \A q \in Pushes : Holds(push[q], x)' /\ push'[q].at = "late" =>
          mirror'[x] = push'[q].sent[x]
    BY <2>1, <2>3 DEF InStep, Holds
  <2>9. \A q, r \in Pushes :
          Holds(push[q], x)' /\ Holds(push[r], x)' => push'[q].sent[x] = push'[r].sent[x]
    BY <2>1, <2>3 DEF InStep, Holds
  <2> QED
    BY <2>5, <2>6, <2>7, <2>8, <2>9, <1>s DEF InStep
<1>6. ASSUME NEW p \in Pushes, GiveUp(p) PROVE InStep(x)'
  <2>1. UNCHANGED <<hash, mirror>> /\ x \notin doubt /\ ~ Holds(push[p], x)
    BY <1>6, HeldIsBrought DEF GiveUp, bridgeVars, serverVars
  <2>2. \A q \in Pushes :
           push'[q] = IF q # p THEN push[q]
                      ELSE IF push[p].at = "sent" THEN Late(push[p]) ELSE NoRequest
    BY <1>6, <1>t DEF GiveUp
  <2>3. \/ push'[p].at = "none" /\ ~ Holds(push'[p], x)
        \/ ~ Holds(push'[p], x) /\ push'[p].at = "late"
    BY <2>1, <2>2, <1>r, LateType, NothingHeld, NoRequestType DEF Holds
  <2> QED
    BY <2>1, <2>2, <2>3, <1>i, StepEnds
<1>7. ASSUME NEW p \in Pushes, Handle(p) PROVE InStep(x)'
  <2>1. /\ hash' = hash /\ push[p].at \in {"sent", "late"}
        /\ mirror' = Mirrored(push[p], Files)
        /\ doubt' = (doubt \ Settled(p)) \cup Torn(push[p])
    BY <1>7 DEF Handle, bridgeVars, Arrived
  <2>2. mirror'[x] = IF Holds(push[p], x) THEN push[p].sent[x] ELSE mirror[x]
    BY <2>1 DEF Mirrored, Holds
  <2>3. \A q \in Pushes :
           push'[q] = IF q # p THEN push[q]
                      ELSE IF push[p].at = "sent" THEN [push[p] EXCEPT !.at = "handled"]
                      ELSE NoRequest
    BY <1>7, <1>t DEF Handle
  <2>4. Holds(push[p], x) => push[p].sent[x] = Read(x, push[p].hash[x])
    BY <2>1, HeldIsBrought DEF Torn
  <2>5. CASE push[p].at = "late"
    <3>1. InStep(x)
      BY <2>1, <2>5, <1>i DEF Settled
    <3>2. mirror'[x] = mirror[x]
      BY <2>2, <2>5, <3>1 DEF InStep
    <3>3. push'[p].at = "none" /\ ~ Holds(push'[p], x) /\ push[p].at # "handled"
      BY <2>3, <2>5, NothingHeld, NoRequestType
    <3> QED
      BY <2>1, <2>3, <3>1, <3>2, <3>3, StepEnds
  <2>6. CASE push[p].at = "sent"
    <3>1. /\ push'[p].at = "handled" /\ push'[p].sent = push[p].sent
          /\ push'[p].hash = push[p].hash
          /\ \A q \in Pushes : q # p => push'[q] = push[q]
      BY <2>3, <2>6, <1>r DEF Request
    <3>2. \A q \in Pushes :
             /\ push'[q].at \in Awaited <=> push[q].at \in Awaited
             /\ push'[q].sent = push[q].sent /\ push'[q].hash = push[q].hash
             /\ Holds(push[q], x)' <=> Holds(push[q], x)
      BY <3>1, <2>6 DEF Awaited, Holds
    <3>3. CASE Holds(push[p], x)
      <4>1. ASSUME NEW q \in Pushes, push[q].at # "none"
            PROVE  /\ push[q].at \in Awaited => push[p].hash[x] = push[q].hash[x]
                   /\ Holds(push[q], x) => push[p].sent[x] = push[q].sent[x]
        <5>1. CASE x \in Settled(p)
          <6>1. Agree(push[p], push[q], x)
            BY <5>1, <4>1 DEF Settled, InFlight
          <6> QED
            BY <6>1, <2>6, <3>3, HeldIsBrought DEF Agree, Awaited
        <5>2. CASE x \notin Settled(p)
          <6>1. InStep(x)
            BY <5>2, <2>1, <1>i
          <6> QED
            BY <6>1, <3>3, <2>6 DEF InStep, Awaited
        <5> QED
          BY <5>1, <5>2
      <4>2. \A q \in Pushes : push[q].at \in Awaited => push[q].at # "none"
        BY DEF Awaited
      <4>3. \A q \in Pushes : push[q].at \in Awaited => push[q].hash[x] = push[p].hash[x]
        BY <4>1, <4>2
      <4>4. \A q \in Pushes : Holds(push[q], x) => push[q].sent[x] = push[p].sent[x]
        BY <4>1, <1>n
      <4>5. mirror'[x] = push[p].sent[x] /\ mirror'[x] = Read(x, push[p].hash[x])
        BY <2>2, <2>4, <3>3
      <4>6. \A q \in Pushes : Holds(push[q], x)' /\ push'[q].at = "handled" =>
               mirror'[x] = push'[q].sent[x] /\ mirror'[x] = Read(x, push[q].hash[x])'
        BY <3>2, <4>3, <4>4, <4>5, <1>s DEF Awaited
      <4>7. Holds(push[p], x)' /\ push'[p].at = "handled"
        BY <3>1, <3>2, <3>3
      <4> QED
        BY <3>2, <4>3, <4>4, <4>5, <4>6, <4>7 DEF InStep
    <3>4. CASE ~ Holds(push[p], x)
      <4>1. InStep(x)
        BY <3>4, <2>1, <1>i, HeldIsBrought DEF Settled
      <4>2. mirror'[x] = mirror[x]
        BY <3>4, <2>2
      <4>3. \A q \in Pushes : Holds(push[q], x)' => push'[q] = push[q] /\ Holds(push[q], x)
        BY <3>1, <3>2, <3>4
      <4>4. \A q \in Pushes : Holds(push[q], x) => push'[q] = push[q]
        BY <3>1, <3>4
      <4>5. \A q \in Pushes : Holds(push[q], x)' /\ push'[q].at = "handled" =>
               mirror'[x] = push'[q].sent[x] /\ mirror'[x] = Read(x, push[q].hash[x])'
        BY <4>1, <4>2, <4>3, <1>s DEF InStep
      <4>6. hash'[x] # Nothing /\ (\A q \in Pushes : Holds(push[q], x)' => push'[q].at # "handled") =>
               mirror'[x] = Read(x, hash[x])'
        BY <2>1, <3>2, <4>1, <4>2, <4>4, <1>s DEF InStep
      <4>7. \A q \in Pushes : push'[q].at \in Awaited /\ ~ Holds(push[q], x)' =>
               \/ push'[q].hash[x] = hash'[x]
               \/ \E r \in Pushes : Holds(push[r], x)' /\ push'[r].at = "handled"
        BY <2>1, <3>2, <4>1, <4>4 DEF InStep
      <4>8. \A q \in Pushes : Holds(push[q], x)' /\ push'[q].at = "late" =>
               mirror'[x] = push'[q].sent[x]
        BY <4>1, <4>2, <4>3 DEF InStep
      <4> QED
        BY <3>2, <4>1, <4>5, <4>6, <4>7, <4>8 DEF InStep
    <3> QED
      BY <3>3, <3>4
  <2> QED
    BY <2>1, <2>5, <2>6
<1>8. ASSUME NEW p \in Pushes, HandlePartly(p) \/ Refuse(p) PROVE InStep(x)'
  <2>1. /\ hash' = hash /\ push' = [push EXCEPT ![p] = NoRequest]
        /\ push[p].at \in {"sent", "late"} /\ x \notin doubt
    BY <1>8 DEF HandlePartly, Refuse, bridgeVars, Arrived
  <2>2. mirror'[x] = mirror[x]
    <3>1. CASE Refuse(p)
      BY <3>1 DEF Refuse, serverVars
    <3>2. CASE HandlePartly(p)
      <4>1. ~ Holds(push[p], x)
        BY <3>2, HeldIsBrought DEF HandlePartly
      <4>2. PICK X : mirror' = Mirrored(push[p], X)
        BY <3>2 DEF HandlePartly
      <4> QED
        BY <4>1, <4>2 DEF Mirrored, Holds
    <3> QED
      BY <1>8, <3>1, <3>2
  <2>3. \A q \in Pushes : push'[q] = IF q = p THEN NoRequest ELSE push[q]
    BY <2>1, <1>t
  <2> QED
    BY <2>1, <2>2, <2>3, <1>i, NothingHeld, NoRequestType, StepEnds
<1> QED
  BY <1>1, <1>2, <1>3, <1>4, <1>5, <1>6, <1>7, <1>8 DEF Next

\* A request that is not under way says nothing of the files.
LEMMA NoneHolds ==
    ASSUME TypeInv, FileInv, [Next]_vars, NEW p \in Pushes, push'[p].at = "none",
           NEW x \in Files
    PROVE  ~ Holds(push[p], x)'
<1>t. DOMAIN push = Pushes /\ \A q \in Pushes : push[q] \in Request
  BY DEF TypeInv, PushTypes
<1>1. CASE push'[p] = push[p]
  BY <1>1 DEF FileInv, Holds
<1>2. CASE push'[p] = NoRequest
  BY <1>2, NothingHeld DEF Holds
<1>3. CASE push'[p].at # "none"
  BY <1>3
<1> DEFINE Ends == push'[p] = push[p] \/ push'[p] = NoRequest \/ push'[p].at # "none"
<1>4. Ends
  <2>1. CASE UNCHANGED push
    BY <2>1
  <2>2. CASE Crash
    <3>1. push'[p] = CASE push[p].at = "sent" -> Late(push[p])
                       [] push[p].at = "handled" -> NoRequest
                       [] OTHER -> push[p]
      BY <2>2 DEF Crash
    <3> QED
      BY <3>1, <1>t, LateType
  <2>3. ASSUME NEW q \in Pushes, Push(q) PROVE Ends
    <3>1. PICK later \in ContentsOf("jobs") : push' = [push EXCEPT ![q] = Delta(later)]
      BY <2>3 DEF Push
    <3> QED
      BY <3>1, <1>t, DeltaType
  <2>4. ASSUME NEW q \in Pushes, Answer(q) \/ HandlePartly(q) \/ Refuse(q) PROVE Ends
    BY <2>4, <1>t DEF Answer, HandlePartly, Refuse
  <2>5. ASSUME NEW q \in Pushes, GiveUp(q) PROVE Ends
    BY <2>5, <1>t, LateType DEF GiveUp
  <2>6. ASSUME NEW q \in Pushes, Handle(q) PROVE Ends
    <3>1. push'[q] = NoRequest \/ push'[q] = [push[q] EXCEPT !.at = "handled"]
      BY <2>6, <1>t DEF Handle
    <3>2. q # p => push'[p] = push[p]
      BY <2>6, <1>t DEF Handle
    <3> QED
      BY <3>1, <3>2, <1>t DEF Request
  <2> QED
    BY <2>1, <2>2, <2>3, <2>4, <2>5, <2>6
    DEF Next, WriteFile, Record, Truncate, Start, Arm, Remove, Configure, vars
<1> QED
  BY <1>1, <1>2, <1>3, <1>4

LEMMA FileInit == Init => FileInv
<1> SUFFICES ASSUME Init PROVE FileInv
  OBVIOUS
<1>1. \A p \in Pushes : push[p] = NoRequest
  BY DEF Init
<1>2. \A x \in Files : hash[x] = Nothing
  BY DEF Init
<1>3. \A p \in Pushes, x \in Files : ~ Holds(push[p], x) /\ push[p].at = "none"
  BY <1>1, NothingHeld, NoRequestType
<1> QED
  BY <1>2, <1>3 DEF FileInv, InStep, Awaited

\* HashIsOfMirror: the server's copy of a file is what the pusher's hash says,
\* so that the pusher may leave it out, but for the exceptions of doubt.
THEOREM HashesAreOfTheMirror == Spec => []HashIsOfMirror
<1> DEFINE Inv == TypeInv /\ FileInv
<1>1. Init => Inv
  BY TypeInit, FileInit
<1>2. Inv /\ [Next]_vars => Inv'
  <2> SUFFICES ASSUME Inv, [Next]_vars PROVE FileInv'
    BY TypeNext
  <2>1. \A x \in Files : x \notin doubt' => InStep(x)'
    BY FileNext
  <2>2. \A p \in Pushes : push'[p].at = "none" => \A x \in Files : ~ Holds(push[p], x)'
    BY NoneHolds
  <2> QED
    BY <2>1, <2>2 DEF FileInv
<1>3. Inv => HashIsOfMirror
  <2> SUFFICES ASSUME Inv, NEW x \in Files \ doubt, hash[x] # Nothing,
                      \A p \in InFlight : x \notin Brings(push[p])
               PROVE  mirror[x] = Read(x, hash[x])
    BY DEF HashIsOfMirror
  <2>1. \A p \in Pushes : Holds(push[p], x) => push[p].at # "handled"
    BY HeldIsBrought DEF InFlight
  <2> QED
    BY <2>1 DEF FileInv, InStep
<1> QED
  BY <1>1, <1>2, <1>3, PTL DEF Spec
=============================================================================
