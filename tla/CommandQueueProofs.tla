------------------------- MODULE CommandQueueProofs -------------------------
(***************************************************************************)
(* Theorems about CommandQueue, for any commands, calls and bounds.        *)
(***************************************************************************)
EXTENDS CommandQueue, SequenceTheorems, TLAPS

-----------------------------------------------------------------------------
(* Type correctness *)

\* No array is empty, so that an apply finds a first command; and the commands
\* an apply of the queue walks over were all queued.
Arrays ==
    /\ \A i \in DOMAIN arrays : arrays[i] # <<>>
    /\ \A a \in Calls : Running(a) => call[a].list \in DOMAIN arrays
    /\ \A a \in Calls : call[a].state = "queue" => Range(List(a)) \subseteq given

TypeInv == TypeOK /\ Arrays

\* A batch is a sequence of different commands, and not empty.
LEMMA BatchType ==
    ASSUME NEW C \in SUBSET Commands, NEW b \in Batches(C)
    PROVE  /\ b \in Seq(Commands) /\ b # <<>> /\ Len(b) \in Nat \ {0}
           /\ Range(b) \subseteq C
           /\ \A j, l \in DOMAIN b : b[j] = b[l] => j = l
<1>1. PICK n \in 1 .. MaxBatch : b \in [1 .. n -> C] /\ IsInjective(b)
  BY DEF Batches, Injection
<1>2. n \in Nat \ {0}
  BY QueueAssumption DEF QueueAssumption
<1>3. b \in Seq(Commands) /\ Len(b) = n
  BY <1>1, <1>2
<1> QED
  BY <1>1, <1>2, <1>3 DEF Range, IsInjective

\* What List, Running and the records of the calls become when only the call of
\* a changes its state.
LEMMA EndedCalls ==
    ASSUME TypeInv, NEW a \in Calls, NEW s \in STRING, NEW left, Ended(a, s, left)
    PROVE  /\ call'[a].state = s /\ arrays' = arrays /\ given' = given
           /\ \A b \in Calls : call'[b].list = call[b].list /\ call'[b].at = call[b].at
                               /\ call'[b].before = call[b].before
           /\ \A b \in Calls \ {a} : call'[b] = call[b]
<1>1. call \in [Calls -> Call]
  BY DEF TypeInv, TypeOK
<1> QED
  BY <1>1 DEF Ended, Call

LEMMA TypeInit == Init => TypeInv
<1> SUFFICES ASSUME Init PROVE TypeInv
  OBVIOUS
<1> USE QueueAssumption DEF QueueAssumption, Init, TypeInv, TypeOK, Arrays
<1>1. call \in [Calls -> Call]
  BY DEF Call
<1>2. \A a \in Calls : ~Running(a) /\ call[a].state # "queue"
  BY DEF Running
<1>3. InQueue = {}
  BY DEF InQueue
<1>4. snapshots \in Seq(Content) /\ config \in Content
  BY DEF Content
<1>5. arrays \in Seq(Seq(Commands)) /\ DOMAIN arrays = {} /\ queues \in 0 .. Len(arrays)
  OBVIOUS
<1>6. ran \in [Commands -> Nat]
  OBVIOUS
<1>7. TypeOK
  <2>1. config = {} /\ exists \in BOOLEAN /\ crossed \in BOOLEAN
    BY Zenon
  <2>2. /\ changes \in 0 .. MaxChanges /\ faults \in 0 .. MaxFaults
        /\ crashes \in 0 .. MaxCrashes
    OBVIOUS
  <2>3. given \subseteq Commands /\ withdrawn \subseteq given /\ InQueue \subseteq given
        /\ meddled \subseteq Calls
    BY <1>3
  <2> QED
    BY <1>1, <1>2, <1>4, <1>5, <1>6, <2>1, <2>2, <2>3, Zenon
<1> QED
  BY <1>2, <1>5, <1>7

LEMMA Concatenation ==
    ASSUME NEW S, NEW s \in Seq(S), NEW t \in Seq(S)
    PROVE  /\ s \o t \in Seq(S) /\ Len(s \o t) = Len(s) + Len(t)
           /\ \A j \in 1 .. Len(s) : (s \o t)[j] = s[j]
           /\ \A j \in Len(s) + 1 .. Len(s) + Len(t) : (s \o t)[j] = t[j - Len(s)]
           /\ Range(s \o t) = Range(s) \cup Range(t)
<1>1. /\ s \o t \in Seq(S) /\ Len(s \o t) = Len(s) + Len(t)
      /\ \A j \in 1 .. Len(s) : (s \o t)[j] = s[j]
      /\ \A j \in Len(s) + 1 .. Len(s) + Len(t) : (s \o t)[j] = t[j - Len(s)]
  OBVIOUS
<1>2. Range(s) \cup Range(t) \subseteq Range(s \o t)
  <2>1. \A j \in 1 .. Len(t) : (s \o t)[Len(s) + j] = t[j] /\ Len(s) + j \in 1 .. Len(s) + Len(t)
    OBVIOUS
  <2> QED
    <3>1. \A j \in 1 .. Len(s) : s[j] \in Range(s \o t)
      <4>1. Len(s) \in Nat /\ Len(t) \in Nat
        OBVIOUS
      <4> QED
        BY <1>1, <4>1 DEF Range
    <3>2. \A j \in 1 .. Len(t) : t[j] \in Range(s \o t)
      BY <1>1, <2>1 DEF Range
    <3>3. DOMAIN s = 1 .. Len(s) /\ DOMAIN t = 1 .. Len(t)
      OBVIOUS
    <3> QED
      BY <3>1, <3>2, <3>3 DEF Range
<1>3. Range(s \o t) \subseteq Range(s) \cup Range(t)
  <2> SUFFICES ASSUME NEW j \in 1 .. Len(s) + Len(t)
               PROVE  (s \o t)[j] \in Range(s) \cup Range(t)
    BY <1>1 DEF Range
  <2>1. CASE j <= Len(s)
    BY <1>1, <2>1 DEF Range
  <2>2. CASE j > Len(s)
    <3>1. j - Len(s) \in 1 .. Len(t)
      BY <2>2
    <3> QED
      BY <1>1, <2>2, <3>1 DEF Range
  <2> QED
    BY <2>1, <2>2
<1> QED
  BY <1>1, <1>2, <1>3

LEMMA Longer ==
    ASSUME NEW S, NEW s \in Seq(S), NEW t \in Seq(S), DOMAIN s \subseteq DOMAIN t
    PROVE  Len(s) \in Nat /\ Len(t) \in Nat /\ Len(s) <= Len(t) /\ DOMAIN t = 1 .. Len(t)
<1>1. /\ Len(s) \in Nat /\ Len(t) \in Nat /\ DOMAIN s = 1 .. Len(s) /\ DOMAIN t = 1 .. Len(t)
  OBVIOUS
<1>2. Len(s) = 0 \/ Len(s) \in DOMAIN s
  BY <1>1
<1>3. Len(s) = 0 \/ Len(s) \in 1 .. Len(t)
  BY <1>1, <1>2
<1> QED
  BY <1>1, <1>3

\* What queue() does to the arrays: each keeps what it has, and the queue's is
\* longer by the batch.
LEMMA Queued ==
    ASSUME TypeInv, NEW b \in Batches(Fresh), Queue(b)
    PROVE  /\ arrays' \in Seq(Seq(Commands)) /\ queues' \in DOMAIN arrays'
           /\ DOMAIN arrays \subseteq DOMAIN arrays'
           /\ \A i \in DOMAIN arrays : \A j \in DOMAIN arrays[i] :
                  j \in DOMAIN arrays'[i] /\ arrays'[i][j] = arrays[i][j]
           /\ \A i \in DOMAIN arrays : Range(arrays'[i]) \subseteq Range(arrays[i]) \cup Range(b)
           /\ \A i \in DOMAIN arrays' : \A j \in DOMAIN arrays'[i] :
                  \/ i \in DOMAIN arrays /\ j \in DOMAIN arrays[i]
                  \/ i = queues' /\ arrays'[i][j] \in Range(b)
           /\ \A j, l \in DOMAIN arrays'[queues'] :
                  arrays'[queues'][j] = arrays'[queues'][l] /\ arrays'[queues'][j] \in Range(b)
                      => j = l
           /\ \A i \in DOMAIN arrays' : arrays'[i] # <<>>
           /\ InQueue' = InQueue \cup Range(b)
<1>0. Fresh \in SUBSET Commands
  BY DEF Fresh
<1>1. /\ b \in Seq(Commands) /\ b # <<>> /\ Len(b) \in Nat \ {0}
      /\ Range(b) \subseteq Fresh
      /\ \A j, l \in DOMAIN b : b[j] = b[l] => j = l
  BY <1>0, BatchType
<1>2. arrays \in Seq(Seq(Commands)) /\ queues \in 0 .. Len(arrays)
      /\ \A i \in DOMAIN arrays : arrays[i] # <<>> /\ arrays[i] \in Seq(Commands)
  BY DEF TypeInv, TypeOK, Arrays
<1>3. CASE queues = 0
  <2>1. arrays' = Append(arrays, b) /\ queues' = Len(arrays) + 1
    BY <1>3 DEF Queue
  <2>2. arrays' \in Seq(Seq(Commands)) /\ Len(arrays') = Len(arrays) + 1
        /\ arrays'[queues'] = b /\ \A i \in DOMAIN arrays : arrays'[i] = arrays[i]
    BY <1>1, <1>2, <2>1
  <2>3. DOMAIN arrays' = DOMAIN arrays \cup {queues'} /\ queues' \notin DOMAIN arrays
    BY <1>2, <2>1, <2>2
  <2>4. \A j \in DOMAIN b : b[j] \in Range(b)
    BY DEF Range
  <2>5. InQueue = {} /\ InQueue' = Range(b)
    BY <1>2, <1>3, <2>1, <2>2 DEF InQueue
  <2> QED
    BY <1>1, <1>2, <2>2, <2>3, <2>4, <2>5
<1>4. CASE queues # 0
  <2> DEFINE s == arrays[queues]
  <2>1. queues \in DOMAIN arrays /\ s \in Seq(Commands) /\ s # <<>>
    BY <1>2, <1>4
  <2>2. arrays' = [arrays EXCEPT ![queues] = s \o b] /\ queues' = queues
    BY <1>4 DEF Queue
  <2>3. InQueue = Range(s)
    BY <1>4 DEF InQueue
  <2>4. \A c \in Range(b) : c \notin Range(s)
    BY <1>1, <2>1 DEF Fresh
  <2> HIDE DEF s
  <2>5. /\ s \o b \in Seq(Commands) /\ Len(s \o b) = Len(s) + Len(b)
        /\ \A j \in 1 .. Len(s) : (s \o b)[j] = s[j]
        /\ \A j \in Len(s) + 1 .. Len(s) + Len(b) : (s \o b)[j] = b[j - Len(s)]
        /\ Range(s \o b) = Range(s) \cup Range(b)
    BY <1>1, <2>1, Concatenation
  <2>6. /\ arrays' \in Seq(Seq(Commands)) /\ DOMAIN arrays' = DOMAIN arrays
        /\ arrays'[queues] = s \o b
        /\ \A i \in DOMAIN arrays : i # queues => arrays'[i] = arrays[i]
    BY <1>2, <2>1, <2>2, <2>5
  <2>7. \A j \in DOMAIN (s \o b) : j \in DOMAIN s \/
            (j - Len(s) \in DOMAIN b /\ (s \o b)[j] = b[j - Len(s)] /\ b[j - Len(s)] \in Range(b))
    <3> SUFFICES ASSUME NEW j \in 1 .. Len(s) + Len(b), ~(j <= Len(s))
                 PROVE  j - Len(s) \in 1 .. Len(b) /\ j \in Len(s) + 1 .. Len(s) + Len(b)
      BY <1>1, <2>1, <2>5 DEF Range
    <3> QED
      BY <1>1, <2>1
  <2>8. \A j, l \in DOMAIN (s \o b) :
            (s \o b)[j] = (s \o b)[l] /\ (s \o b)[j] \in Range(b) => j = l
    <3> SUFFICES ASSUME NEW j \in DOMAIN (s \o b), NEW l \in DOMAIN (s \o b),
                        (s \o b)[j] = (s \o b)[l], (s \o b)[j] \in Range(b)
                 PROVE  j = l
      OBVIOUS
    <3>1. \A k \in DOMAIN s : (s \o b)[k] \in Range(s)
      BY <2>1, <2>5 DEF Range
    <3>2. j \notin DOMAIN s /\ l \notin DOMAIN s
      BY <2>4, <3>1
    <3>3. j - Len(s) = l - Len(s)
      BY <1>1, <2>7, <3>2
    <3> QED
      BY <2>1, <2>5, <3>3
  <2>9. DOMAIN s \subseteq DOMAIN (s \o b) /\ s \o b # <<>>
    BY <1>1, <2>1, <2>5
  <2>10. InQueue' = InQueue \cup Range(b)
    BY <1>4, <2>2, <2>3, <2>5, <2>6 DEF InQueue
  <2>11. \A i \in DOMAIN arrays : Range(arrays'[i]) \subseteq Range(arrays[i]) \cup Range(b)
    BY <2>5, <2>6 DEF s
  <2>12. \A i \in DOMAIN arrays : \A j \in DOMAIN arrays[i] :
                  j \in DOMAIN arrays'[i] /\ arrays'[i][j] = arrays[i][j]
    <3>1. \A j \in DOMAIN s : j \in DOMAIN (s \o b) /\ (s \o b)[j] = s[j]
      BY <2>1, <2>5, <2>9
    <3>2. \A j \in DOMAIN arrays[queues] :
              j \in DOMAIN arrays'[queues] /\ arrays'[queues][j] = arrays[queues][j]
      BY <2>6, <3>1 DEF s
    <3> QED
      BY <2>6, <3>2
  <2>13. \A i \in DOMAIN arrays' : \A j \in DOMAIN arrays'[i] :
                  \/ i \in DOMAIN arrays /\ j \in DOMAIN arrays[i]
                  \/ i = queues' /\ arrays'[i][j] \in Range(b)
    BY <2>2, <2>6, <2>7 DEF s
  <2> QED
    BY <1>2, <2>1, <2>2, <2>6, <2>8, <2>9, <2>10, <2>11, <2>12, <2>13
<1> QED
  BY <1>3, <1>4

\* createSnapshot and the first command, over an array that is there.
LEMMA StartedType ==
    ASSUME TypeInv, NEW a \in Calls, NEW state \in {"queue", "recipe"}, NEW i,
           arrays' \in Seq(Seq(Commands)), i \in DOMAIN arrays',
           DOMAIN arrays \subseteq DOMAIN arrays',
           \A k \in DOMAIN arrays : arrays'[k] = arrays[k],
           arrays'[i] # <<>>, Started(a, state, i, arrays'[i])
    PROVE  /\ call' \in [Calls -> Call'] /\ snapshots' \in Seq(Content)
           /\ ran' \in [Commands -> Nat]
           /\ \A c \in Calls : Running(c)' =>
                  /\ call'[c].list \in DOMAIN arrays' /\ call'[c].before > 0
                  /\ call'[c].at \in 1 .. Len(arrays'[call'[c].list])
           /\ call'[a] = [state |-> state, list |-> i, at |-> 1, before |-> Len(snapshots) + 1]
           /\ \A c \in Calls \ {a} : call'[c] = call[c]
<1>1. /\ call \in [Calls -> Call] /\ snapshots \in Seq(Content) /\ config \in Content
      /\ arrays \in Seq(Seq(Commands)) /\ ran \in [Commands -> Nat]
  BY DEF TypeInv, TypeOK
<1>2. /\ snapshots' = Append(snapshots, config)
      /\ call'[a] = [state |-> state, list |-> i, at |-> 1, before |-> Len(snapshots) + 1]
      /\ \A c \in Calls \ {a} : call'[c] = call[c]
      /\ DOMAIN call' = Calls /\ call' = [c \in Calls |-> call'[c]]
  BY <1>1 DEF Started
<1>3. snapshots' \in Seq(Content) /\ Len(snapshots') = Len(snapshots) + 1 /\ Len(snapshots) \in Nat
  BY <1>1, <1>2
<1>4. arrays'[i] \in Seq(Commands) /\ Len(arrays'[i]) \in Nat \ {0} /\ arrays'[i][1] \in Commands
  <2>1. arrays'[i] \in Seq(Commands)
    OBVIOUS
  <2>2. arrays'[i] # <<>>
    OBVIOUS
  <2> QED
    BY <2>1, <2>2
<1>5. ran' \in [Commands -> Nat]
  BY <1>1, <1>4 DEF Started
<1>6. Len(arrays) \in Nat /\ Len(arrays') \in Nat /\ Len(arrays) <= Len(arrays')
      /\ DOMAIN arrays' = 1 .. Len(arrays') /\ DOMAIN arrays = 1 .. Len(arrays)
  <2>1. Len(arrays) \in Nat /\ Len(arrays') \in Nat
        /\ DOMAIN arrays' = 1 .. Len(arrays') /\ DOMAIN arrays = 1 .. Len(arrays)
    BY <1>1
  <2> QED
    BY <2>1
<1>7. \A c \in Calls : call'[c] \in Call'
  <2>1. call'[a] \in Call'
    BY <1>2, <1>3, <1>6 DEF Call
  <2>2. ASSUME NEW c \in Calls \ {a} PROVE call'[c] \in Call'
    <3>1. call[c] \in Call /\ call'[c] = call[c]
      BY <1>1, <1>2
    <3> QED
      BY <1>3, <1>6, <3>1 DEF Call
  <2> QED
    BY <2>1, <2>2
<1>8. ASSUME NEW c \in Calls, Running(c)'
      PROVE  /\ call'[c].list \in DOMAIN arrays' /\ call'[c].before > 0
             /\ call'[c].at \in 1 .. Len(arrays'[call'[c].list])
  <2>1. CASE c = a
    BY <1>2, <1>3, <1>4, <2>1
  <2>2. CASE c # a
    <3>1. call'[c] = call[c] /\ Running(c)
      BY <1>2, <1>8, <2>2 DEF Running
    <3> QED
      BY <3>1 DEF TypeInv, TypeOK, Arrays, List
  <2> QED
    BY <2>1, <2>2
<1> QED
  BY <1>2, <1>3, <1>5, <1>7, <1>8

LEMMA TypeApply ==
    ASSUME TypeInv, NEW a \in Calls, Apply(a)
    PROVE  TypeInv'
<1> USE DEF Apply, queueVars, fileVars, boundVars
<1>0. arrays' = arrays /\ queues \in DOMAIN arrays /\ arrays \in Seq(Seq(Commands))
      /\ arrays[queues] # <<>>
  BY DEF TypeInv, TypeOK, Arrays
<1>1. Started(a, "queue", queues, arrays'[queues])
  BY <1>0
<1>2. /\ call' \in [Calls -> Call'] /\ snapshots' \in Seq(Content)
      /\ ran' \in [Commands -> Nat]
      /\ \A c \in Calls : Running(c)' =>
             /\ call'[c].list \in DOMAIN arrays' /\ call'[c].before > 0
             /\ call'[c].at \in 1 .. Len(arrays'[call'[c].list])
      /\ call'[a] = [state |-> "queue", list |-> queues, at |-> 1, before |-> Len(snapshots) + 1]
      /\ \A c \in Calls \ {a} : call'[c] = call[c]
  BY <1>0, <1>1, StartedType
<1>3. InQueue' = InQueue /\ InQueue = Range(arrays[queues])
  BY <1>0 DEF InQueue, TypeInv, TypeOK
<1>4. ASSUME NEW c \in Calls, call'[c].state = "queue" PROVE Range(List(c)') \subseteq given'
  <2>1. CASE c = a
    BY <1>0, <1>2, <1>3, <2>1 DEF TypeInv, TypeOK, List
  <2>2. CASE c # a
    BY <1>0, <1>2, <1>4, <2>2 DEF TypeInv, Arrays, List
  <2> QED
    BY <2>1, <2>2
<1>5. crossed' \in BOOLEAN
  BY Zenon DEF TypeInv, TypeOK
<1>6. TypeOK'
  <2>1. \A c \in Calls : Running(c)' => call'[c].at \in 1 .. Len(List(c)') /\ call'[c].before > 0
    BY <1>2 DEF List
  <2> QED
    BY <1>0, <1>2, <1>3, <1>5, <2>1 DEF TypeInv, TypeOK, Content
<1> QED
  BY <1>0, <1>2, <1>4, <1>6 DEF TypeInv, Arrays

LEMMA TypeRecipe ==
    ASSUME TypeInv, NEW a \in Calls, NEW b \in Batches(Fresh), Recipe(a, b)
    PROVE  TypeInv'
<1> USE DEF Recipe, fileVars, boundVars
<1> DEFINE n == Len(arrays) + 1
<1>0. b \in Seq(Commands) /\ b # <<>>
  BY BatchType DEF Fresh
<1>1. /\ arrays \in Seq(Seq(Commands)) /\ arrays' \in Seq(Seq(Commands))
      /\ DOMAIN arrays' = DOMAIN arrays \cup {n} /\ n \in DOMAIN arrays' /\ arrays'[n] = b
      /\ \A k \in DOMAIN arrays : arrays'[k] = arrays[k]
      /\ Len(arrays') = Len(arrays) + 1 /\ Len(arrays) \in Nat
  BY <1>0 DEF TypeInv, TypeOK
<1>2. Started(a, "recipe", n, arrays'[n])
  BY <1>1
<1> HIDE DEF n
<1>3. /\ call' \in [Calls -> Call'] /\ snapshots' \in Seq(Content)
      /\ ran' \in [Commands -> Nat]
      /\ \A c \in Calls : Running(c)' =>
             /\ call'[c].list \in DOMAIN arrays' /\ call'[c].before > 0
             /\ call'[c].at \in 1 .. Len(arrays'[call'[c].list])
      /\ call'[a] = [state |-> "recipe", list |-> n, at |-> 1, before |-> Len(snapshots) + 1]
      /\ \A c \in Calls \ {a} : call'[c] = call[c]
  BY <1>0, <1>1, <1>2, StartedType
<1>4. InQueue' = InQueue /\ queues' \in 0 .. Len(arrays')
  BY <1>1 DEF InQueue, TypeInv, TypeOK
<1>5. ASSUME NEW c \in Calls, call'[c].state = "queue" PROVE Range(List(c)') \subseteq given'
  <2>1. c # a
    BY <1>3, <1>5
  <2>2. call[c].state = "queue" /\ call'[c] = call[c] /\ call[c].list \in DOMAIN arrays
    BY <1>3, <1>5, <2>1 DEF TypeInv, Arrays, Running
  <2> QED
    BY <1>1, <2>2 DEF TypeInv, Arrays, List
<1>6. TypeOK'
  <2>1. \A c \in Calls : Running(c)' => call'[c].at \in 1 .. Len(List(c)') /\ call'[c].before > 0
    BY <1>3 DEF List
  <2> QED
    BY <1>1, <1>3, <1>4, <2>1 DEF TypeInv, TypeOK, Content
<1>7. \A i \in DOMAIN arrays' : arrays'[i] # <<>>
  BY <1>0, <1>1 DEF TypeInv, Arrays
<1> QED
  BY <1>3, <1>5, <1>6, <1>7 DEF TypeInv, Arrays

LEMMA TypeQueue ==
    ASSUME TypeInv, NEW b \in Batches(Fresh), Queue(b)
    PROVE  TypeInv'
<1> USE DEF Queue, fileVars, boundVars
<1>1. /\ arrays' \in Seq(Seq(Commands)) /\ queues' \in DOMAIN arrays'
      /\ DOMAIN arrays \subseteq DOMAIN arrays'
      /\ \A i \in DOMAIN arrays : \A j \in DOMAIN arrays[i] : j \in DOMAIN arrays'[i]
      /\ \A i \in DOMAIN arrays : Range(arrays'[i]) \subseteq Range(arrays[i]) \cup Range(b)
      /\ \A i \in DOMAIN arrays' : arrays'[i] # <<>>
      /\ InQueue' = InQueue \cup Range(b)
  BY Queued
<1>2. Range(b) \subseteq Commands
  BY BatchType DEF Fresh
<1>3. call' = call /\ call \in [Calls -> Call] /\ arrays \in Seq(Seq(Commands))
  BY DEF TypeInv, TypeOK
<1>4. /\ Len(arrays) \in Nat /\ Len(arrays') \in Nat /\ Len(arrays) <= Len(arrays')
      /\ queues' \in 0 .. Len(arrays')
  <2>1. /\ Len(arrays) \in Nat /\ Len(arrays') \in Nat /\ Len(arrays) <= Len(arrays')
        /\ DOMAIN arrays' = 1 .. Len(arrays')
    BY <1>1, <1>3, Longer
  <2>2. queues' \in 1 .. Len(arrays')
    BY <1>1, <2>1
  <2> HIDE DEF Queue
  <2>3. queues' \in 0 .. Len(arrays')
    BY <2>1, <2>2
  <2> QED
    BY <2>1, <2>3
<1>5. call' \in [Calls -> Call']
  <2>1. Call \subseteq Call'
    BY <1>3, <1>4 DEF Call
  <2> QED
    BY <1>3, <2>1
<1>6. ASSUME NEW c \in Calls, Running(c)'
      PROVE  /\ call'[c].list \in DOMAIN arrays' /\ call'[c].before > 0
             /\ call'[c].at \in 1 .. Len(List(c)')
  <2>1. Running(c) /\ call'[c] = call[c] /\ call[c].list \in DOMAIN arrays
        /\ call[c].at \in 1 .. Len(List(c)) /\ call[c].before > 0
    BY <1>3, <1>6 DEF TypeInv, TypeOK, Arrays, Running
  <2>2. arrays[call[c].list] \in Seq(Commands) /\ arrays'[call[c].list] \in Seq(Commands)
    BY <1>1, <1>3, <2>1
  <2>3. call[c].at \in DOMAIN arrays[call[c].list]
    BY <2>1, <2>2 DEF List
  <2> QED
    BY <1>1, <2>1, <2>2, <2>3 DEF List
<1>7. ASSUME NEW c \in Calls, call'[c].state = "queue"
      PROVE  Range(List(c)') \subseteq given'
  <2>1. call[c].state = "queue" /\ call[c].list \in DOMAIN arrays
    BY <1>3, <1>7 DEF TypeInv, Arrays, Running
  <2> QED
    BY <1>1, <1>3, <2>1 DEF TypeInv, Arrays, List
<1>8. given' \subseteq Commands /\ withdrawn' \subseteq given' /\ InQueue' \subseteq given'
  BY <1>1, <1>2 DEF TypeInv, TypeOK
<1>9. TypeOK'
  BY <1>1, <1>4, <1>5, <1>6, <1>8 DEF TypeInv, TypeOK, Content
<1> QED
  BY <1>1, <1>6, <1>7, <1>9 DEF TypeInv, Arrays

LEMMA TypeDiscard == TypeInv /\ Discard => TypeInv'
<1> SUFFICES ASSUME TypeInv, Discard PROVE TypeInv'
  OBVIOUS
<1> USE DEF Discard, fileVars
<1>1. InQueue' = {} /\ crossed' \in BOOLEAN /\ arrays' = arrays /\ call' = call
  BY DEF InQueue
<1>2. Call' = Call /\ \A c \in Calls : Running(c)' = Running(c) /\ List(c)' = List(c)
  BY <1>1 DEF Call, Running, List
<1>3. /\ queues' \in 0 .. Len(arrays') /\ changes' \in 0 .. MaxChanges
      /\ given' = given /\ withdrawn' \subseteq given'
  BY QueueAssumption DEF QueueAssumption, TypeInv, TypeOK
<1>4. TypeOK'
  BY <1>1, <1>2, <1>3 DEF TypeInv, TypeOK, Content
<1> QED
  BY <1>1, <1>2, <1>4 DEF TypeInv, Arrays

\* The end of a call leaves the types as they are.
LEMMA TypeEnded ==
    ASSUME TypeInv, NEW a \in Calls, NEW s \in {"succeeded", "failed", "stranded"},
           NEW left, Ended(a, s, left), snapshots' = snapshots,
           call[a].state = "queue" => left \subseteq given
    PROVE  /\ call' \in [Calls -> Call'] /\ queues' \in 0 .. Len(arrays')
           /\ withdrawn' \subseteq given' /\ InQueue' \subseteq given' /\ Arrays'
           /\ \A c \in Calls : Running(c)' =>
                  call'[c].at \in 1 .. Len(List(c)') /\ call'[c].before > 0
<1>1. /\ call \in [Calls -> Call] /\ arrays' = arrays /\ given' = given
      /\ queues \in 0 .. Len(arrays) /\ arrays \in Seq(Seq(Commands))
      /\ withdrawn \subseteq given /\ InQueue \subseteq given
  BY DEF TypeInv, TypeOK, Ended
<1>2. call'[a] = [call[a] EXCEPT !.state = s] /\ \A c \in Calls \ {a} : call'[c] = call[c]
  BY <1>1 DEF Ended
<1>3. call' \in [Calls -> Call']
  <2>1. call'[a] \in Call /\ Call' = Call
    BY <1>1, <1>2 DEF Call
  <2> QED
    BY <1>1, <1>2, <2>1 DEF Ended
<1>4. call'[a].state = s
  BY <1>1, <1>2 DEF Call
<1>5. queues' \in 0 .. Len(arrays') /\ withdrawn' \subseteq given' /\ InQueue' \subseteq given'
  BY <1>1 DEF Ended, InQueue
<1>6. \A c \in Calls : Running(c)' => c # a /\ call'[c] = call[c]
  BY <1>2, <1>4 DEF Running
<1>7. Arrays'
  BY <1>1, <1>2, <1>4, <1>6 DEF TypeInv, Arrays, List, Running
<1> QED
  BY <1>1, <1>3, <1>5, <1>6, <1>7 DEF TypeInv, TypeOK, List, Running

LEMMA TypeSucceed ==
    ASSUME TypeInv, NEW a \in Calls, Succeed(a)
    PROVE  TypeInv'
<1> DEFINE next == call[a].at + 1
<1> USE DEF Succeed, boundVars
<1>1. /\ Running(a) /\ snapshots' = snapshots /\ arrays' = arrays /\ given' = given
      /\ arrays \in Seq(Seq(Commands)) /\ call \in [Calls -> Call]
      /\ call[a].list \in DOMAIN arrays /\ call[a].at \in 1 .. Len(List(a))
  BY DEF TypeInv, TypeOK, Arrays, queueVars, Ended
<1>2. List(a) \in Seq(Commands) /\ List(a)[call[a].at] \in Commands /\ next \in Nat
  <2>1. List(a) \in Seq(Commands)
    BY <1>1 DEF List
  <2> QED
    BY <1>1, <2>1
<1>3. config' \in Content /\ exists' = TRUE /\ meddled' \subseteq Calls
  BY <1>2 DEF TypeInv, TypeOK, Content, Others
<1>4. CASE next <= Len(List(a))
  <2>1. /\ call' = [call EXCEPT ![a].at = next] /\ ran' = [ran EXCEPT ![List(a)[next]] = @ + 1]
        /\ UNCHANGED queueVars
    BY <1>4
  <2>2. next \in 1 .. Len(List(a)) /\ List(a)[next] \in Commands
    BY <1>1, <1>2, <1>4
  <2>3. ran' \in [Commands -> Nat]
    BY <2>1, <2>2 DEF TypeInv, TypeOK
  <2> HIDE DEF next
  <2>4. call' \in [Calls -> Call']
    BY <1>1, <1>2, <2>1 DEF Call
  <2>5. \A c \in Calls : /\ call'[c].state = call[c].state /\ call'[c].list = call[c].list
                         /\ call'[c].before = call[c].before
                         /\ call'[c].at = IF c = a THEN next ELSE call[c].at
    BY <1>1, <2>1 DEF Call
  <2>6. \A c \in Calls : Running(c)' =>
            call'[c].at \in 1 .. Len(List(c)') /\ call'[c].before > 0
    BY <1>1, <2>2, <2>5 DEF TypeInv, TypeOK, Running, List
  <2>7. Arrays' /\ InQueue' = InQueue
    BY <1>1, <2>1, <2>5 DEF TypeInv, Arrays, Running, List, queueVars, InQueue
  <2> QED
    BY <1>1, <1>3, <2>1, <2>3, <2>4, <2>6, <2>7 DEF TypeInv, TypeOK, queueVars, Content
<1>5. CASE ~(next <= Len(List(a)))
  <2>1. Ended(a, "succeeded", {}) /\ ran' = ran
    BY <1>5
  <2>2. /\ call' \in [Calls -> Call'] /\ queues' \in 0 .. Len(arrays')
        /\ withdrawn' \subseteq given' /\ InQueue' \subseteq given' /\ Arrays'
        /\ \A c \in Calls : Running(c)' =>
               call'[c].at \in 1 .. Len(List(c)') /\ call'[c].before > 0
    BY <1>1, <2>1, TypeEnded
  <2> QED
    BY <1>1, <1>3, <2>1, <2>2 DEF TypeInv, TypeOK, Content
<1> QED
  BY <1>4, <1>5

LEMMA TypeFail ==
    ASSUME TypeInv, NEW a \in Calls, Fail(a)
    PROVE  TypeInv'
<1> USE DEF Fail
<1> DEFINE left == {List(a)[i] : i \in call[a].at + 1 .. Len(List(a))}
           cmd == List(a)[call[a].at]
<1>1. /\ Running(a) /\ snapshots' = snapshots /\ arrays \in Seq(Seq(Commands))
      /\ call[a] \in Call /\ call[a].list \in DOMAIN arrays
      /\ call[a].at \in 1 .. Len(List(a)) /\ call[a].before \in DOMAIN snapshots
  <2>1. /\ Running(a) /\ snapshots' = snapshots /\ arrays \in Seq(Seq(Commands))
        /\ call[a] \in Call /\ call[a].list \in DOMAIN arrays
        /\ call[a].at \in 1 .. Len(List(a)) /\ call[a].before > 0
        /\ snapshots \in Seq(Content)
    BY DEF TypeInv, TypeOK, Arrays
  <2>2. call[a].before \in DOMAIN snapshots
    BY <2>1 DEF Call
  <2> QED
    BY <2>1, <2>2
<1>2. List(a) \in Seq(Commands) /\ cmd \in Commands
  <2>1. List(a) \in Seq(Commands)
    BY <1>1 DEF List
  <2> QED
    BY <1>1, <2>1
<1>3. PICK wrote \in BOOLEAN :
          LET now == IF wrote THEN config \cup {cmd} ELSE config
              there == exists \/ wrote
          IN \/ RolledBack(call[a].before, now, there) /\ Ended(a, "failed", left)
             \/ there /\ NotRolledBack(now, there) /\ Ended(a, "stranded", left)
  BY <1>2
<1> DEFINE now == IF wrote THEN config \cup {cmd} ELSE config
           there == exists \/ wrote
<1>4. now \in Content /\ there \in BOOLEAN /\ (~there => now = {})
      /\ snapshots[call[a].before] \in Content
  <2>1. there \in BOOLEAN /\ (~there => now = {})
    BY DEF TypeInv, TypeOK
  <2>2. now \in Content
    BY <1>2 DEF TypeInv, TypeOK, Content
  <2> QED
    BY <1>1, <2>1, <2>2 DEF TypeInv, TypeOK
<1>5. exists' = there /\ config' \in Content /\ (~exists' => config' = {})
  <2> HIDE DEF now, there
  <2>1. CASE RolledBack(call[a].before, now, there)
    BY <1>4, <2>1 DEF RolledBack
  <2>2. CASE there /\ NotRolledBack(now, there)
    BY <1>4, <2>2 DEF NotRolledBack
  <2> QED
    BY <1>3, <2>1, <2>2 DEF now, there
<1>6. call[a].state = "queue" => left \subseteq given
  <2> SUFFICES ASSUME call[a].state = "queue", NEW i \in call[a].at + 1 .. Len(List(a))
               PROVE  List(a)[i] \in given
    OBVIOUS
  <2>1. i \in DOMAIN List(a)
    BY <1>1, <1>2
  <2>2. Range(List(a)) \subseteq given
    BY DEF TypeInv, Arrays
  <2> QED
    BY <2>1, <2>2 DEF Range
<1>7. PICK s \in {"failed", "stranded"} : Ended(a, s, left)
  BY <1>3
<1> HIDE DEF left, cmd, now, there
<1>8. /\ call' \in [Calls -> Call'] /\ queues' \in 0 .. Len(arrays')
      /\ withdrawn' \subseteq given' /\ InQueue' \subseteq given' /\ Arrays'
      /\ \A c \in Calls : Running(c)' =>
             call'[c].at \in 1 .. Len(List(c)') /\ call'[c].before > 0
  BY <1>1, <1>6, <1>7, TypeEnded
<1>9. /\ arrays' = arrays /\ given' = given /\ meddled' \subseteq Calls
      /\ faults' \in 0 .. MaxFaults
  BY <1>7, QueueAssumption DEF Ended, TypeInv, TypeOK, Others, QueueAssumption
<1> QED
  BY <1>1, <1>4, <1>5, <1>8, <1>9 DEF TypeInv, TypeOK, Content

LEMMA TypeRollback ==
    ASSUME TypeInv, NEW s \in DOMAIN snapshots, Rollback(s)
    PROVE  TypeInv'
<1> USE DEF Rollback, queueVars
<1>1. /\ snapshots' = Append(snapshots, config) /\ snapshots \in Seq(Content)
      /\ config \in Content /\ call' = call /\ call \in [Calls -> Call] /\ arrays' = arrays
  BY DEF TypeInv, TypeOK
<1>2. /\ snapshots' \in Seq(Content) /\ Len(snapshots') = Len(snapshots) + 1
      /\ Len(snapshots) \in Nat
  BY <1>1
<1>3. config' \in Content' /\ exists' = exists /\ exists = TRUE /\ Content' = Content
  BY <1>1 DEF Content
<1>4. call' \in [Calls -> Call']
  BY <1>1, <1>2 DEF Call
<1>5. \A c \in Calls : Running(c)' = Running(c) /\ List(c)' = List(c)
  BY <1>1 DEF Running, List
<1>6. /\ InQueue' = InQueue /\ meddled' \subseteq Calls /\ changes' \in 0 .. MaxChanges
  BY QueueAssumption DEF QueueAssumption, InQueue, TypeInv, TypeOK, Meddle
<1>7. TypeOK'
  BY <1>1, <1>2, <1>3, <1>4, <1>5, <1>6 DEF TypeInv, TypeOK
<1> QED
  BY <1>1, <1>5, <1>7 DEF TypeInv, Arrays

LEMMA TypeEdit ==
    ASSUME TypeInv, NEW e \in Edits, Edit(e)
    PROVE  TypeInv'
<1> USE DEF Edit, queueVars
<1>1. config' \in Content /\ exists' = TRUE /\ Content' = Content
  BY DEF TypeInv, TypeOK, Content
<1>2. Call' = Call /\ \A c \in Calls : Running(c)' = Running(c) /\ List(c)' = List(c)
  BY DEF Call, Running, List
<1>3. /\ InQueue' = InQueue /\ meddled' \subseteq Calls /\ changes' \in 0 .. MaxChanges
  BY QueueAssumption DEF QueueAssumption, InQueue, TypeInv, TypeOK, Meddle
<1>4. TypeOK'
  BY <1>1, <1>2, <1>3 DEF TypeInv, TypeOK
<1> QED
  BY <1>2, <1>4 DEF TypeInv, Arrays

LEMMA TypeCrash == TypeInv /\ Crash => TypeInv'
<1> SUFFICES ASSUME TypeInv, Crash PROVE TypeInv'
  OBVIOUS
<1> USE DEF Crash
<1>1. /\ call \in [Calls -> Call] /\ arrays' = arrays /\ snapshots' = snapshots
      /\ arrays \in Seq(Seq(Commands))
      /\ call' = [a \in Calls |->
             IF Running(a) THEN [call[a] EXCEPT !.state = "killed"] ELSE call[a]]
  BY DEF TypeInv, TypeOK
<1>2. call' \in [Calls -> Call']
  <2>1. Call' = Call
    BY <1>1 DEF Call
  <2>2. \A a \in Calls : [call[a] EXCEPT !.state = "killed"] \in Call /\ call[a] \in Call
    BY <1>1 DEF Call
  <2> QED
    BY <1>1, <2>1, <2>2, Zenon
<1>3. \A c \in Calls : ~Running(c)' /\ call'[c].state # "queue"
  BY <1>1 DEF Running, Call
<1>4. /\ config' \in Content /\ exists' \in BOOLEAN /\ (~exists' => config' = {})
      /\ Content' = Content
  <2>1. CASE UNCHANGED <<config, exists>>
    BY <2>1 DEF TypeInv, TypeOK, Content
  <2>2. CASE \E a \in Calls : Running(a) /\ config' = config \cup {List(a)[call[a].at]}
                                      /\ exists' = TRUE
    <3>1. PICK a \in Calls : Running(a) /\ config' = config \cup {List(a)[call[a].at]}
                             /\ exists' = TRUE
      BY <2>2
    <3>2. List(a) \in Seq(Commands) /\ call[a].at \in 1 .. Len(List(a))
      BY <1>1, <3>1 DEF TypeInv, TypeOK, Arrays, List
    <3>3. List(a)[call[a].at] \in Commands
      BY <3>2
    <3> QED
      BY <3>1, <3>3 DEF TypeInv, TypeOK, Content
  <2> QED
    BY <2>1, <2>2
<1>5. /\ InQueue' = {} /\ withdrawn' \subseteq given' /\ given' = given
      /\ crashes' \in 0 .. MaxCrashes /\ queues' \in 0 .. Len(arrays')
  BY <1>1, QueueAssumption DEF QueueAssumption, InQueue, TypeInv, TypeOK
<1>6. TypeOK'
  BY <1>1, <1>2, <1>3, <1>4, <1>5 DEF TypeInv, TypeOK
<1> QED
  BY <1>1, <1>3, <1>6 DEF TypeInv, Arrays

LEMMA TypeNext == TypeInv /\ [Next]_vars => TypeInv'
<1> SUFFICES ASSUME TypeInv, [Next]_vars PROVE TypeInv'
  OBVIOUS
<1>1. CASE Next
  BY <1>1, TypeQueue, TypeRecipe, TypeDiscard, TypeCrash, TypeApply, TypeSucceed, TypeFail,
     TypeRollback, TypeEdit DEF Next
<1>2. CASE UNCHANGED vars
  <2>1. /\ Call' = Call /\ InQueue' = InQueue /\ Content' = Content
        /\ \A c \in Calls : Running(c)' = Running(c) /\ List(c)' = List(c)
    BY <1>2 DEF vars, Call, InQueue, Content, Running, List
  <2> QED
    BY <1>2, <2>1 DEF vars, TypeInv, TypeOK, Arrays
<1> QED
  BY <1>1, <1>2

LEMMA TypeInvariant == Spec => []TypeInv
<1> QED
  BY TypeInit, TypeNext, PTL DEF Spec

\* The type invariant: every call's position is one of its array, and its
\* snapshot is there, whatever happens to the map of queues meanwhile.
THEOREM QueueTypeCorrect == Spec => []TypeOK
<1>1. TypeInv => TypeOK
  BY DEF TypeInv
<1> QED
  BY <1>1, TypeInvariant, PTL

-----------------------------------------------------------------------------
(* An apply is all or nothing *)

\* The commands of a's array that the CLI has finished.
Done(a) == {List(a)[j] : j \in 1 .. call[a].at - 1}

\* Under an apply that nothing else wrote beside, the file has what it had at
\* the snapshot and what the finished commands wrote.
FileInv ==
    \A a \in Calls \ meddled :
        Running(a) => config = snapshots[call[a].before] \cup Done(a)

LEMMA FileInit == Init => FileInv
  BY DEF Init, FileInv, Running

LEMMA FileSame ==
    ASSUME TypeInv, FileInv, UNCHANGED <<arrays, call, config, snapshots, meddled>>
    PROVE  FileInv'
<1>1. \A a \in Calls : Running(a)' = Running(a) /\ Done(a)' = Done(a)
  BY DEF Running, Done, List
<1> QED
  BY <1>1 DEF FileInv

LEMMA FileQueue ==
    ASSUME TypeInv, FileInv, NEW b \in Batches(Fresh), Queue(b)
    PROVE  FileInv'
<1>1. /\ DOMAIN arrays \subseteq DOMAIN arrays'
      /\ \A i \in DOMAIN arrays : \A j \in DOMAIN arrays[i] : arrays'[i][j] = arrays[i][j]
  BY Queued
<1>2. UNCHANGED <<call, config, snapshots, meddled>>
  BY DEF Queue, fileVars
<1> SUFFICES ASSUME NEW a \in Calls \ meddled, Running(a)
             PROVE  Done(a)' = Done(a)
  BY <1>2 DEF FileInv, Running
<1>3. /\ call[a].list \in DOMAIN arrays /\ call[a].at \in 1 .. Len(List(a))
      /\ arrays \in Seq(Seq(Commands))
  BY DEF TypeInv, TypeOK, Arrays
<1>4. List(a) = arrays[call[a].list] /\ List(a)' = arrays'[call[a].list]
  BY <1>2 DEF List
<1>5. \A j \in 1 .. call[a].at - 1 : j \in DOMAIN arrays[call[a].list]
  <2>1. List(a) \in Seq(Commands)
    BY <1>3, <1>4
  <2>2. DOMAIN List(a) = 1 .. Len(List(a)) /\ Len(List(a)) \in Nat
    BY <2>1
  <2> QED
    BY <1>3, <1>4, <2>2
<1>6. \A j \in 1 .. call[a].at - 1 : List(a)'[j] = List(a)[j]
  BY <1>1, <1>3, <1>4, <1>5
<1> QED
  BY <1>2, <1>6 DEF Done

\* A call that starts finds the file as its snapshot has it.
LEMMA FileStarted ==
    ASSUME TypeInv, FileInv, NEW a \in Calls, UNCHANGED fileVars,
           call'[a].before = Len(snapshots) + 1, call'[a].at = 1,
           snapshots' = Append(snapshots, config),
           \A c \in Calls \ {a} : call'[c] = call[c],
           \A c \in Calls : Running(c) => List(c)' = List(c) \/ c = a
    PROVE  FileInv'
<1>1. snapshots \in Seq(Content) /\ config \in Content
  BY DEF TypeInv, TypeOK
<1>2. /\ snapshots'[Len(snapshots) + 1] = config
      /\ \A i \in 1 .. Len(snapshots) : snapshots'[i] = snapshots[i]
  BY <1>1
<1> SUFFICES ASSUME NEW c \in Calls \ meddled', Running(c)'
             PROVE  config' = snapshots'[call'[c].before] \cup Done(c)'
  BY DEF FileInv
<1>3. CASE c = a
  <2>1. Done(c)' = {}
    BY <1>3 DEF Done
  <2> QED
    BY <1>2, <1>3, <2>1 DEF fileVars
<1>4. CASE c # a
  <2>1. Running(c) /\ call'[c] = call[c] /\ c \notin meddled
    BY <1>4 DEF Running, fileVars
  <2>2. Done(c)' = Done(c)
    BY <1>4, <2>1 DEF Done
  <2>3. call[c].before \in 1 .. Len(snapshots)
    BY <2>1 DEF TypeInv, TypeOK, Call
  <2> QED
    BY <1>2, <2>1, <2>2, <2>3 DEF FileInv, fileVars
<1> QED
  BY <1>3, <1>4

LEMMA FileApply ==
    ASSUME TypeInv, FileInv, NEW a \in Calls, Apply(a)
    PROVE  FileInv'
<1>1. /\ call \in [Calls -> Call] /\ UNCHANGED fileVars /\ arrays' = arrays
      /\ snapshots' = Append(snapshots, config)
      /\ call' = [call EXCEPT ![a] = [state |-> "queue", list |-> queues, at |-> 1,
                                      before |-> Len(snapshots) + 1]]
  BY DEF Apply, Started, TypeInv, TypeOK, queueVars
<1>2. /\ call'[a].before = Len(snapshots) + 1 /\ call'[a].at = 1
      /\ \A c \in Calls \ {a} : call'[c] = call[c]
  BY <1>1
<1>3. \A c \in Calls : Running(c) => List(c)' = List(c) \/ c = a
  BY <1>1, <1>2 DEF List
<1> QED
  BY <1>1, <1>2, <1>3, FileStarted

LEMMA FileRecipe ==
    ASSUME TypeInv, FileInv, NEW a \in Calls, NEW b \in Batches(Fresh), Recipe(a, b)
    PROVE  FileInv'
<1>1. /\ call \in [Calls -> Call] /\ UNCHANGED fileVars
      /\ arrays \in Seq(Seq(Commands)) /\ arrays' = Append(arrays, b)
      /\ snapshots' = Append(snapshots, config)
      /\ call' = [call EXCEPT ![a] = [state |-> "recipe", list |-> Len(arrays) + 1, at |-> 1,
                                      before |-> Len(snapshots) + 1]]
  BY DEF Recipe, Started, TypeInv, TypeOK
<1>2. /\ call'[a].before = Len(snapshots) + 1 /\ call'[a].at = 1
      /\ \A c \in Calls \ {a} : call'[c] = call[c]
  BY <1>1
<1>3. \A i \in DOMAIN arrays : arrays'[i] = arrays[i]
  <2>1. b \in Seq(Commands)
    BY BatchType DEF Fresh
  <2> QED
    BY <1>1, <2>1
<1>4. \A c \in Calls : Running(c) => List(c)' = List(c) \/ c = a
  BY <1>2, <1>3 DEF List, TypeInv, Arrays
<1> QED
  BY <1>1, <1>2, <1>4, FileStarted

LEMMA FileSucceed ==
    ASSUME TypeInv, FileInv, NEW a \in Calls, Succeed(a)
    PROVE  /\ FileInv'
           /\ a \notin meddled /\ call'[a].state = "succeeded" =>
                  config' = snapshots[call[a].before] \cup Range(List(a))
           /\ call'[a].state # "failed"
           /\ \A c \in Calls \ {a} : call'[c] = call[c]
<1> DEFINE next == call[a].at + 1
           cmd == List(a)[call[a].at]
<1>1. /\ Running(a) /\ call \in [Calls -> Call] /\ snapshots' = snapshots /\ arrays' = arrays
      /\ config' = config \cup {cmd} /\ meddled' = meddled \cup Others(a)
      /\ call[a].at \in 1 .. Len(List(a)) /\ call[a].list \in DOMAIN arrays
      /\ arrays \in Seq(Seq(Commands))
  BY DEF Succeed, TypeInv, TypeOK, Arrays, queueVars, Ended
<1>2. List(a) \in Seq(Commands)
  BY <1>1 DEF List
<1>3. \/ call' = [call EXCEPT ![a].at = next] /\ next <= Len(List(a))
      \/ call' = [call EXCEPT ![a].state = "succeeded"] /\ ~(next <= Len(List(a)))
  BY DEF Succeed, Ended
<1>4. call[a].at \in Nat \ {0} /\ Len(List(a)) \in Nat /\ DOMAIN List(a) = 1 .. Len(List(a))
  BY <1>1, <1>2
<1>5. \A c \in Calls \ {a} : call'[c] = call[c]
  BY <1>1, <1>3
<1>6. Done(a) \cup {cmd} = {List(a)[j] : j \in 1 .. call[a].at}
  <2>1. 1 .. call[a].at = 1 .. call[a].at - 1 \cup {call[a].at}
    BY <1>4
  <2> QED
    BY <2>1 DEF Done
<1>7. ASSUME NEW c \in Calls \ meddled', Running(c)'
      PROVE  config' = snapshots'[call'[c].before] \cup Done(c)'
  <2>1. c = a
    BY <1>1, <1>5, <1>7 DEF Others, Running
  <2>2. call' = [call EXCEPT ![a].at = next]
    BY <1>1, <1>3, <1>7, <2>1 DEF Running, Call
  <2> HIDE DEF next
  <2>3. call'[a].at = next /\ call'[a].before = call[a].before /\ call'[a].list = call[a].list
    BY <1>1, <2>2 DEF Call
  <2>4. call'[a].at - 1 = call[a].at
    BY <1>4, <2>3 DEF next
  <2>5. Done(a)' = Done(a) \cup {cmd}
    BY <1>1, <1>6, <2>3, <2>4 DEF Done, List
  <2> QED
    BY <1>1, <1>7, <2>1, <2>3, <2>5 DEF FileInv
<1>8. ASSUME a \notin meddled, call'[a].state = "succeeded"
      PROVE  config' = snapshots[call[a].before] \cup Range(List(a))
  <2>1. call[a].state \in {"queue", "recipe"}
    BY <1>1 DEF Running
  <2>2. ~(next <= Len(List(a)))
    <3> HIDE DEF next
    <3> QED
      BY <1>1, <1>3, <1>8, <2>1 DEF Call
  <2>3. call[a].at = Len(List(a))
    BY <1>1, <1>4, <2>2
  <2>4. Range(List(a)) = Done(a) \cup {cmd}
    BY <1>4, <1>6, <2>3 DEF Range
  <2> QED
    BY <1>1, <1>8, <2>4 DEF FileInv
<1>9. call'[a].state # "failed"
  BY <1>1, <1>3 DEF Running, Call
<1> QED
  BY <1>5, <1>7, <1>8, <1>9 DEF FileInv

LEMMA FileFail ==
    ASSUME TypeInv, FileInv, NEW a \in Calls, Fail(a)
    PROVE  /\ FileInv'
           /\ a \notin meddled /\ call'[a].state = "failed" =>
                  config' = snapshots[call[a].before]
           /\ call'[a].state # "succeeded"
           /\ \A c \in Calls \ {a} : call'[c] = call[c]
<1> DEFINE left == {List(a)[i] : i \in call[a].at + 1 .. Len(List(a))}
           cmd == List(a)[call[a].at]
<1>1. PICK wrote \in BOOLEAN :
          LET now == IF wrote THEN config \cup {cmd} ELSE config
              there == exists \/ wrote
          IN \/ RolledBack(call[a].before, now, there) /\ Ended(a, "failed", left)
             \/ there /\ NotRolledBack(now, there) /\ Ended(a, "stranded", left)
  BY DEF Fail
<1> DEFINE now == IF wrote THEN config \cup {cmd} ELSE config
           there == exists \/ wrote
<1>2. /\ Running(a) /\ call \in [Calls -> Call] /\ meddled' = meddled \cup Others(a)
  BY DEF Fail, TypeInv, TypeOK
<1> HIDE DEF left, cmd
<1>3. \/ RolledBack(call[a].before, now, there)
         /\ call' = [call EXCEPT ![a].state = "failed"]
      \/ call' = [call EXCEPT ![a].state = "stranded"]
  BY <1>1 DEF Ended
<1> HIDE DEF now, there
<1>4. /\ call'[a].state \in {"failed", "stranded"}
      /\ call'[a].state = "failed" => RolledBack(call[a].before, now, there)
      /\ \A c \in Calls \ {a} : call'[c] = call[c]
  <2>1. CASE RolledBack(call[a].before, now, there)
             /\ call' = [call EXCEPT ![a].state = "failed"]
    BY <1>2, <2>1 DEF Call
  <2>2. CASE call' = [call EXCEPT ![a].state = "stranded"]
    BY <1>2, <2>2 DEF Call
  <2> QED
    BY <1>3, <2>1, <2>2
<1>5. FileInv'
  <2>1. \A c \in Calls : Running(c)' => c \in Others(a)
    BY <1>4 DEF Others, Running
  <2> QED
    BY <1>2, <2>1 DEF FileInv
<1>6. ASSUME a \notin meddled, call'[a].state = "failed"
      PROVE  config' = snapshots[call[a].before]
  <2>1. RolledBack(call[a].before, now, there)
    BY <1>4, <1>6
  <2>2. CASE there
    BY <2>1, <2>2 DEF RolledBack
  <2>3. CASE ~there
    <3>1. config = {} /\ config' = config
      BY <2>1, <2>3 DEF RolledBack, now, there, TypeInv, TypeOK
    <3>2. config = snapshots[call[a].before] \cup Done(a)
      BY <1>2, <1>6 DEF FileInv
    <3> QED
      BY <3>1, <3>2
  <2> QED
    BY <2>2, <2>3
<1> QED
  BY <1>4, <1>5, <1>6

LEMMA FileNext == TypeInv /\ FileInv /\ [Next]_vars => FileInv'
<1> SUFFICES ASSUME TypeInv, FileInv, [Next]_vars PROVE FileInv'
  OBVIOUS
<1>1. ASSUME NEW b \in Batches(Fresh), Queue(b) PROVE FileInv'
  BY <1>1, FileQueue
<1>2. ASSUME NEW b \in Batches(Fresh), NEW a \in Calls, Recipe(a, b) PROVE FileInv'
  BY <1>2, FileRecipe
<1>3. CASE Discard
  BY <1>3, FileSame DEF Discard, fileVars
<1>4. CASE Crash
  <2>1. \A a \in Calls : ~Running(a)'
    BY <1>4 DEF Crash, TypeInv, TypeOK, Call, Running
  <2> QED
    BY <2>1 DEF FileInv
<1>5. ASSUME NEW a \in Calls, Apply(a) PROVE FileInv'
  BY <1>5, FileApply
<1>6. ASSUME NEW a \in Calls, Succeed(a) PROVE FileInv'
  BY <1>6, FileSucceed
<1>7. ASSUME NEW a \in Calls, Fail(a) PROVE FileInv'
  BY <1>7, FileFail
<1>8. ASSUME NEW s \in DOMAIN snapshots, Rollback(s) PROVE FileInv'
  <2>1. \A a \in Calls : Running(a)' => a \in meddled'
    BY <1>8 DEF Rollback, Meddle, Running
  <2> QED
    BY <2>1 DEF FileInv
<1>9. ASSUME NEW e \in Edits, Edit(e) PROVE FileInv'
  <2>1. \A a \in Calls : Running(a)' => a \in meddled'
    BY <1>9 DEF Edit, Meddle, Running
  <2> QED
    BY <2>1 DEF FileInv
<1>10. CASE UNCHANGED vars
  BY <1>10, FileSame DEF vars
<1> QED
  BY <1>1, <1>2, <1>3, <1>4, <1>5, <1>6, <1>7, <1>8, <1>9, <1>10 DEF Next

\* What a step may do to a call that runs.
CallEnds ==
    \A a \in Calls \ meddled : Running(a) =>
        /\ call'[a].state = "succeeded" =>
               config' = snapshots[call[a].before] \cup Range(List(a))
        /\ call'[a].state = "failed" => config' = snapshots[call[a].before]

LEMMA EndsNext == TypeInv /\ FileInv /\ [Next]_vars => CallEnds
<1> SUFFICES ASSUME TypeInv, FileInv, [Next]_vars PROVE CallEnds
  OBVIOUS
<1>0. call \in [Calls -> Call]
  BY DEF TypeInv, TypeOK
<1>1. ASSUME UNCHANGED call PROVE CallEnds
  BY <1>1 DEF CallEnds, Running
<1>2. ASSUME NEW a \in Calls, NEW b \in Batches(Fresh), Recipe(a, b) PROVE CallEnds
  BY <1>0, <1>2 DEF Recipe, Started, CallEnds, Running
<1>3. ASSUME NEW a \in Calls, Apply(a) PROVE CallEnds
  BY <1>0, <1>3 DEF Apply, Started, CallEnds, Running
<1>4. CASE Crash
  <2>1. \A a \in Calls : call'[a].state = call[a].state \/ call'[a].state = "killed"
    BY <1>0, <1>4 DEF Crash, Call
  <2> QED
    BY <2>1 DEF CallEnds, Running
<1>5. ASSUME NEW a \in Calls, Succeed(a) PROVE CallEnds
  <2>1. /\ a \notin meddled /\ call'[a].state = "succeeded" =>
               config' = snapshots[call[a].before] \cup Range(List(a))
        /\ call'[a].state # "failed"
        /\ \A c \in Calls \ {a} : call'[c] = call[c]
    BY <1>5, FileSucceed
  <2> QED
    BY <2>1 DEF CallEnds, Running
<1>6. ASSUME NEW a \in Calls, Fail(a) PROVE CallEnds
  <2>1. /\ a \notin meddled /\ call'[a].state = "failed" =>
               config' = snapshots[call[a].before]
        /\ call'[a].state # "succeeded"
        /\ \A c \in Calls \ {a} : call'[c] = call[c]
    BY <1>6, FileFail
  <2> QED
    BY <2>1 DEF CallEnds, Running
<1>7. ASSUME \/ \E b \in Batches(Fresh) : Queue(b)
             \/ Discard
             \/ \E s \in DOMAIN snapshots : Rollback(s)
             \/ \E e \in Edits : Edit(e)
             \/ UNCHANGED vars
      PROVE  UNCHANGED call
  BY <1>7 DEF Queue, Discard, Rollback, Edit, vars
<1> QED
  BY <1>1, <1>2, <1>3, <1>4, <1>5, <1>6, <1>7 DEF Next

\* AllOrNothing: an apply that nothing else wrote beside leaves the file with all
\* of its commands, or as its snapshot has it.
THEOREM ApplyAllOrNothing == Spec => AllOrNothing
<1>1. TypeInv /\ FileInv /\ [Next]_vars => [CallEnds]_vars
  BY EndsNext
<1>2. Spec => []FileInv
  BY FileInit, FileNext, TypeInvariant, PTL DEF Spec
<1>3. AllOrNothing <=> [][CallEnds]_vars
  BY DEF AllOrNothing, CallEnds
<1> QED
  BY <1>1, <1>2, <1>3, TypeInvariant, PTL DEF Spec

-----------------------------------------------------------------------------
(* No command is lost or run twice *)

\* Every position of every array has a command of its own.
Distinct ==
    \A i, k \in DOMAIN arrays : \A j \in DOMAIN arrays[i], l \in DOMAIN arrays[k] :
        arrays[i][j] = arrays[k][l] => i = k /\ j = l

\* While no discard and no other apply met the queue's: an array has one call,
\* which has run the array up to its position.
OneWalk ==
    /\ \A c \in Commands : ran[c] <= 1
    /\ \A a, b \in Calls : Running(a) /\ Running(b) /\ call[a].list = call[b].list => a = b
    /\ \A a \in Calls : call[a].state = "queue" => call[a].list = queues
    /\ \A a \in Calls : call[a].state = "recipe" => call[a].list # queues
    /\ \A a \in Calls : Running(a) =>
           \A j \in DOMAIN List(a) : ran[List(a)[j]] = (IF j <= call[a].at THEN 1 ELSE 0)
    /\ (\A a \in Calls : call[a].state # "queue") =>
           \A c \in InQueue : ran[c] = 0
    /\ given \subseteq InQueue \cup withdrawn \cup {c \in Commands : ran[c] > 0}

OnceInv ==
    /\ Distinct
    /\ \A c \in Fresh : ran[c] = 0
    /\ ~crossed => OneWalk

LEMMA OnceInit == Init => OnceInv
<1> SUFFICES ASSUME Init PROVE OnceInv
  OBVIOUS
<1>1. DOMAIN arrays = {} /\ InQueue = {} /\ \A a \in Calls : ~Running(a) /\ call[a].state = "new"
  BY DEF Init, InQueue, Running
<1>2. \A c \in Commands : ran[c] = 0
  BY DEF Init
<1>3. given = {}
  BY DEF Init
<1> QED
  BY <1>1, <1>2, <1>3 DEF OnceInv, Distinct, OneWalk, Fresh

LEMMA OnceQueue ==
    ASSUME TypeInv, OnceInv, NEW b \in Batches(Fresh), Queue(b)
    PROVE  OnceInv'
<1>1. /\ arrays' \in Seq(Seq(Commands)) /\ queues' \in DOMAIN arrays'
      /\ DOMAIN arrays \subseteq DOMAIN arrays'
      /\ \A i \in DOMAIN arrays : \A j \in DOMAIN arrays[i] :
             j \in DOMAIN arrays'[i] /\ arrays'[i][j] = arrays[i][j]
      /\ \A i \in DOMAIN arrays' : \A j \in DOMAIN arrays'[i] :
             \/ i \in DOMAIN arrays /\ j \in DOMAIN arrays[i]
             \/ i = queues' /\ arrays'[i][j] \in Range(b)
      /\ \A j, l \in DOMAIN arrays'[queues'] :
             arrays'[queues'][j] = arrays'[queues'][l] /\ arrays'[queues'][j] \in Range(b)
                 => j = l
      /\ InQueue' = InQueue \cup Range(b)
  BY Queued
<1>2. Range(b) \subseteq Fresh /\ Fresh \subseteq Commands
  BY BatchType DEF Fresh
<1>3. /\ UNCHANGED <<call, ran, withdrawn, crossed>> /\ given' = given \cup Range(b)
      /\ call \in [Calls -> Call] /\ arrays \in Seq(Seq(Commands))
      /\ queues' = queues \/ (queues = 0 /\ queues' = Len(arrays) + 1)
  BY DEF Queue, TypeInv, TypeOK
<1>4. \A i \in DOMAIN arrays : \A j \in DOMAIN arrays[i] : arrays[i][j] \notin Range(b)
  BY <1>2 DEF Fresh, Range
<1>5. Distinct'
  <2> SUFFICES ASSUME NEW i \in DOMAIN arrays', NEW k \in DOMAIN arrays',
                      NEW j \in DOMAIN arrays'[i], NEW l \in DOMAIN arrays'[k],
                      arrays'[i][j] = arrays'[k][l]
               PROVE  i = k /\ j = l
    BY DEF Distinct
  <2>1. CASE arrays'[i][j] \in Range(b)
    BY <1>1, <1>4, <2>1
  <2>2. CASE arrays'[i][j] \notin Range(b)
    <3>1. i \in DOMAIN arrays /\ j \in DOMAIN arrays[i] /\ k \in DOMAIN arrays
          /\ l \in DOMAIN arrays[k]
      BY <1>1, <2>2
    <3> QED
      BY <1>1, <3>1 DEF OnceInv, Distinct
  <2> QED
    BY <2>1, <2>2
<1>6. Fresh' \subseteq Fresh
  <2> SUFFICES ASSUME NEW c \in Commands, NEW i \in DOMAIN arrays, c \in Range(arrays[i])
               PROVE  c \in Range(arrays'[i]) /\ i \in DOMAIN arrays'
    BY DEF Fresh
  <2> QED
    BY <1>1 DEF Range
<1>7. \A c \in Fresh' : ran'[c] = 0
  BY <1>3, <1>6 DEF OnceInv
<1>8. ASSUME ~crossed' PROVE OneWalk'
  <2>1. OneWalk
    BY <1>3, <1>8 DEF OnceInv
  <2>2. \A c \in Calls : Running(c)' = Running(c)
    BY <1>3 DEF Running
  <2>3. \A c \in Calls : Running(c) => call[c].list \in DOMAIN arrays
    BY DEF TypeInv, Arrays
  <2>4. \A c \in Calls : call[c].state = "queue" => Running(c) /\ call[c].list = queues'
    <3>1. 0 \notin DOMAIN arrays
      BY <1>3
    <3> QED
      BY <1>3, <2>1, <2>3, <3>1 DEF OneWalk, Running
  <2>5. \A c \in Calls : call[c].state = "recipe" => call[c].list # queues'
    <3>1. Len(arrays) + 1 \notin DOMAIN arrays
      BY <1>3
    <3> QED
      BY <1>3, <2>1, <2>3, <3>1 DEF OneWalk, Running
  <2>6. ASSUME NEW a \in Calls, Running(a), NEW j \in DOMAIN List(a)'
        PROVE  ran'[List(a)'[j]] = (IF j <= call'[a].at THEN 1 ELSE 0)
    <3> DEFINE i == call[a].list
    <3>1. i \in DOMAIN arrays /\ List(a) = arrays[i] /\ List(a)' = arrays'[i]
          /\ call[a].at \in 1 .. Len(arrays[i]) /\ arrays[i] \in Seq(Commands)
          /\ arrays'[i] \in Seq(Commands)
      BY <1>1, <1>3, <2>3, <2>6 DEF List, TypeInv, TypeOK
    <3>2. CASE j \in DOMAIN arrays[i]
      BY <1>1, <1>3, <2>1, <2>6, <3>1, <3>2 DEF OneWalk
    <3>3. CASE j \notin DOMAIN arrays[i]
      <4>1. arrays'[i][j] \in Range(b)
        BY <1>1, <2>6, <3>1, <3>3
      <4>2. ran'[arrays'[i][j]] = 0
        BY <1>2, <1>3, <4>1 DEF OnceInv
      <4>3. ~(j <= call[a].at)
        <5>1. j \in Nat \ {0} /\ DOMAIN arrays[i] = 1 .. Len(arrays[i]) /\ Len(arrays[i]) \in Nat
          BY <2>6, <3>1
        <5> QED
          BY <3>1, <3>3, <5>1
      <4> QED
        BY <1>3, <3>1, <4>2, <4>3
    <3> QED
      BY <3>2, <3>3
  <2>7. (\A a \in Calls : call'[a].state # "queue") => \A c \in InQueue' : ran'[c] = 0
    BY <1>1, <1>2, <1>3, <2>1 DEF OneWalk, OnceInv
  <2>8. given' \subseteq InQueue' \cup withdrawn' \cup {c \in Commands : ran'[c] > 0}
    BY <1>1, <1>3, <2>1 DEF OneWalk
  <2> QED
    BY <1>3, <2>1, <2>2, <2>4, <2>5, <2>6, <2>7, <2>8 DEF OneWalk
<1> QED
  BY <1>5, <1>7, <1>8 DEF OnceInv

LEMMA OnceDiscard == TypeInv /\ OnceInv /\ Discard => OnceInv'
<1> SUFFICES ASSUME TypeInv, OnceInv, Discard PROVE OnceInv'
  OBVIOUS
<1>1. /\ UNCHANGED <<arrays, call, ran, given>> /\ queues' = 0 /\ InQueue' = {}
      /\ withdrawn' = withdrawn \cup InQueue
  BY DEF Discard, InQueue
<1>2. Fresh' = Fresh /\ \A a \in Calls : Running(a)' = Running(a) /\ List(a)' = List(a)
  BY <1>1 DEF Fresh, Running, List
<1>3. Distinct' /\ \A c \in Fresh' : ran'[c] = 0
  BY <1>1, <1>2 DEF Distinct, OnceInv
<1>4. ASSUME ~crossed' PROVE OneWalk'
  <2>1. ~crossed /\ \A a \in Calls : call[a].state # "queue"
    BY <1>4 DEF Discard
  <2>2. \A a \in Calls : call[a].state = "recipe" => call[a].list # 0
    BY DEF TypeInv, TypeOK, Arrays, Running
  <2> QED
    BY <1>1, <1>2, <2>1, <2>2 DEF OnceInv, OneWalk
<1> QED
  BY <1>3, <1>4 DEF OnceInv

LEMMA OnceCrash == TypeInv /\ OnceInv /\ Crash => OnceInv'
<1> SUFFICES ASSUME TypeInv, OnceInv, Crash PROVE OnceInv'
  OBVIOUS
<1>1. /\ UNCHANGED <<arrays, ran, given, crossed>> /\ queues' = 0 /\ InQueue' = {}
      /\ withdrawn' = withdrawn \cup given
  BY DEF Crash, InQueue
<1>2. \A a \in Calls : ~Running(a)' /\ call'[a].state \notin {"queue", "recipe"}
  BY DEF Crash, TypeInv, TypeOK, Call, Running
<1>3. Fresh' = Fresh
  BY <1>1 DEF Fresh
<1> QED
  BY <1>1, <1>2, <1>3 DEF OnceInv, OneWalk, Distinct

LEMMA OnceFile ==
    ASSUME TypeInv, OnceInv,
           UNCHANGED <<arrays, queues, call, ran, given, withdrawn, crossed>>
    PROVE  OnceInv'
<1>1. /\ Fresh' = Fresh /\ InQueue' = InQueue
      /\ \A a \in Calls : Running(a)' = Running(a) /\ List(a)' = List(a)
  BY DEF Fresh, InQueue, Running, List
<1> QED
  BY <1>1 DEF OnceInv, OneWalk, Distinct

\* A command that starts at position k of array i changes the count of no other.
LEMMA Counted ==
    ASSUME TypeInv, Distinct', arrays' \in Seq(Seq(Commands)), NEW i \in DOMAIN arrays',
           NEW k \in DOMAIN arrays'[i], ran' = [ran EXCEPT ![arrays'[i][k]] = @ + 1]
    PROVE  /\ arrays'[i][k] \in Commands /\ ran'[arrays'[i][k]] = ran[arrays'[i][k]] + 1
           /\ \A c \in Commands : c # arrays'[i][k] => ran'[c] = ran[c]
           /\ \A h \in DOMAIN arrays' : \A j \in DOMAIN arrays'[h] :
                  h # i \/ j # k => ran'[arrays'[h][j]] = ran[arrays'[h][j]]
<1>1. ran \in [Commands -> Nat]
  BY DEF TypeInv, TypeOK
<1>2. \A h \in DOMAIN arrays' : \A j \in DOMAIN arrays'[h] : arrays'[h][j] \in Commands
  <2> SUFFICES ASSUME NEW h \in DOMAIN arrays', NEW j \in DOMAIN arrays'[h]
               PROVE  arrays'[h][j] \in Commands
    OBVIOUS
  <2>1. arrays'[h] \in Seq(Commands)
    OBVIOUS
  <2> QED
    BY <2>1
<1>3. \A h \in DOMAIN arrays' : \A j \in DOMAIN arrays'[h] :
          h # i \/ j # k => arrays'[h][j] # arrays'[i][k]
  BY DEF Distinct
<1> QED
  BY <1>1, <1>2, <1>3

LEMMA OnceApply ==
    ASSUME TypeInv, OnceInv, NEW a \in Calls, Apply(a)
    PROVE  OnceInv'
<1>1. /\ call[a].state = "new" /\ queues # 0 /\ call \in [Calls -> Call]
      /\ call' = [call EXCEPT ![a] = [state |-> "queue", list |-> queues, at |-> 1,
                                      before |-> Len(snapshots) + 1]]
      /\ ran' = [ran EXCEPT ![arrays[queues][1]] = @ + 1]
      /\ UNCHANGED <<arrays, queues, given, withdrawn>>
      /\ arrays \in Seq(Seq(Commands)) /\ queues \in DOMAIN arrays /\ arrays[queues] # <<>>
      /\ ran \in [Commands -> Nat]
  BY DEF Apply, Started, queueVars, TypeInv, TypeOK, Arrays
<1>2. 1 \in DOMAIN arrays[queues] /\ DOMAIN arrays[queues] \subseteq Nat \ {0}
  <2>1. arrays[queues] \in Seq(Commands)
    BY <1>1
  <2> QED
    BY <1>1, <2>1
<1>3. Distinct' /\ Fresh' = Fresh /\ InQueue' = InQueue /\ InQueue = Range(arrays[queues])
  BY <1>1 DEF OnceInv, Distinct, Fresh, InQueue
<1>4. /\ arrays[queues][1] \in Commands
      /\ ran'[arrays[queues][1]] = ran[arrays[queues][1]] + 1
      /\ \A c \in Commands : c # arrays[queues][1] => ran'[c] = ran[c]
      /\ \A h \in DOMAIN arrays : \A j \in DOMAIN arrays[h] :
             h # queues \/ j # 1 => ran'[arrays[h][j]] = ran[arrays[h][j]]
  <2>1. /\ arrays' \in Seq(Seq(Commands)) /\ queues \in DOMAIN arrays'
        /\ 1 \in DOMAIN arrays'[queues] /\ ran' = [ran EXCEPT ![arrays'[queues][1]] = @ + 1]
    BY <1>1, <1>2
  <2>2. /\ arrays'[queues][1] \in Commands
        /\ ran'[arrays'[queues][1]] = ran[arrays'[queues][1]] + 1
        /\ \A c \in Commands : c # arrays'[queues][1] => ran'[c] = ran[c]
        /\ \A h \in DOMAIN arrays' : \A j \in DOMAIN arrays'[h] :
               h # queues \/ j # 1 => ran'[arrays'[h][j]] = ran[arrays'[h][j]]
    BY <1>3, <2>1, Counted
  <2> QED
    BY <1>1, <2>2
<1>5. \A c \in Fresh' : ran'[c] = 0
  <2>1. arrays[queues][1] \notin Fresh
    BY <1>1, <1>2 DEF Fresh, Range
  <2> QED
    BY <1>3, <1>4, <2>1 DEF OnceInv, Fresh
<1>6. ASSUME ~crossed' PROVE OneWalk'
  <2>1. ~crossed /\ OneWalk /\ \A b \in Calls : call[b].state # "queue"
    BY <1>6 DEF Apply, OnceInv
  <2>2. \A c \in Range(arrays[queues]) : ran[c] = 0
    BY <1>3, <2>1 DEF OneWalk
  <2>3. \A j \in DOMAIN arrays[queues] : ran[arrays[queues][j]] = 0
    BY <2>2 DEF Range
  <2>4. /\ call'[a].state = "queue" /\ call'[a].list = queues /\ call'[a].at = 1
        /\ \A c \in Calls \ {a} : call'[c] = call[c]
    BY <1>1
  <2>5. \A c \in Commands : ran'[c] <= 1
    BY <1>1, <1>2, <1>4, <2>1, <2>3 DEF OneWalk
  <2>6. \A c \in Calls \ {a} : Running(c)' => Running(c) /\ call[c].list # queues
    BY <2>1, <2>4 DEF OneWalk, Running
  <2>7. \A c, b \in Calls : Running(c)' /\ Running(b)' /\ call'[c].list = call'[b].list => c = b
    BY <2>1, <2>4, <2>6 DEF OneWalk
  <2>8. ASSUME NEW c \in Calls, Running(c)', NEW j \in DOMAIN List(c)'
        PROVE  ran'[List(c)'[j]] = (IF j <= call'[c].at THEN 1 ELSE 0)
    <3>1. CASE c = a
      <4>1. List(c)' = arrays[queues] /\ call'[c].at = 1
        BY <1>1, <2>4, <3>1 DEF List
      <4>2. j \in DOMAIN arrays[queues] /\ j \in Nat \ {0}
        BY <1>2, <2>8, <4>1
      <4>3. CASE j = 1
        BY <1>4, <2>3, <4>1, <4>2, <4>3
      <4>4. CASE j # 1
        <5>1. ran'[arrays[queues][j]] = 0
          BY <1>1, <1>4, <2>3, <4>2, <4>4
        <5> QED
          BY <4>1, <4>2, <4>4, <5>1
      <4> QED
        BY <4>3, <4>4
    <3>2. CASE c # a
      <4>1. Running(c) /\ call[c].list # queues /\ call'[c] = call[c] /\ List(c)' = List(c)
            /\ call[c].list \in DOMAIN arrays
        BY <1>1, <2>4, <2>6, <2>8, <3>2 DEF List, TypeInv, Arrays
      <4> QED
        BY <1>4, <2>1, <2>8, <4>1 DEF OneWalk, List
    <3> QED
      BY <3>1, <3>2
  <2>9. given' \subseteq InQueue' \cup withdrawn' \cup {c \in Commands : ran'[c] > 0}
    <3>1. \A c \in Commands : ran[c] > 0 => ran'[c] > 0
      BY <1>1, <1>4
    <3> QED
      BY <1>1, <1>3, <2>1, <3>1 DEF OneWalk
  <2>10. \A c \in Calls : call'[c].state = "queue" => call'[c].list = queues'
    BY <1>1, <2>1, <2>4
  <2>11. \A c \in Calls : call'[c].state = "recipe" => call'[c].list # queues'
    BY <1>1, <2>1, <2>4 DEF OneWalk
  <2>12. ~(\A c \in Calls : call'[c].state # "queue")
    BY <2>4
  <2> QED
    BY <2>5, <2>7, <2>8, <2>9, <2>10, <2>11, <2>12 DEF OneWalk
<1> QED
  BY <1>3, <1>5, <1>6 DEF OnceInv

LEMMA OnceRecipe ==
    ASSUME TypeInv, OnceInv, NEW a \in Calls, NEW b \in Batches(Fresh), Recipe(a, b)
    PROVE  OnceInv'
<1> DEFINE n == Len(arrays) + 1
<1>0. /\ b \in Seq(Commands) /\ b # <<>> /\ Range(b) \subseteq Fresh /\ Fresh \subseteq Commands
      /\ \A j, l \in DOMAIN b : b[j] = b[l] => j = l
  BY BatchType DEF Fresh
<1>1. /\ arrays \in Seq(Seq(Commands)) /\ arrays' \in Seq(Seq(Commands))
      /\ DOMAIN arrays' = DOMAIN arrays \cup {n} /\ n \notin DOMAIN arrays /\ arrays'[n] = b
      /\ \A k \in DOMAIN arrays : arrays'[k] = arrays[k]
      /\ n # queues /\ n # 0
  BY <1>0 DEF Recipe, TypeInv, TypeOK
<1>2. /\ call[a].state = "new" /\ call \in [Calls -> Call]
      /\ call' = [call EXCEPT ![a] = [state |-> "recipe", list |-> n, at |-> 1,
                                      before |-> Len(snapshots) + 1]]
      /\ ran' = [ran EXCEPT ![b[1]] = @ + 1]
      /\ UNCHANGED <<queues, given, withdrawn, crossed>>
      /\ ran \in [Commands -> Nat]
  BY DEF Recipe, Started, TypeInv, TypeOK
<1> HIDE DEF n
<1>3. 1 \in DOMAIN b /\ DOMAIN b \subseteq Nat \ {0}
  BY <1>0
<1>4. \A i \in DOMAIN arrays : \A j \in DOMAIN arrays[i] : arrays[i][j] \notin Range(b)
  BY <1>0 DEF Fresh, Range
<1>5. \A j \in DOMAIN b : b[j] \in Range(b)
  BY DEF Range
<1>6. Distinct'
  BY <1>0, <1>1, <1>4, <1>5 DEF OnceInv, Distinct
<1>7. Fresh' = Fresh \ Range(b)
  <2>1. Fresh' = {c \in Commands : \A i \in DOMAIN arrays' : c \notin Range(arrays'[i])}
    BY DEF Fresh
  <2> QED
    BY <1>1, <2>1 DEF Fresh
<1>8. /\ b[1] \in Commands
      /\ ran'[b[1]] = ran[b[1]] + 1
      /\ \A c \in Commands : c # b[1] => ran'[c] = ran[c]
      /\ \A h \in DOMAIN arrays' : \A j \in DOMAIN arrays'[h] :
             h # n \/ j # 1 => ran'[arrays'[h][j]] = ran[arrays'[h][j]]
  <2>1. /\ arrays' \in Seq(Seq(Commands)) /\ n \in DOMAIN arrays'
        /\ 1 \in DOMAIN arrays'[n] /\ ran' = [ran EXCEPT ![arrays'[n][1]] = @ + 1]
    BY <1>1, <1>2, <1>3
  <2>2. /\ arrays'[n][1] \in Commands
        /\ ran'[arrays'[n][1]] = ran[arrays'[n][1]] + 1
        /\ \A c \in Commands : c # arrays'[n][1] => ran'[c] = ran[c]
        /\ \A h \in DOMAIN arrays' : \A j \in DOMAIN arrays'[h] :
               h # n \/ j # 1 => ran'[arrays'[h][j]] = ran[arrays'[h][j]]
    BY <1>6, <2>1, Counted
  <2> QED
    BY <1>1, <2>2
<1>9. \A c \in Fresh' : ran'[c] = 0
  BY <1>0, <1>3, <1>5, <1>7, <1>8 DEF OnceInv
<1>10. \A j \in DOMAIN b : ran[b[j]] = 0
  BY <1>0, <1>5 DEF OnceInv
<1>11. InQueue' = InQueue /\ \A c \in InQueue : c \in Commands /\ c # b[1]
  <2>1. queues = 0 \/ queues \in DOMAIN arrays
    BY DEF TypeInv, TypeOK
  <2>2. InQueue' = InQueue
    BY <1>1, <1>2, <2>1 DEF InQueue
  <2>3. \A c \in InQueue : c \in given /\ given \subseteq Commands
    BY DEF TypeInv, TypeOK
  <2>4. b[1] \notin InQueue
    BY <1>0, <1>3, <1>5, <2>1 DEF InQueue, Fresh
  <2> QED
    BY <2>2, <2>3, <2>4
<1>12. ASSUME ~crossed' PROVE OneWalk'
  <2>1. ~crossed /\ OneWalk
    BY <1>2, <1>12 DEF OnceInv
  <2>2. /\ call'[a].state = "recipe" /\ call'[a].list = n /\ call'[a].at = 1
        /\ \A c \in Calls \ {a} : call'[c] = call[c]
    BY <1>2
  <2>3. \A c \in Commands : ran'[c] <= 1
    BY <1>2, <1>3, <1>8, <1>10, <2>1 DEF OneWalk
  <2>4. \A c \in Calls \ {a} : Running(c)' => Running(c) /\ call[c].list # n
                                             /\ call[c].list \in DOMAIN arrays
    BY <1>1, <2>2 DEF Running, TypeInv, Arrays
  <2>5. \A c, d \in Calls : Running(c)' /\ Running(d)' /\ call'[c].list = call'[d].list => c = d
    BY <2>1, <2>2, <2>4 DEF OneWalk
  <2>6. ASSUME NEW c \in Calls, Running(c)', NEW j \in DOMAIN List(c)'
        PROVE  ran'[List(c)'[j]] = (IF j <= call'[c].at THEN 1 ELSE 0)
    <3>1. CASE c = a
      <4>1. List(c)' = b /\ call'[c].at = 1
        BY <1>1, <2>2, <3>1 DEF List
      <4>2. j \in DOMAIN b /\ j \in Nat \ {0}
        BY <1>3, <2>6, <4>1
      <4>3. CASE j = 1
        BY <1>8, <1>10, <4>1, <4>2, <4>3
      <4>4. CASE j # 1
        <5>1. ran'[b[j]] = 0
          BY <1>1, <1>8, <1>10, <4>2, <4>4
        <5> QED
          BY <4>1, <4>2, <4>4, <5>1
      <4> QED
        BY <4>3, <4>4
    <3>2. CASE c # a
      <4>1. Running(c) /\ call[c].list # n /\ call'[c] = call[c] /\ List(c)' = List(c)
            /\ call[c].list \in DOMAIN arrays
        BY <1>1, <2>2, <2>4, <2>6, <3>2 DEF List
      <4>2. ran'[arrays[call[c].list][j]] = ran[arrays[call[c].list][j]]
        BY <1>1, <1>8, <2>6, <4>1 DEF List
      <4> QED
        BY <2>1, <2>6, <4>1, <4>2 DEF OneWalk, List
    <3> QED
      BY <3>1, <3>2
  <2>7. given' \subseteq InQueue' \cup withdrawn' \cup {c \in Commands : ran'[c] > 0}
    <3>1. \A c \in Commands : ran[c] > 0 => ran'[c] > 0
      BY <1>2, <1>8
    <3> QED
      BY <1>2, <1>11, <2>1, <3>1 DEF OneWalk
  <2>8. \A c \in Calls : call'[c].state = "queue" => call'[c].list = queues'
    BY <1>2, <2>1, <2>2 DEF OneWalk
  <2>9. \A c \in Calls : call'[c].state = "recipe" => call'[c].list # queues'
    BY <1>1, <1>2, <2>1, <2>2 DEF OneWalk
  <2>10. (\A c \in Calls : call'[c].state # "queue") => \A c \in InQueue' : ran'[c] = 0
    BY <1>2, <1>8, <1>11, <2>1, <2>2 DEF OneWalk
  <2> QED
    BY <2>3, <2>5, <2>6, <2>7, <2>8, <2>9, <2>10 DEF OneWalk
<1> QED
  BY <1>6, <1>9, <1>12 DEF OnceInv

\* A call ends: the map loses the queue it walked over, if any, and what it left
\* of it is withdrawn.
LEMMA OnceEnded ==
    ASSUME TypeInv, OnceInv, NEW a \in Calls, Running(a),
           NEW s \in {"succeeded", "failed", "stranded"}, NEW left,
           Ended(a, s, left), UNCHANGED <<ran, crossed>>,
           \A j \in DOMAIN List(a) : j > call[a].at => List(a)[j] \in left
    PROVE  OnceInv'
<1>1. /\ UNCHANGED <<arrays, given>> /\ call \in [Calls -> Call]
      /\ arrays \in Seq(Seq(Commands)) /\ ran \in [Commands -> Nat]
      /\ call' = [call EXCEPT ![a].state = s]
      /\ call[a].list \in DOMAIN arrays
  BY DEF Ended, TypeInv, TypeOK, Arrays
<1>2. /\ \A c \in Calls : call'[c].list = call[c].list /\ call'[c].at = call[c].at
      /\ call'[a].state = s /\ \A c \in Calls \ {a} : call'[c] = call[c]
  BY <1>1 DEF Call
<1>3. Fresh' = Fresh /\ Distinct' /\ \A c \in Fresh' : ran'[c] = 0
  BY <1>1 DEF OnceInv, Fresh, Distinct
<1>4. \A c \in Calls : Running(c)' => Running(c) /\ c # a /\ List(c)' = List(c)
  BY <1>1, <1>2 DEF Running, List
<1>5. ASSUME ~crossed' PROVE OneWalk'
  <2>1. ~crossed /\ OneWalk
    BY <1>5 DEF OnceInv
  <2>2. \A c \in Calls : call'[c].state = "queue" => call[c].state = "queue" /\ c # a
                                                     /\ call'[c].list = call[c].list
    BY <1>2
  <2>3. \A c \in Calls : call'[c].state = "recipe" => call[c].state = "recipe"
                                  /\ call'[c].list = call[c].list /\ call[c].list # 0
    BY <1>1, <1>2 DEF TypeInv, Arrays, Running
  <2>4. CASE call[a].state = "queue"
    <3>1. call[a].list = queues /\ queues' = 0 /\ InQueue' = {}
          /\ withdrawn' = withdrawn \cup left
      BY <2>1, <2>4 DEF OneWalk, Ended, InQueue
    <3>2. \A c \in Calls : call[c].state = "queue" => c = a
      BY <2>1, <2>4 DEF OneWalk, Running
    <3>3. \A c \in InQueue : c \in left \/ (c \in Commands /\ ran[c] > 0)
      <4>1. InQueue = Range(List(a)) /\ List(a) \in Seq(Commands)
        BY <1>1, <3>1 DEF InQueue, List, TypeInv, TypeOK
      <4> SUFFICES ASSUME NEW j \in DOMAIN List(a), ~(j > call[a].at)
                   PROVE  List(a)[j] \in Commands /\ ran[List(a)[j]] > 0
        BY <4>1 DEF Range
      <4>2. j <= call[a].at
        <5>1. j \in Nat /\ call[a].at \in Nat
          BY <1>1, <4>1 DEF Call
        <5> QED
          BY <5>1
      <4>3. ran[List(a)[j]] = 1
        BY <2>1, <4>2 DEF OneWalk
      <4> QED
        BY <4>1, <4>3
    <3>4. given' \subseteq InQueue' \cup withdrawn' \cup {c \in Commands : ran'[c] > 0}
      BY <1>1, <2>1, <3>1, <3>3 DEF OneWalk
    <3> QED
      BY <1>2, <1>4, <2>1, <2>2, <2>3, <3>1, <3>2, <3>4 DEF OneWalk
  <2>5. CASE call[a].state # "queue"
    <3>1. UNCHANGED <<queues, withdrawn>> /\ InQueue' = InQueue
      BY <1>1, <2>5 DEF Ended, InQueue
    <3>2. (\A c \in Calls : call'[c].state # "queue") =>
              \A c \in Calls : call[c].state # "queue"
      BY <1>2, <2>5
    <3> QED
      BY <1>1, <1>2, <1>4, <2>1, <2>2, <2>3, <3>1, <3>2 DEF OneWalk
  <2> QED
    BY <2>4, <2>5
<1> QED
  BY <1>3, <1>5 DEF OnceInv

LEMMA OnceSucceed ==
    ASSUME TypeInv, OnceInv, NEW a \in Calls, Succeed(a)
    PROVE  OnceInv'
<1> DEFINE next == call[a].at + 1
           i == call[a].list
<1>1. /\ Running(a) /\ call \in [Calls -> Call] /\ arrays \in Seq(Seq(Commands))
      /\ i \in DOMAIN arrays /\ List(a) = arrays[i] /\ ran \in [Commands -> Nat]
      /\ call[a].at \in 1 .. Len(List(a)) /\ arrays[i] \in Seq(Commands) /\ crossed' = crossed
  BY DEF Succeed, TypeInv, TypeOK, Arrays, List
<1>2. /\ DOMAIN arrays[i] = 1 .. Len(arrays[i]) /\ Len(arrays[i]) \in Nat
      /\ call[a].at \in Nat \ {0} /\ next \in Nat \ {0, 1}
  <2>1. DOMAIN arrays[i] = 1 .. Len(arrays[i]) /\ Len(arrays[i]) \in Nat
    BY <1>1
  <2>2. call[a].at \in Nat \ {0}
    BY <1>1, <2>1
  <2> QED
    BY <2>1, <2>2
<1>3. CASE next <= Len(List(a))
  <2>1. /\ call' = [call EXCEPT ![a].at = next] /\ ran' = [ran EXCEPT ![arrays[i][next]] = @ + 1]
        /\ UNCHANGED <<arrays, queues, given, withdrawn>>
    BY <1>1, <1>3 DEF Succeed, queueVars
  <2>2. next \in DOMAIN arrays[i]
    BY <1>1, <1>2, <1>3
  <2> HIDE DEF next
  <2>3. /\ \A c \in Calls : call'[c].state = call[c].state /\ call'[c].list = call[c].list
        /\ call'[a].at = next /\ \A c \in Calls \ {a} : call'[c] = call[c]
    BY <1>1, <2>1 DEF Call
  <2>4. Distinct' /\ Fresh' = Fresh /\ InQueue' = InQueue
    BY <2>1 DEF OnceInv, Distinct, Fresh, InQueue
  <2>5. /\ arrays[i][next] \in Commands
        /\ ran'[arrays[i][next]] = ran[arrays[i][next]] + 1
        /\ \A c \in Commands : c # arrays[i][next] => ran'[c] = ran[c]
        /\ \A h \in DOMAIN arrays : \A j \in DOMAIN arrays[h] :
               h # i \/ j # next => ran'[arrays[h][j]] = ran[arrays[h][j]]
    <3> HIDE DEF i
    <3>1. /\ arrays' \in Seq(Seq(Commands)) /\ i \in DOMAIN arrays'
          /\ next \in DOMAIN arrays'[i] /\ ran' = [ran EXCEPT ![arrays'[i][next]] = @ + 1]
      BY <1>1, <2>1, <2>2
    <3>2. /\ arrays'[i][next] \in Commands
          /\ ran'[arrays'[i][next]] = ran[arrays'[i][next]] + 1
          /\ \A c \in Commands : c # arrays'[i][next] => ran'[c] = ran[c]
          /\ \A h \in DOMAIN arrays' : \A j \in DOMAIN arrays'[h] :
                 h # i \/ j # next => ran'[arrays'[h][j]] = ran[arrays'[h][j]]
      BY <2>4, <3>1, Counted
    <3> QED
      BY <2>1, <3>2
  <2>6. \A c \in Fresh' : ran'[c] = 0
    <3>1. arrays[i][next] \notin Fresh
      BY <1>1, <2>2 DEF Fresh, Range
    <3> QED
      BY <2>4, <2>5, <3>1 DEF OnceInv, Fresh
  <2>7. ASSUME ~crossed' PROVE OneWalk'
    <3>1. ~crossed /\ OneWalk
      BY <1>1, <2>7 DEF OnceInv
    <3>2. ran[arrays[i][next]] = 0
      <4>1. ~(next <= call[a].at)
        BY <1>2 DEF next
      <4> QED
        BY <1>1, <2>2, <3>1, <4>1 DEF OneWalk
    <3> HIDE DEF i
    <3>3. \A c \in Commands : ran'[c] <= 1
      <4>1. \A c \in Commands : ran[c] \in Nat /\ ran[c] <= 1
        BY <1>1, <3>1 DEF OneWalk
      <4>2. ran'[arrays[i][next]] = 1
        BY <2>5, <3>2
      <4> QED
        BY <2>5, <4>1, <4>2
    <3> USE DEF i
    <3>4. \A c \in Calls : Running(c)' = Running(c) /\ List(c)' = List(c)
      BY <2>1, <2>3 DEF Running, List
    <3>5. ASSUME NEW c \in Calls, Running(c)', NEW j \in DOMAIN List(c)'
          PROVE  ran'[List(c)'[j]] = (IF j <= call'[c].at THEN 1 ELSE 0)
      <4>1. CASE c = a
        <5>1. j \in 1 .. Len(arrays[i]) /\ List(c)' = arrays[i] /\ call'[c].at = next
          BY <1>1, <1>2, <2>3, <3>4, <3>5, <4>1
        <5>2. CASE j = next
          BY <1>2, <2>5, <3>2, <5>1, <5>2
        <5>3. CASE j # next
          <6>1. ran'[arrays[i][j]] = (IF j <= call[a].at THEN 1 ELSE 0)
            BY <1>1, <1>2, <2>5, <3>1, <5>1, <5>3 DEF OneWalk
          <6>2. j <= call[a].at <=> j <= next
            BY <1>2, <5>1, <5>3 DEF next
          <6> QED
            BY <5>1, <6>1, <6>2
        <5> QED
          BY <5>2, <5>3
      <4>2. CASE c # a
        <5>1. Running(c) /\ call[c].list # i /\ call'[c] = call[c] /\ List(c)' = arrays[call[c].list]
              /\ call[c].list \in DOMAIN arrays /\ List(c) = arrays[call[c].list]
          BY <1>1, <2>3, <3>1, <3>4, <3>5, <4>2 DEF List, TypeInv, Arrays, OneWalk
        <5>2. ran'[arrays[call[c].list][j]] = ran[arrays[call[c].list][j]]
          BY <2>5, <3>5, <5>1
        <5> QED
          BY <3>1, <3>5, <5>1, <5>2 DEF OneWalk
      <4> QED
        BY <4>1, <4>2
    <3>6. given' \subseteq InQueue' \cup withdrawn' \cup {c \in Commands : ran'[c] > 0}
      <4>1. \A c \in Commands : ran[c] > 0 => ran'[c] > 0
        <5> HIDE DEF i
        <5>1. \A c \in Commands : ran[c] \in Nat
          BY <1>1
        <5>2. ran'[arrays[i][next]] > 0
          BY <2>5, <5>1
        <5> QED
          BY <2>5, <5>1, <5>2
      <4> QED
        BY <2>1, <2>4, <3>1, <4>1 DEF OneWalk
    <3>7. (\A c \in Calls : call'[c].state # "queue") => \A c \in InQueue' : ran'[c] = 0
      <4> SUFFICES ASSUME \A c \in Calls : call[c].state # "queue", NEW c \in InQueue
                   PROVE  ran'[c] = 0
        BY <2>3, <2>4
      <4>1. call[a].state = "recipe" /\ i # queues
        BY <1>1, <3>1 DEF Running, OneWalk
      <4>2. queues \in DOMAIN arrays /\ InQueue = Range(arrays[queues])
        BY DEF InQueue, TypeInv, TypeOK
      <4>3. PICK j \in DOMAIN arrays[queues] : c = arrays[queues][j]
        BY <4>2 DEF Range
      <4> QED
        BY <2>5, <3>1, <4>1, <4>2, <4>3 DEF OneWalk
    <3> QED
      BY <2>1, <2>3, <3>1, <3>3, <3>4, <3>5, <3>6, <3>7 DEF OneWalk
  <2> QED
    BY <2>4, <2>6, <2>7 DEF OnceInv
<1>4. CASE ~(next <= Len(List(a)))
  <2>1. Ended(a, "succeeded", {}) /\ UNCHANGED <<ran, crossed>>
    BY <1>4 DEF Succeed
  <2>2. \A j \in DOMAIN List(a) : ~(j > call[a].at)
    BY <1>1, <1>2, <1>4
  <2> QED
    BY <1>1, <2>1, <2>2, OnceEnded
<1> QED
  BY <1>3, <1>4

LEMMA OnceFail ==
    ASSUME TypeInv, OnceInv, NEW a \in Calls, Fail(a)
    PROVE  OnceInv'
<1> DEFINE left == {List(a)[i] : i \in call[a].at + 1 .. Len(List(a))}
<1>1. Running(a) /\ UNCHANGED <<ran, crossed>>
  BY DEF Fail
<1>2. PICK s \in {"failed", "stranded"} : Ended(a, s, left)
  BY DEF Fail
<1>3. \A j \in DOMAIN List(a) : j > call[a].at => List(a)[j] \in left
  <2>1. List(a) \in Seq(Commands) /\ call[a].at \in Nat
    BY <1>1 DEF List, TypeInv, TypeOK, Arrays, Call
  <2>2. \A j \in DOMAIN List(a) : j > call[a].at => j \in call[a].at + 1 .. Len(List(a))
    BY <2>1
  <2> QED
    BY <2>2
<1> HIDE DEF left
<1> QED
  BY <1>1, <1>2, <1>3, OnceEnded

LEMMA OnceNext == TypeInv /\ OnceInv /\ [Next]_vars => OnceInv'
<1> SUFFICES ASSUME TypeInv, OnceInv, [Next]_vars PROVE OnceInv'
  OBVIOUS
<1>1. ASSUME NEW s \in DOMAIN snapshots, Rollback(s) PROVE OnceInv'
  BY <1>1, OnceFile DEF Rollback, queueVars
<1>2. ASSUME NEW e \in Edits, Edit(e) PROVE OnceInv'
  BY <1>2, OnceFile DEF Edit, queueVars
<1>3. CASE UNCHANGED vars
  BY <1>3, OnceFile DEF vars
<1> QED
  BY <1>1, <1>2, <1>3, OnceQueue, OnceRecipe, OnceDiscard, OnceCrash, OnceApply, OnceSucceed,
     OnceFail DEF Next

\* QueuedOnce: no queued command is lost out of everyone's sight, and none runs
\* twice, unless a discard or another apply met the apply of its queue.
THEOREM CommandsRunOnce == Spec => []QueuedOnce
<1>1. OnceInv => QueuedOnce
  BY DEF OnceInv, OneWalk, QueuedOnce
<1> QED
  BY <1>1, OnceInit, OnceNext, TypeInvariant, PTL DEF Spec
=============================================================================
