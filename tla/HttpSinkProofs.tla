--------------------------- MODULE HttpSinkProofs ---------------------------
(***************************************************************************)
(* Theorems about HttpSink, for any queue, batch, retries and bounds.      *)
(***************************************************************************)
EXTENDS HttpSink, SequenceTheorems, WellFoundedInduction, TLAPS

-----------------------------------------------------------------------------
(* Sequences of events *)

\* What flush takes and what it leaves make up the queue.
LEMMA TakeRest ==
    ASSUME NEW S, NEW q \in Seq(S)
    PROVE  /\ Take(q) \in Seq(S) /\ Rest(q) \in Seq(S)
           /\ Len(Take(q)) <= BatchSize
           /\ Take(q) \o Rest(q) = q
           /\ Len(Rest(q)) + Len(Take(q)) = Len(q)
<1> DEFINE n == IF Len(q) < BatchSize THEN Len(q) ELSE BatchSize
<1>1. n \in Nat /\ n <= Len(q) /\ n <= BatchSize
  BY SinkAssumption
<1>2. \A i \in 1..Len(q) : q[i] \in S
  OBVIOUS
<1> HIDE DEF n
<1>3. /\ Take(q) \in Seq(S) /\ Len(Take(q)) = n
      /\ \A i \in 1..n : Take(q)[i] = q[i]
  <2>1. Take(q) = SubSeq(q, 1, n)
    BY DEF Take, n
  <2> QED
    BY <1>1, <1>2, <2>1, SubSeqProperties
<1>4. /\ Rest(q) \in Seq(S) /\ Len(Rest(q)) = Len(q) - n
      /\ \A i \in 1..(Len(q) - n) : Rest(q)[i] = q[n + i]
  <2>1. Rest(q) = SubSeq(q, n + 1, Len(q))
    BY <1>3 DEF Rest
  <2>2. /\ Rest(q) \in Seq(S) /\ Len(Rest(q)) = Len(q) - n
        /\ \A i \in 1..(Len(q) - n) : Rest(q)[i] = q[n + 1 + i - 1]
    BY <1>1, <1>2, <2>1, SubSeqProperties
  <2> QED
    BY <1>1, <2>2
<1>5. Take(q) \o Rest(q) = q
  <2>1. Take(q) \o Rest(q) \in Seq(S) /\ Len(Take(q) \o Rest(q)) = Len(q)
    BY <1>1, <1>3, <1>4, ConcatProperties
  <2>2. ASSUME NEW i \in 1..Len(q)
        PROVE  (Take(q) \o Rest(q))[i] = q[i]
    <3>1. CASE i <= n
      BY <1>1, <1>3, <1>4, <3>1
    <3>2. CASE ~(i <= n)
      <4>1. i - n \in 1..(Len(q) - n)
        BY <1>1, <3>2
      <4>2. (Take(q) \o Rest(q))[i] = Rest(q)[i - n]
        BY <1>1, <1>3, <1>4, <3>2, ConcatProperties
      <4> QED
        BY <1>1, <1>4, <4>1, <4>2
    <3> QED
      BY <3>1, <3>2
  <2> QED
    BY <2>1, <2>2, SeqEqual
<1> QED
  BY <1>1, <1>3, <1>4, <1>5

LEMMA ElementsConcat ==
    ASSUME NEW S, NEW s \in Seq(S), NEW t \in Seq(S)
    PROVE  Elements(s \o t) = Elements(s) \cup Elements(t)
<1>1. s \o t \in Seq(S) /\ Len(s \o t) = Len(s) + Len(t)
  BY ConcatProperties
<1>2. ASSUME NEW x \in Elements(s \o t)
      PROVE  x \in Elements(s) \cup Elements(t)
  <2>1. PICK i \in 1..(Len(s) + Len(t)) : x = (s \o t)[i]
    BY <1>1 DEF Elements
  <2>2. CASE i <= Len(s)
    BY <2>1, <2>2 DEF Elements
  <2>3. CASE ~(i <= Len(s))
    <3>1. i - Len(s) \in 1..Len(t) /\ x = t[i - Len(s)]
      BY <2>1, <2>3
    <3> QED
      BY <3>1 DEF Elements
  <2> QED
    BY <2>2, <2>3
<1>3. ASSUME NEW x \in Elements(s)
      PROVE  x \in Elements(s \o t)
  <2>1. PICK i \in 1..Len(s) : x = s[i]
    BY DEF Elements
  <2>2. i \in 1..Len(s \o t) /\ (s \o t)[i] = x
    BY <1>1, <2>1
  <2> QED
    BY <1>1, <2>2 DEF Elements
<1>4. ASSUME NEW x \in Elements(t)
      PROVE  x \in Elements(s \o t)
  <2>1. PICK i \in 1..Len(t) : x = t[i]
    BY DEF Elements
  <2>2. i + Len(s) \in 1..Len(s \o t) /\ (s \o t)[i + Len(s)] = x
    BY <1>1, <2>1
  <2> QED
    BY <1>1, <2>2 DEF Elements
<1> QED
  BY <1>2, <1>3, <1>4

LEMMA PrefixProperties ==
    ASSUME NEW S, NEW s \in Seq(S), NEW n \in 0..Len(s)
    PROVE  /\ SubSeq(s, 1, n) \in Seq(S) /\ Len(SubSeq(s, 1, n)) = n
           /\ \A i \in 1..n : SubSeq(s, 1, n)[i] = s[i]
  BY SubSeqProperties

LEMMA ElementsType ==
    ASSUME NEW S, NEW s \in Seq(S)
    PROVE  Elements(s) \subseteq S
  BY DEF Elements

\* A longer list of offered events is one still.
LEMMA MoreOffered ==
    ASSUME TypeOK, offered' = offered + 1, offered' \in Nat
    PROVE  /\ Offered \subseteq Offered'
           /\ \A s \in Seq(Offered) : s \in Seq(Offered')
           /\ \A x \in Text : x \in Text'
           /\ writer \in [Slots -> Writer']
<1>1. Offered \subseteq Offered'
  BY DEF Offered, TypeOK
<1>2. \A s \in Seq(Offered) : s \in Seq(Offered')
  BY <1>1, SeqMonotonic
<1>3. \A x \in Text : x \in Text'
  BY <1>2 DEF Text
<1>4. \A x \in Writer : x \in Writer'
  BY <1>2 DEF Writer
<1> QED
  BY <1>1, <1>2, <1>3, <1>4 DEF TypeOK

LEMMA WholeBatch ==
    ASSUME NEW S, NEW s \in Seq(S)
    PROVE  SubSeq(s, 1, Len(s)) = s
<1>1. /\ SubSeq(s, 1, Len(s)) \in Seq(S) /\ Len(SubSeq(s, 1, Len(s))) = Len(s)
      /\ \A i \in 1..Len(s) : SubSeq(s, 1, Len(s))[i] = s[i]
  BY PrefixProperties
<1> QED
  BY <1>1, SeqEqual

-----------------------------------------------------------------------------
(* What the larger actions come to *)

LEMMA StartFlushEffect ==
    ASSUME NEW S, NEW q \in Seq(S), StartFlush(q)
    PROVE  /\ queue' \in Seq(S) /\ chunk' \in Seq(S) /\ attempt' = 0
           /\ chunk' \o queue' = q
           /\ Len(chunk') <= BatchSize
           /\ Len(queue') + Len(chunk') = Len(q)
  BY TakeRest DEF StartFlush

\* The end of a flush, and a retry, leave the line of events as it is or
\* remove the batch.
LEMMA FlushEnds ==
    ASSUME TypeOK
    PROVE  /\ FlushSucceeded => queue' = queue /\ chunk' = << >>
           /\ FlushFailed => queue' = chunk \o queue /\ chunk' = << >>
           /\ Retry => \/ queue' = queue /\ chunk' = chunk
                       \/ queue' = chunk \o queue /\ chunk' = << >>
<1>1. FlushFailed => queue' = chunk \o queue /\ chunk' = << >>
  BY DEF FlushFailed, Requeue
<1>2. ASSUME FlushSucceeded
      PROVE  queue' = queue /\ chunk' = << >>
  BY <1>2 DEF FlushSucceeded
<1>3. Retry => (queue' = queue /\ chunk' = chunk) \/ FlushFailed
  BY DEF Retry
<1> QED
  BY <1>1, <1>2, <1>3

LEMMA FlushEndsTypes ==
    ASSUME TypeOK, FlushSucceeded \/ FlushFailed \/ Retry
    PROVE  /\ phase' \in {"up", "closing", "awaiting", "saving", "stopping", "down"}
           /\ consecutiveFailures' \in 0..(CircuitBreakerThreshold - 1)
           /\ circuitOpen' \in BOOLEAN /\ timer' \in BOOLEAN
<1>1. CASE FlushSucceeded
  <2>1. phase' \in {"up", "closing", "awaiting", "saving", "stopping", "down"}
    BY <1>1 DEF FlushSucceeded, AfterFlush, TypeOK
  <2>2. consecutiveFailures' = 0 /\ circuitOpen' = FALSE /\ timer' = TRUE
    BY <1>1 DEF FlushSucceeded
  <2>3. consecutiveFailures' \in 0..(CircuitBreakerThreshold - 1)
    BY <2>2, SinkAssumption
  <2> QED
    BY <2>1, <2>2, <2>3
<1>2. ASSUME FlushFailed
      PROVE  /\ phase' \in {"up", "closing", "awaiting", "saving", "stopping", "down"}
             /\ consecutiveFailures' \in 0..(CircuitBreakerThreshold - 1)
             /\ circuitOpen' \in BOOLEAN /\ timer' \in BOOLEAN
  <2>1. phase' \in {"up", "closing", "awaiting", "saving", "stopping", "down"} /\ timer' = TRUE
    BY <1>2 DEF FlushFailed, AfterFlush, TypeOK
  <2>2. circuitOpen' \in BOOLEAN
    BY <1>2 DEF FlushFailed, TypeOK
  <2>3. consecutiveFailures' \in 0..(CircuitBreakerThreshold - 1)
    BY <1>2, SinkAssumption DEF FlushFailed, Trips, TypeOK
  <2> QED
    BY <2>1, <2>2, <2>3
<1>3. CASE Retry
  <2>1. CASE FlushFailed
    BY <1>2, <2>1
  <2>2. CASE ~FlushFailed
    BY <1>3, <2>2 DEF Retry, TypeOK
  <2> QED
    BY <2>1, <2>2
<1> QED
  BY <1>1, <1>2, <1>3

\* A post delivers a prefix of the batch; the batch stays, goes back to the
\* queue or, delivered whole, is done with; a request that was given up holds
\* the batch or the event that comes next.
LEMMA PostEffect ==
    ASSUME TypeOK, Post
    PROVE  \E n \in 0..Len(chunk) :
               /\ Ingest(SubSeq(chunk, 1, n))
               /\ \/ queue' = queue /\ chunk' = chunk
                  \/ queue' = chunk \o queue /\ chunk' = << >>
                  \/ queue' = queue /\ chunk' = << >> /\ n = Len(chunk)
               /\ \/ late' = late
                  \/ n = 0 /\ late' = late \cup {chunk}
                  \/ n < Len(chunk) /\ late' = late \cup {<<chunk[n + 1]>>}
<1> DEFINE Kept == \/ queue' = queue /\ chunk' = chunk
                   \/ queue' = chunk \o queue /\ chunk' = << >>
<1>0. chunk \in Seq(Offered) /\ Len(chunk) \in Nat
  BY DEF TypeOK
<1>1. CASE Ingest(chunk) /\ FlushSucceeded /\ late' = late
  <2>1. SubSeq(chunk, 1, Len(chunk)) = chunk
    BY <1>0, WholeBatch
  <2>2. Ingest(SubSeq(chunk, 1, Len(chunk)))
    BY <1>1, <2>1 DEF Ingest
  <2>3. Len(chunk) \in 0..Len(chunk)
    BY <1>0
  <2> QED
    BY <1>1, <2>2, <2>3, FlushEnds
<1>2. CASE (\E n \in 0..Len(chunk) : Ingest(SubSeq(chunk, 1, n))) /\ Retry /\ late' = late
  <2>1. Kept
    BY <1>2, FlushEnds
  <2> QED
    BY <1>2, <2>1
<1>3. CASE /\ \E n \in 0..(Len(chunk) - 1) :
                 /\ Ingest(SubSeq(chunk, 1, n))
                 /\ \/ n = 0 /\ late' = late \cup {chunk}
                    \/ late' = late \cup {<<chunk[n + 1]>>}
           /\ Retry
  <2>1. Kept
    BY <1>3, FlushEnds
  <2>2. PICK n \in 0..(Len(chunk) - 1) :
           /\ Ingest(SubSeq(chunk, 1, n))
           /\ \/ n = 0 /\ late' = late \cup {chunk}
              \/ late' = late \cup {<<chunk[n + 1]>>}
    BY <1>3
  <2>3. n \in 0..Len(chunk) /\ n < Len(chunk)
    BY <1>0
  <2> QED
    BY <2>1, <2>2, <2>3
<1>4. CASE (\E n \in 0..(Len(chunk) - 1) : Ingest(SubSeq(chunk, 1, n))) /\ FlushFailed /\ late' = late
  <2>1. Kept
    BY <1>4, FlushEnds
  <2>2. \E n \in 0..Len(chunk) : Ingest(SubSeq(chunk, 1, n))
    BY <1>0, <1>4
  <2> QED
    BY <1>4, <2>1, <2>2
<1> QED
  BY <1>1, <1>2, <1>3, <1>4 DEF Post

\* A log that took in a sequence of offered events, a batch cut anywhere.
LEMMA IngestTypes ==
    ASSUME TypeOK, NEW s \in Seq(Offered), Ingest(s)
    PROVE  log' \subseteq Offered /\ earlier' \in [Events -> SUBSET Events]
<1>1. Elements(s) \subseteq Offered
  BY ElementsType
<1>2. Offered \subseteq Events
  BY SinkAssumption DEF TypeOK, Offered, Events
<1>3. \A f : Before(s, f) \subseteq Elements(s)
  BY DEF Before, Elements
<1>4. \A f \in Events : log \cup Before(s, f) \in SUBSET Events /\ earlier[f] \in SUBSET Events
  BY <1>1, <1>2, <1>3 DEF TypeOK
<1> QED
  BY <1>1, <1>4 DEF Ingest, TypeOK

\* A chunk or one event of it.
LEMMA LateTypes ==
    ASSUME TypeOK, NEW n \in Nat,
           \/ late' = late
           \/ n = 0 /\ late' = late \cup {chunk}
           \/ n < Len(chunk) /\ late' = late \cup {<<chunk[n + 1]>>}
    PROVE  late' \subseteq Seq(Offered)
<1>1. n < Len(chunk) => <<chunk[n + 1]>> \in Seq(Offered)
  <2> SUFFICES ASSUME n < Len(chunk)
               PROVE  <<chunk[n + 1]>> \in Seq(Offered)
    OBVIOUS
  <2>1. chunk \in Seq(Offered) /\ n + 1 \in 1..Len(chunk)
    BY DEF TypeOK
  <2>2. chunk[n + 1] \in Offered
    BY <2>1
  <2> QED
    BY <2>2
<1>2. late \subseteq Seq(Offered) /\ chunk \in Seq(Offered)
  BY DEF TypeOK
<1> QED
  BY <1>1, <1>2

-----------------------------------------------------------------------------
(* Type correctness *)

LEMMA InitTypeOK == Init => TypeOK
<1> SUFFICES ASSUME Init
             PROVE  TypeOK
  OBVIOUS
<1>1. << >> \in Seq(Offered)
  OBVIOUS
<1>2. NoFile \in Text /\ NoCall \in Writer
  BY <1>1 DEF NoFile, Text, NoCall, Writer
<1>3. writer \in [Slots -> Writer]
  BY <1>2 DEF Init
<1>4. earlier \in [Events -> SUBSET Events]
  BY DEF Init
<1>5. /\ offered \in 0..MaxEvents /\ attempt \in 0..MaxRetries
      /\ consecutiveFailures \in 0..(CircuitBreakerThreshold - 1)
  BY SinkAssumption DEF Init
<1>6. /\ queue \in Seq(Offered) /\ chunk \in Seq(Offered) /\ loaded \in Seq(Offered)
      /\ file \in Text /\ tmp \in Text
  BY <1>1, <1>2 DEF Init
<1>7. /\ before \in Nat /\ hydrated \in Nat /\ crashes \in Nat /\ stops \in Nat /\ faults \in Nat
  BY DEF Init
<1>8. /\ accepted \subseteq Offered /\ late \subseteq Seq(Offered) /\ log \subseteq Offered
      /\ fresh \subseteq accepted /\ persistInFlight \in Slots \cup {None}
  BY DEF Init
<1>9. /\ phase \in {"up", "closing", "awaiting", "saving", "stopping", "down"}
      /\ hydrating \in {"reading", "read", "no"}
      /\ circuitOpen \in BOOLEAN /\ timer \in BOOLEAN /\ persistRequested \in BOOLEAN
      /\ settled \in BOOLEAN
  BY DEF Init
<1> QED
  BY <1>3, <1>4, <1>5, <1>6, <1>7, <1>8, <1>9 DEF TypeOK

LEMMA SameOffered ==
    ASSUME offered' = offered
    PROVE  Offered' = Offered /\ Text' = Text /\ Writer' = Writer
<1>1. Offered' = Offered
  BY DEF Offered
<1> QED
  BY <1>1 DEF Text, Writer

LEMMA EnqueueTypeOK == TypeOK /\ Enqueue => TypeOK'
<1> SUFFICES ASSUME TypeOK, Enqueue
             PROVE  TypeOK'
  OBVIOUS
<1>1. offered' = offered + 1 /\ offered' \in Nat /\ offered' \in 0..MaxEvents
  BY SinkAssumption DEF Enqueue, TypeOK
<1>2. /\ Offered \subseteq Offered'
      /\ \A s \in Seq(Offered) : s \in Seq(Offered')
      /\ \A x \in Text : x \in Text'
      /\ writer \in [Slots -> Writer']
  BY <1>1, MoreOffered
<1>3. offered' \in Offered'
  BY <1>1 DEF Offered, TypeOK
<1>4. queue' \in Seq(Offered') /\ chunk' \in Seq(Offered') /\ attempt' \in 0..MaxRetries
  <2>1. queue \in Seq(Offered') /\ chunk \in Seq(Offered')
    BY <1>2 DEF TypeOK
  <2>2. Append(queue, offered') \in Seq(Offered')
    BY <1>3, <2>1, AppendProperties
  <2>3. CASE UNCHANGED <<queue, chunk, attempt>>
    BY <2>1, <2>3 DEF TypeOK
  <2>4. CASE StartFlush(Append(queue, offered'))
    <3>1. queue' \in Seq(Offered') /\ chunk' \in Seq(Offered') /\ attempt' = 0
      BY <2>2, <2>4, TakeRest DEF StartFlush
    <3> QED
      BY <3>1, SinkAssumption
  <2>5. CASE queue' = Append(queue, offered') /\ UNCHANGED <<chunk, attempt>>
    BY <2>1, <2>2, <2>5 DEF TypeOK
  <2> QED
    BY <2>3, <2>4, <2>5 DEF Enqueue
<1>5. fresh' \subseteq accepted' /\ accepted' \subseteq Offered' /\ timer' \in BOOLEAN
  BY <1>2, <1>3 DEF Enqueue, TypeOK
<1>6. /\ late' \subseteq Seq(Offered') /\ log' \subseteq Offered'
      /\ loaded' \in Seq(Offered') /\ file' \in Text' /\ tmp' \in Text'
      /\ writer' \in [Slots -> Writer']
      /\ earlier' \in [Events -> SUBSET Events]
  BY <1>2 DEF Enqueue, TypeOK, hydrateVars, persistVars, diskVars, serverVars
<1>7. /\ phase' = phase /\ before' = before /\ consecutiveFailures' = consecutiveFailures
      /\ circuitOpen' = circuitOpen /\ UNCHANGED <<hydrateVars, persistVars, settled, boundVars>>
  BY DEF Enqueue
<1> QED
  BY <1>1, <1>4, <1>5, <1>6, <1>7 DEF TypeOK, hydrateVars, persistVars, boundVars

LEMMA PostTypeOK == TypeOK /\ Post => TypeOK'
<1> SUFFICES ASSUME TypeOK, Post
             PROVE  TypeOK'
  OBVIOUS
<1>1. UNCHANGED <<offered, accepted, before, hydrateVars, persistVars, diskVars, fresh, settled,
                  crashes, stops>>
  BY DEF Post
<1>2. Offered' = Offered /\ Text' = Text /\ Writer' = Writer
  BY <1>1, SameOffered
<1>3. PICK n \in 0..Len(chunk) :
         /\ Ingest(SubSeq(chunk, 1, n))
         /\ \/ queue' = queue /\ chunk' = chunk
            \/ queue' = chunk \o queue /\ chunk' = << >>
            \/ queue' = queue /\ chunk' = << >> /\ n = Len(chunk)
         /\ \/ late' = late
            \/ n = 0 /\ late' = late \cup {chunk}
            \/ n < Len(chunk) /\ late' = late \cup {<<chunk[n + 1]>>}
  BY PostEffect
<1>4. queue \in Seq(Offered) /\ chunk \in Seq(Offered) /\ chunk \o queue \in Seq(Offered)
  BY DEF TypeOK
<1>5. queue' \in Seq(Offered') /\ chunk' \in Seq(Offered')
  <2>1. << >> \in Seq(Offered)
    OBVIOUS
  <2>2. queue' \in {queue, chunk \o queue} /\ chunk' \in {chunk, << >>}
    BY <1>3
  <2> QED
    BY <1>2, <1>4, <2>1, <2>2
<1>6. log' \subseteq Offered' /\ earlier' \in [Events -> SUBSET Events]
  BY <1>2, <1>3, <1>4, PrefixProperties, IngestTypes
<1>7. late' \subseteq Seq(Offered')
  BY <1>2, <1>3, LateTypes
<1>8. FlushSucceeded \/ FlushFailed \/ Retry
  BY DEF Post
<1>9. attempt' \in 0..MaxRetries
  <2>1. ASSUME Retry
        PROVE  attempt' \in 0..MaxRetries
    BY <2>1, SinkAssumption DEF Retry, TypeOK
  <2> QED
    BY <2>1 DEF Post, TypeOK
<1>10. faults' \in Nat
  <2>1. ASSUME Fault
        PROVE  faults' \in Nat
    BY <2>1 DEF Fault, TypeOK
  <2> QED
    BY <2>1 DEF Post, TypeOK
<1>11. /\ phase' \in {"up", "closing", "awaiting", "saving", "stopping", "down"}
       /\ consecutiveFailures' \in 0..(CircuitBreakerThreshold - 1)
       /\ circuitOpen' \in BOOLEAN /\ timer' \in BOOLEAN
  BY <1>8, FlushEndsTypes
<1> QED
  BY <1>1, <1>2, <1>5, <1>6, <1>7, <1>9, <1>10, <1>11 DEF TypeOK, hydrateVars, persistVars, diskVars

\* A call of persistQueueToDisk and what its end starts.
LEMMA CallTypes ==
    ASSUME TypeOK, NEW w \in Slots, Call(w)
    PROVE  /\ writer' \in [Slots -> Writer] /\ persistInFlight' \in Slots \cup {None}
           /\ persistRequested' \in BOOLEAN /\ settled' \in BOOLEAN
<1>1. << >> \in Seq(Offered)
  OBVIOUS
<1>2. NewWrite \in Writer
  BY DEF NewWrite, Writer, TypeOK
<1>3. ASSUME persistInFlight # None
      PROVE  [NoCall EXCEPT !.pc = "waiting", !.on = persistInFlight] \in Writer
  BY <1>1, <1>3 DEF NoCall, Writer, TypeOK
<1>4. writer' \in [Slots -> Writer]
  BY <1>2, <1>3 DEF Call, TypeOK
<1> QED
  BY <1>4 DEF Call, TypeOK

LEMMA FinishTypes ==
    ASSUME TypeOK, NEW w \in Slots, NEW wr \in [Slots -> Writer], NEW ok \in BOOLEAN,
           Finish(w, wr, ok)
    PROVE  /\ writer' \in [Slots -> Writer] /\ persistInFlight' \in Slots \cup {None}
           /\ persistRequested' \in BOOLEAN /\ settled' \in BOOLEAN
<1>1. NewWrite \in Writer
  BY DEF NewWrite, Writer, TypeOK
<1>2. NoCall \in Writer
  BY DEF NoCall, Writer
<1>3. writer' \in [Slots -> Writer]
  BY <1>1, <1>2 DEF Finish
<1>4. persistInFlight' \in Slots \cup {None}
  BY DEF Finish
<1> QED
  BY <1>3, <1>4 DEF Finish

LEMMA PersistTypes ==
    ASSUME TypeOK, NEW w \in Slots, Open(w) \/ Fill(w) \/ Rename(w) \/ PersistError(w)
    PROVE  /\ writer' \in [Slots -> Writer] /\ persistInFlight' \in Slots \cup {None}
           /\ persistRequested' \in BOOLEAN /\ settled' \in BOOLEAN
           /\ file' \in Text /\ tmp' \in Text /\ faults' \in Nat
<1>1. NoFile \in Text /\ Truncated \in Text
  <2>1. << >> \in Seq(Offered)
    OBVIOUS
  <2> QED
    BY <2>1 DEF NoFile, Truncated, Text
<1>2. writer[w] \in Writer /\ writer \in [Slots -> Writer] /\ file \in Text /\ tmp \in Text
  BY DEF TypeOK
<1>3. CASE Open(w)
  <2>1. [writer[w] EXCEPT !.pc = "filling", !.fd = "tmp"] \in Writer
    BY <1>2 DEF Writer
  <2>2. writer' = [writer EXCEPT ![w] = [writer[w] EXCEPT !.pc = "filling", !.fd = "tmp"]]
    BY <1>2, <1>3 DEF Open
  <2>3. writer' \in [Slots -> Writer]
    BY <1>2, <2>1, <2>2
  <2> QED
    BY <1>1, <1>3, <2>3 DEF Open, TypeOK
<1>4. CASE Fill(w)
  <2>1. [writer[w] EXCEPT !.pc = "renaming", !.fd = None] \in Writer
    BY <1>2 DEF Writer
  <2>2. writer' = [writer EXCEPT ![w] = [writer[w] EXCEPT !.pc = "renaming", !.fd = None]]
    BY <1>2, <1>4 DEF Fill
  <2>3. writer' \in [Slots -> Writer]
    BY <1>2, <2>1, <2>2
  <2>4. \A t \in Text : Overwrite(t, writer[w].snapshot) \in Text
    BY <1>2 DEF Overwrite, Text, Writer
  <2> QED
    BY <1>2, <1>4, <2>3, <2>4 DEF Fill, TypeOK
<1>5. CASE Rename(w)
  <2> DEFINE moved == [x \in Slots |-> [writer[x] EXCEPT
                  !.fd = IF ~tmp.there THEN @
                         ELSE CASE @ = "tmp" -> "file" [] @ = "file" -> "gone" [] OTHER -> @]]
  <2>1. ASSUME NEW x \in Slots
        PROVE  moved[x] \in Writer
    BY DEF TypeOK, Writer
  <2>2. moved \in [Slots -> Writer]
    BY <2>1
  <2>3. tmp.there \in BOOLEAN
    BY <1>2 DEF Text
  <2>4. Finish(w, moved, tmp.there)
    BY <1>5 DEF Rename
  <2>5. file' \in Text /\ tmp' \in Text /\ faults' \in Nat
    BY <1>1, <1>2, <1>5 DEF Rename, TypeOK
  <2> HIDE DEF moved
  <2> QED
    BY <2>2, <2>3, <2>4, <2>5, FinishTypes
<1>6. CASE PersistError(w)
  <2>1. Finish(w, writer, FALSE)
    BY <1>6 DEF PersistError
  <2>2. file' \in Text /\ tmp' \in Text /\ faults' \in Nat
    BY <1>2, <1>6 DEF PersistError, Fault, diskVars, TypeOK
  <2> QED
    BY <1>2, <2>1, <2>2, FinishTypes
<1> QED
  BY <1>3, <1>4, <1>5, <1>6

\* The actions that touch the queue, other than those above.
LEMMA QueueTypeOK == TypeOK /\ (Flush \/ Hydrate \/ CloseFlush) => TypeOK'
<1>1. ASSUME TypeOK, Flush
      PROVE  TypeOK'
  <2>1. /\ offered' = offered /\ accepted' = accepted /\ phase' = phase /\ before' = before
        /\ consecutiveFailures' = consecutiveFailures /\ circuitOpen' = circuitOpen
        /\ timer' = timer /\ fresh' = fresh /\ settled' = settled
        /\ UNCHANGED <<hydrateVars, persistVars, diskVars, serverVars, boundVars>>
    BY <1>1 DEF Flush
  <2>2. queue' \in Seq(Offered) /\ chunk' \in Seq(Offered) /\ attempt' = 0
    BY <1>1, StartFlushEffect DEF Flush, TypeOK
  <2>3. attempt' \in 0..MaxRetries
    BY <2>2, SinkAssumption
  <2>4. Offered' = Offered /\ Text' = Text /\ Writer' = Writer
    BY <2>1, SameOffered
  <2> QED
    BY <1>1, <2>1, <2>2, <2>3, <2>4
    DEF TypeOK, hydrateVars, persistVars, diskVars, serverVars, boundVars
<1>2. ASSUME TypeOK, Hydrate
      PROVE  TypeOK'
  <2> DEFINE valid == IF file.whole THEN file.events ELSE << >>
             n == IF Len(valid) < MaxQueueSize THEN Len(valid) ELSE MaxQueueSize
  <2>1. /\ offered' = offered /\ accepted' = accepted /\ phase' = phase /\ before' = before
        /\ consecutiveFailures' = consecutiveFailures /\ circuitOpen' = circuitOpen
        /\ timer' = timer /\ fresh' = fresh /\ chunk' = chunk /\ attempt' = attempt
        /\ UNCHANGED <<persistVars, diskVars, serverVars, boundVars>>
    BY <1>2 DEF Hydrate
  <2>2. << >> \in Seq(Offered) /\ queue \in Seq(Offered) /\ loaded \in Seq(Offered)
    BY <1>2 DEF TypeOK
  <2>3. valid \in Seq(Offered)
    BY <1>2, <2>2 DEF TypeOK, Text
  <2>4. /\ loaded' \in Seq(Offered) /\ queue' \in Seq(Offered) /\ hydrated' \in Nat
        /\ hydrating' \in {"reading", "read", "no"} /\ settled' \in BOOLEAN
    <3> HIDE DEF valid, n
    <3>1. \/ hydrating = "reading" /\ hydrating' = "read"
          \/ hydrating = "read" /\ hydrating' = "no"
      BY <1>2 DEF Hydrate
    <3>2. ASSUME hydrating = "reading", hydrating' = "read"
          PROVE  /\ loaded' \in Seq(Offered) /\ queue' \in Seq(Offered) /\ hydrated' \in Nat
                 /\ hydrating' \in {"reading", "read", "no"} /\ settled' \in BOOLEAN
      <4>1. loaded' = SubSeq(valid, 1, n) /\ settled' = (settled /\ loaded' = valid)
            /\ UNCHANGED <<queue, hydrated>>
        BY <1>2, <3>2 DEF Hydrate, valid, n
      <4>2. n \in 0..Len(valid)
        <5>1. Len(valid) \in Nat
          BY <2>3
        <5> QED
          BY <5>1, SinkAssumption DEF n
      <4>3. loaded' \in Seq(Offered)
        BY <2>3, <4>1, <4>2, PrefixProperties
      <4>4. settled' \in BOOLEAN
        BY <4>1
      <4> QED
        BY <1>2, <3>2, <4>1, <4>3, <4>4 DEF TypeOK
    <3>3. ASSUME hydrating = "read", hydrating' = "no"
          PROVE  /\ loaded' \in Seq(Offered) /\ queue' \in Seq(Offered) /\ hydrated' \in Nat
                 /\ hydrating' \in {"reading", "read", "no"} /\ settled' \in BOOLEAN
      <4>1. queue' = queue \o loaded /\ hydrated' = Len(loaded) /\ loaded' = << >>
            /\ settled' = settled
        BY <1>2, <3>3 DEF Hydrate
      <4>2. hydrated' \in Nat /\ queue' \in Seq(Offered)
        BY <2>2, <4>1
      <4> QED
        BY <1>2, <2>2, <3>3, <4>1, <4>2 DEF TypeOK
    <3> QED
      BY <3>1, <3>2, <3>3
  <2>5. Offered' = Offered /\ Text' = Text /\ Writer' = Writer
    BY <2>1, SameOffered
  <2> QED
    BY <1>2, <2>1, <2>4, <2>5 DEF TypeOK, persistVars, diskVars, serverVars, boundVars
<1>3. ASSUME TypeOK, CloseFlush
      PROVE  TypeOK'
  <2>1. /\ offered' = offered /\ accepted' = accepted
        /\ consecutiveFailures' = consecutiveFailures /\ circuitOpen' = circuitOpen
        /\ timer' = timer /\ fresh' = fresh /\ settled' = settled
        /\ UNCHANGED <<hydrateVars, persistVars, diskVars, serverVars, boundVars>>
    BY <1>3 DEF CloseFlush
  <2>2. queue \in Seq(Offered)
    BY <1>3 DEF TypeOK
  <2>3. /\ phase' \in {"up", "closing", "awaiting", "saving", "stopping", "down"}
        /\ queue' \in Seq(Offered) /\ chunk' \in Seq(Offered) /\ attempt' \in 0..MaxRetries
        /\ before' \in Nat
    <3>1. CASE phase' = "awaiting" /\ before' = Len(queue) /\ StartFlush(queue)
      <4>1. queue' \in Seq(Offered) /\ chunk' \in Seq(Offered) /\ attempt' = 0
        BY <2>2, <3>1, StartFlushEffect
      <4>2. Len(queue) \in Nat /\ attempt' \in 0..MaxRetries
        BY <2>2, <4>1, SinkAssumption
      <4> QED
        BY <3>1, <4>1, <4>2
    <3>2. CASE phase' = "saving" /\ UNCHANGED <<before, queue, chunk, attempt>>
      BY <1>3, <3>2 DEF TypeOK
    <3> QED
      BY <1>3, <3>1, <3>2 DEF CloseFlush
  <2>4. Offered' = Offered /\ Text' = Text /\ Writer' = Writer
    BY <2>1, SameOffered
  <2> QED
    BY <1>3, <2>1, <2>3, <2>4 DEF TypeOK, hydrateVars, persistVars, diskVars, serverVars, boundVars
<1> QED
  BY <1>1, <1>2, <1>3

\* The actions on the spool, the server and the circuit.
LEMMA OtherTypeOK ==
    TypeOK /\ (LateArrival \/ Cooldown \/ PersistTimer \/ Persist \/ CloseSave) => TypeOK'
<1>1. ASSUME TypeOK, LateArrival
      PROVE  TypeOK'
  <2>1. PICK s \in late : Ingest(s) /\ late' = late \ {s}
    BY <1>1 DEF LateArrival
  <2>2. log' \subseteq Offered /\ earlier' \in [Events -> SUBSET Events] /\ late' \subseteq Seq(Offered)
    <3>1. s \in Seq(Offered) /\ late \subseteq Seq(Offered)
      BY <1>1 DEF TypeOK
    <3> QED
      BY <1>1, <2>1, <3>1, IngestTypes
  <2>3. /\ offered' = offered
        /\ UNCHANGED <<phase, accepted, flushVars, hydrateVars, timer, persistVars, diskVars,
                       fresh, settled, boundVars>>
    BY <1>1 DEF LateArrival
  <2>4. Offered' = Offered /\ Text' = Text /\ Writer' = Writer
    BY <2>3, SameOffered
  <2> QED
    BY <1>1, <2>2, <2>3, <2>4
    DEF TypeOK, flushVars, hydrateVars, persistVars, diskVars, boundVars
<1>2. ASSUME TypeOK, Cooldown
      PROVE  TypeOK'
  <2>1. offered' = offered
    BY <1>2 DEF Cooldown
  <2>2. Offered' = Offered /\ Text' = Text /\ Writer' = Writer
    BY <2>1, SameOffered
  <2> QED
    BY <1>2, <2>2
    DEF Cooldown, TypeOK, hydrateVars, persistVars, diskVars, serverVars, boundVars
<1>3. ASSUME TypeOK, PersistTimer \/ CloseSave
      PROVE  TypeOK'
  <2>1. \E w \in Slots : Call(w)
    BY <1>3 DEF PersistTimer, CloseSave, Slots
  <2>2. /\ writer' \in [Slots -> Writer] /\ persistInFlight' \in Slots \cup {None}
        /\ persistRequested' \in BOOLEAN /\ settled' \in BOOLEAN
    BY <1>3, <2>1, CallTypes
  <2>3. /\ offered' = offered /\ timer' = FALSE
        /\ phase' \in {"up", "closing", "awaiting", "saving", "stopping", "down"}
        /\ UNCHANGED <<accepted, flushVars, hydrateVars, diskVars, serverVars, fresh, boundVars>>
    BY <1>3 DEF PersistTimer, CloseSave, TypeOK
  <2>4. Offered' = Offered /\ Text' = Text /\ Writer' = Writer
    BY <2>3, SameOffered
  <2> QED
    BY <1>3, <2>2, <2>3, <2>4
    DEF TypeOK, flushVars, hydrateVars, diskVars, serverVars, boundVars
<1>4. ASSUME TypeOK, Persist
      PROVE  TypeOK'
  <2>1. \E w \in Slots : Open(w) \/ Fill(w) \/ Rename(w) \/ PersistError(w)
    BY <1>4 DEF Persist
  <2>2. /\ writer' \in [Slots -> Writer] /\ persistInFlight' \in Slots \cup {None}
        /\ persistRequested' \in BOOLEAN /\ settled' \in BOOLEAN
        /\ file' \in Text /\ tmp' \in Text /\ faults' \in Nat
    BY <1>4, <2>1, PersistTypes
  <2>3. /\ offered' = offered
        /\ UNCHANGED <<phase, accepted, flushVars, hydrateVars, timer, serverVars, fresh,
                       crashes, stops>>
    BY <1>4 DEF Persist
  <2>4. Offered' = Offered /\ Text' = Text /\ Writer' = Writer
    BY <2>3, SameOffered
  <2> QED
    BY <1>4, <2>2, <2>3, <2>4 DEF TypeOK, flushVars, hydrateVars, serverVars
<1> QED
  BY <1>1, <1>2, <1>3, <1>4

LEMMA LifeTypeOK == TypeOK /\ (CloseStart \/ Exit \/ Crash \/ Start) => TypeOK'
<1>1. ASSUME TypeOK, CloseStart \/ Start
      PROVE  TypeOK'
  <2>1. /\ offered' = offered /\ phase' \in {"closing", "up"} /\ stops' \in Nat
        /\ UNCHANGED <<accepted, flushVars, hydrateVars, timer, persistVars, diskVars,
                       serverVars, fresh, settled, crashes, faults>>
    BY <1>1 DEF CloseStart, Start, boundVars, TypeOK
  <2>2. Offered' = Offered /\ Text' = Text /\ Writer' = Writer
    BY <2>1, SameOffered
  <2> QED
    BY <1>1, <2>1, <2>2
    DEF TypeOK, flushVars, hydrateVars, persistVars, diskVars, serverVars
<1>2. ASSUME TypeOK, Exit \/ Crash
      PROVE  TypeOK'
  <2>1. Die /\ crashes' \in Nat /\ stops' \in Nat
    BY <1>2 DEF Exit, Crash, TypeOK
  <2>2. offered' = offered
    BY <2>1 DEF Die
  <2>3. Offered' = Offered /\ Text' = Text /\ Writer' = Writer
    BY <2>2, SameOffered
  <2>4. << >> \in Seq(Offered)
    OBVIOUS
  <2>5. NoCall \in Writer
    BY <2>4 DEF NoCall, Writer
  <2>6. late' \subseteq Seq(Offered)
    BY <1>2, <2>1 DEF Die, TypeOK
  <2>7. writer' \in [Slots -> Writer] /\ persistInFlight' \in Slots \cup {None}
    BY <2>1, <2>5 DEF Die
  <2>8. attempt' \in 0..MaxRetries /\ consecutiveFailures' \in 0..(CircuitBreakerThreshold - 1)
    BY <2>1, SinkAssumption DEF Die
  <2>9. /\ phase' = "down" /\ queue' = << >> /\ chunk' = << >> /\ before' = 0
        /\ circuitOpen' = FALSE /\ hydrating' = "reading" /\ loaded' = << >> /\ hydrated' = 0
        /\ timer' = FALSE /\ persistRequested' = FALSE /\ fresh' = {} /\ settled' = TRUE
        /\ UNCHANGED <<offered, accepted, diskVars, log, earlier, faults>>
    BY <2>1 DEF Die
  <2> QED
    BY <1>2, <2>1, <2>3, <2>4, <2>6, <2>7, <2>8, <2>9 DEF TypeOK, diskVars
<1> QED
  BY <1>1, <1>2

\* TypeOK is an invariant: whatever overlaps, fails or is read back from a
\* file, no event appears that was not offered, and every counter keeps its
\* range (HttpSinkAdapter).
THEOREM SinkTypeCorrect == Spec => []TypeOK
<1>1. TypeOK /\ [Next]_vars => TypeOK'
  <2>1. TypeOK /\ Next => TypeOK'
    BY EnqueueTypeOK, PostTypeOK, QueueTypeOK, OtherTypeOK, LifeTypeOK DEF Next
  <2>2. TypeOK /\ UNCHANGED vars => TypeOK'
    <3> SUFFICES ASSUME TypeOK, UNCHANGED vars
                 PROVE  TypeOK'
      OBVIOUS
    <3>1. offered' = offered
      BY DEF vars
    <3>2. Offered' = Offered /\ Text' = Text /\ Writer' = Writer
      BY <3>1, SameOffered
    <3> QED
      BY <3>2 DEF vars, TypeOK, flushVars, hydrateVars, persistVars, diskVars, serverVars, boundVars
  <2> QED
    BY <2>1, <2>2
<1> QED
  BY InitTypeOK, <1>1, PTL DEF Spec

-----------------------------------------------------------------------------
(* Order *)

LEMMA Smallest ==
    ASSUME NEW T, T \subseteq Nat, T # {}
    PROVE  \E x \in T : \A y \in T : x <= y
<1>1. PICK x \in T : \A y \in T : ~(<<y, x>> \in OpToRel(<, Nat))
  BY NatLessThanWellFounded, WFMin
<1>2. \A y \in T : <<y, x>> \in Nat \X Nat
  OBVIOUS
<1>3. \A y \in T : ~(y < x)
  BY <1>1, <1>2 DEF OpToRel
<1> QED
  BY <1>3

\* What comes first and what was cut off keep the order.
LEMMA OrderedPrefix ==
    ASSUME NEW s \in Seq(Nat), NEW n \in 0..Len(s), NEW F, NEW L, OrderedFor(s, F, L)
    PROVE  OrderedFor(SubSeq(s, 1, n), F, L)
<1> DEFINE p == SubSeq(s, 1, n)
<1>1. p \in Seq(Nat) /\ Len(p) = n /\ \A i \in 1..n : p[i] = s[i]
  BY PrefixProperties
<1> HIDE DEF p
<1> SUFFICES ASSUME NEW j \in 1..n, p[j] \in F, NEW e \in F, e < p[j]
             PROVE  e \in L \/ \E i \in 1..(j - 1) : p[i] = e
  BY <1>1 DEF OrderedFor, p
<1>2. j \in 1..Len(s) /\ s[j] = p[j]
  BY <1>1
<1>3. e \in L \/ \E i \in 1..(j - 1) : s[i] = e
  BY <1>2 DEF OrderedFor
<1>4. \A i \in 1..(j - 1) : i \in 1..n
  OBVIOUS
<1> QED
  BY <1>1, <1>3, <1>4

LEMMA OrderedMore ==
    ASSUME NEW s, NEW F, NEW L, NEW M, L \subseteq M, OrderedFor(s, F, L)
    PROVE  OrderedFor(s, F, M)
  BY DEF OrderedFor

\* Once the batch is in the log, what stood behind it is in order without it.
LEMMA OrderedSuffix ==
    ASSUME NEW s \in Seq(Nat), NEW t \in Seq(Nat), NEW F, NEW L, OrderedFor(s \o t, F, L)
    PROVE  OrderedFor(t, F, L \cup Elements(s))
<1> DEFINE u == s \o t
<1>1. u \in Seq(Nat) /\ Len(u) = Len(s) + Len(t)
  BY ConcatProperties
<1> SUFFICES ASSUME NEW j \in 1..Len(t), t[j] \in F, NEW e \in F, e < t[j]
             PROVE  e \in L \cup Elements(s) \/ \E i \in 1..(j - 1) : t[i] = e
  BY DEF OrderedFor
<1> DEFINE k == Len(s) + j
<1>2. k \in 1..Len(u) /\ u[k] = t[j]
  BY <1>1
<1>3. e \in L \/ \E i \in 1..(k - 1) : u[i] = e
  <2>1. OrderedFor(u, F, L)
    OBVIOUS
  <2> HIDE DEF u, k
  <2>2. k \in DOMAIN u
    BY <1>1, <1>2
  <2> QED
    BY <1>2, <2>1, <2>2 DEF OrderedFor
<1>4. ASSUME NEW i \in 1..(k - 1), u[i] = e
      PROVE  e \in Elements(s) \/ \E h \in 1..(j - 1) : t[h] = e
  <2>1. CASE i <= Len(s)
    <3>1. i \in 1..Len(s) /\ s[i] = e
      BY <1>4, <2>1
    <3> QED
      BY <3>1 DEF Elements
  <2>2. CASE ~(i <= Len(s))
    <3>1. i - Len(s) \in 1..(j - 1) /\ t[i - Len(s)] = e
      BY <1>4, <2>2
    <3> QED
      BY <3>1
  <2> QED
    BY <2>1, <2>2
<1> QED
  BY <1>3, <1>4

\* Behind a line that lacks nothing, anything may be added.
LEMMA OrderedConcat ==
    ASSUME NEW s \in Seq(Nat), NEW t \in Seq(Nat), NEW F, NEW L,
           F \subseteq L \cup Elements(s), OrderedFor(s, F, L)
    PROVE  OrderedFor(s \o t, F, L)
<1> DEFINE u == s \o t
<1>1. u \in Seq(Nat) /\ Len(u) = Len(s) + Len(t)
  BY ConcatProperties
<1>2. \A i \in 1..Len(s) : u[i] = s[i]
  OBVIOUS
<1> SUFFICES OrderedFor(u, F, L)
  OBVIOUS
<1> HIDE DEF u
<1>3. DOMAIN u = 1..Len(u)
  BY <1>1
<1> SUFFICES ASSUME NEW j \in DOMAIN u, u[j] \in F, NEW e \in F, e < u[j]
             PROVE  e \in L \/ \E i \in 1..(j - 1) : u[i] = e
  BY DEF OrderedFor
<1>4. CASE j \in 1..Len(s)
  <2>1. e \in L \/ \E i \in 1..(j - 1) : s[i] = e
    <3>1. j \in DOMAIN s /\ s[j] = u[j]
      BY <1>2, <1>4
    <3>2. s[j] \in F /\ e < s[j]
      BY <3>1
    <3> QED
      BY <3>1, <3>2 DEF OrderedFor
  <2>2. \A i \in 1..(j - 1) : i \in 1..Len(s)
    BY <1>4
  <2> QED
    BY <1>2, <2>1, <2>2
<1>5. CASE ~(j \in 1..Len(s))
  <2>1. ASSUME e \in Elements(s)
        PROVE  \E i \in 1..(j - 1) : u[i] = e
    <3>1. PICK i \in 1..Len(s) : s[i] = e
      BY <2>1 DEF Elements
    <3>2. i \in 1..(j - 1)
      BY <1>1, <1>3, <1>5
    <3> QED
      BY <1>2, <3>1, <3>2
  <2> QED
    BY <2>1
<1> QED
  BY <1>4, <1>5

\* A new event, greater than all before it, goes to the back.
LEMMA OrderedAppend ==
    ASSUME NEW s \in Seq(Nat), NEW x \in Nat, NEW F, NEW L, F \subseteq Nat,
           F \subseteq L \cup Elements(s), OrderedFor(s, F, L),
           \A e \in F \cup Elements(s) : e < x
    PROVE  OrderedFor(Append(s, x), F \cup {x}, L)
<1> DEFINE a == Append(s, x)
<1>1. a \in Seq(Nat) /\ Len(a) = Len(s) + 1 /\ a[Len(s) + 1] = x
      /\ \A i \in 1..Len(s) : a[i] = s[i]
  BY AppendProperties
<1> HIDE DEF a
<1> SUFFICES ASSUME NEW j \in 1..(Len(s) + 1), a[j] \in F \cup {x}, NEW e \in F \cup {x}, e < a[j]
             PROVE  e \in L \/ \E i \in 1..(j - 1) : a[i] = e
  BY <1>1 DEF OrderedFor, a
<1>2. CASE j \in 1..Len(s)
  <2>1. a[j] = s[j] /\ s[j] \in Elements(s) /\ s[j] < x
    BY <1>1, <1>2 DEF Elements
  <2>2. s[j] \in F /\ e \in F
    <3>1. s[j] \in Nat /\ e \in Nat /\ e < s[j]
      BY <1>2, <2>1
    <3> QED
      BY <2>1, <3>1
  <2>3. e \in L \/ \E i \in 1..(j - 1) : s[i] = e
    BY <1>2, <2>1, <2>2 DEF OrderedFor
  <2>4. \A i \in 1..(j - 1) : i \in 1..Len(s)
    BY <1>2
  <2> QED
    BY <1>1, <2>3, <2>4
<1>3. CASE j = Len(s) + 1
  <2>1. e \in F
    BY <1>1, <1>3
  <2>2. e \in L \/ \E i \in 1..Len(s) : s[i] = e
    BY <2>1 DEF Elements
  <2>3. \A i \in 1..Len(s) : i \in 1..(j - 1)
    BY <1>3
  <2> QED
    BY <1>1, <2>2, <2>3
<1> QED
  BY <1>2, <1>3

\* The event that comes next after a prefix that has been delivered.
LEMMA OrderedSingle ==
    ASSUME NEW s \in Seq(Nat), NEW n \in 0..(Len(s) - 1), NEW F, NEW L, OrderedFor(s, F, L)
    PROVE  OrderedFor(<<s[n + 1]>>, F, L \cup Elements(SubSeq(s, 1, n)))
<1>1. n + 1 \in 1..Len(s) /\ n \in 0..Len(s)
  OBVIOUS
<1> DEFINE p == SubSeq(s, 1, n)
<1>2. Len(p) = n /\ p \in Seq(Nat) /\ \A i \in 1..n : p[i] = s[i]
  BY <1>1, PrefixProperties
<1> HIDE DEF p
<1> SUFFICES ASSUME s[n + 1] \in F, NEW e \in F, e < s[n + 1]
             PROVE  e \in L \cup Elements(p)
  BY DEF OrderedFor, p
<1>3. e \in L \/ \E i \in 1..((n + 1) - 1) : s[i] = e
  BY <1>1 DEF OrderedFor
<1>4. ASSUME NEW i \in 1..((n + 1) - 1), s[i] = e
      PROVE  e \in Elements(p)
  <2>1. i \in 1..n
    OBVIOUS
  <2>2. i \in DOMAIN p /\ p[i] = e
    BY <1>2, <1>4, <2>1
  <2> QED
    BY <2>2 DEF Elements
<1> QED
  BY <1>3, <1>4

\* What an ordered request puts before a new event: all it may not overtake.
LEMMA OrderedBefore ==
    ASSUME NEW s \in Seq(Nat), NEW F, NEW L, OrderedFor(s, F, L),
           NEW f \in Elements(s), f \in F, NEW e \in F, e < f
    PROVE  e \in L \cup Before(s, f)
<1> DEFINE T == {k \in 1..Len(s) : s[k] = f}
<1>1. T \subseteq Nat /\ T # {}
  BY DEF Elements
<1>2. PICK j \in T : \A k \in T : j <= k
  BY <1>1, Smallest
<1>3. j \in 1..Len(s) /\ s[j] = f
  OBVIOUS
<1>4. ASSUME NEW h \in 1..(j - 1)
      PROVE  s[h] # f
  <2>1. h \in 1..Len(s) /\ ~(j <= h)
    BY <1>3
  <2> QED
    BY <1>2, <2>1
<1>5. ASSUME NEW i \in 1..(j - 1), s[i] = e
      PROVE  e \in Before(s, f)
  <2>1. i \in 1..Len(s)
    BY <1>3
  <2>2. \A h \in 1..i : h \in 1..(j - 1)
    OBVIOUS
  <2>3. \A h \in 1..i : s[h] # f
    BY <1>4, <2>2
  <2> QED
    BY <1>5, <2>1, <2>3 DEF Before
<1>6. e \in L \/ \E i \in 1..(j - 1) : s[i] = e
  BY <1>3 DEF OrderedFor
<1> QED
  BY <1>5, <1>6

LEMMA OrderedNew ==
    ASSUME NEW s \in Seq(Nat), NEW x \in Nat, NEW F, NEW L, F \subseteq Nat,
           OrderedFor(s, F, L), \A e \in Elements(s) : e < x
    PROVE  OrderedFor(s, F \cup {x}, L)
<1> SUFFICES ASSUME NEW j \in DOMAIN s, s[j] \in F \cup {x}, NEW e \in F \cup {x}, e < s[j]
             PROVE  e \in L \/ \E i \in 1..(j - 1) : s[i] = e
  BY DEF OrderedFor
<1>1. s[j] < x /\ s[j] \in Nat /\ e \in Nat
  BY DEF Elements
<1>2. s[j] \in F /\ e \in F
  BY <1>1
<1> QED
  BY <1>2 DEF OrderedFor

-----------------------------------------------------------------------------
(* The line of events *)

LEMMA LineTypes ==
    ASSUME TypeOK
    PROVE  /\ Line \in Seq(Nat) /\ chunk \in Seq(Nat) /\ queue \in Seq(Nat) /\ loaded \in Seq(Nat)
           /\ late \subseteq Seq(Nat) /\ fresh \subseteq Nat /\ log \subseteq Nat
           /\ Elements(Line) = Elements(chunk) \cup Elements(queue)
           /\ Elements(Line) \subseteq Offered /\ fresh \subseteq Offered
           /\ \A s \in late : Elements(s) \subseteq Offered
           /\ Offered \subseteq Nat /\ offered \in Nat
<1>1. Offered \subseteq Nat /\ offered \in Nat
  BY DEF Offered, TypeOK
<1>2. \A s \in Seq(Offered) : s \in Seq(Nat)
  BY <1>1, SeqMonotonic
<1>3. /\ chunk \in Seq(Offered) /\ queue \in Seq(Offered) /\ loaded \in Seq(Offered)
      /\ late \subseteq Seq(Offered) /\ fresh \subseteq Offered /\ log \subseteq Offered
  BY DEF TypeOK
<1>4. Line \in Seq(Offered)
  BY <1>3 DEF Line
<1>5. Elements(Line) = Elements(chunk) \cup Elements(queue)
  BY <1>3, ElementsConcat DEF Line
<1>6. Elements(Line) \subseteq Offered
  BY <1>4, ElementsType
<1>7. \A s \in late : Elements(s) \subseteq Offered
  BY <1>3, ElementsType
<1> QED
  BY <1>1, <1>2, <1>3, <1>4, <1>5, <1>6, <1>7

\* What a step does to the line, the requests and the log.
LineStays == Line' = Line /\ UNCHANGED <<fresh, late, log, earlier>>
LineGrows ==
    /\ offered' = offered + 1
    /\ Line' = Append(Line, offered') /\ fresh' = fresh \cup {offered'}
    /\ UNCHANGED <<late, log, earlier>>
LineLoads == Line' = Line \o loaded /\ UNCHANGED <<fresh, late, log, earlier>>
LinePosts ==
    /\ fresh' = fresh
    /\ \E n \in 0..Len(chunk) :
        /\ Ingest(SubSeq(chunk, 1, n))
        /\ Line' = Line \/ (Line' = queue /\ n = Len(chunk))
        /\ \/ late' = late
           \/ n = 0 /\ late' = late \cup {chunk}
           \/ n < Len(chunk) /\ late' = late \cup {<<chunk[n + 1]>>}
LateComes ==
    /\ Line' = Line /\ fresh' = fresh
    /\ \E s \in late : Ingest(s) /\ late' = late \ {s}
LineEnds == fresh' = {}

LEMMA FlushStays ==
    ASSUME TypeOK, chunk = << >>, StartFlush(queue)
    PROVE  Line' = Line
<1>1. queue \in Seq(Offered)
  BY DEF TypeOK
<1>2. chunk' \o queue' = queue
  BY <1>1, StartFlushEffect
<1>3. << >> \o queue = queue
  BY <1>1, ConcatEmptySeq
<1> QED
  BY <1>2, <1>3 DEF Line

LEMMA EnqueueLine ==
    ASSUME TypeOK, Enqueue
    PROVE  LineStays \/ LineGrows
<1>1. queue \in Seq(Nat) /\ chunk \in Seq(Nat) /\ Line \in Seq(Nat) /\ offered \in Nat
  BY LineTypes
<1>2. offered' = offered + 1 /\ UNCHANGED <<late, log, earlier>>
  BY DEF Enqueue, serverVars
<1>3. CASE UNCHANGED <<queue, chunk, fresh>>
  BY <1>2, <1>3 DEF LineStays, Line
<1> DEFINE q == Append(queue, offered')
<1>4. q \in Seq(Nat) /\ chunk \o q = Append(Line, offered')
  <2>1. offered' \in Nat
    BY <1>1, <1>2
  <2>2. q = queue \o <<offered'>> /\ Append(Line, offered') = Line \o <<offered'>>
    BY <1>1, <2>1, AppendIsConcat
  <2>3. <<offered'>> \in Seq(Nat)
    BY <2>1
  <2>4. (chunk \o queue) \o <<offered'>> = chunk \o (queue \o <<offered'>>)
    BY <1>1, <2>3, ConcatAssociative
  <2> QED
    BY <1>1, <2>1, <2>2, <2>4, AppendProperties DEF Line
<1>5. CASE fresh' = fresh \cup {offered'} /\ queue' = q /\ chunk' = chunk
  BY <1>2, <1>4, <1>5 DEF LineGrows, Line
<1>6. CASE fresh' = fresh \cup {offered'} /\ chunk = << >> /\ StartFlush(q)
  <2>1. chunk' \o queue' = q
    BY <1>4, <1>6, StartFlushEffect
  <2>2. << >> \o q = q
    BY <1>4, ConcatEmptySeq
  <2> QED
    BY <1>2, <1>4, <1>6, <2>1, <2>2 DEF LineGrows, Line
<1> QED
  BY <1>3, <1>5, <1>6 DEF Enqueue, CanFlush

LEMMA HydrateLine ==
    ASSUME TypeOK, Hydrate
    PROVE  LineStays \/ LineLoads
<1>1. UNCHANGED <<chunk, fresh, late, log, earlier>>
  BY DEF Hydrate, serverVars
<1>2. CASE queue' = queue
  BY <1>1, <1>2 DEF LineStays, Line
<1>3. CASE queue' = queue \o loaded
  <2>1. (chunk \o queue) \o loaded = chunk \o (queue \o loaded)
    BY ConcatAssociative, SMTT(30) DEF TypeOK
  <2> QED
    BY <1>1, <1>3, <2>1 DEF LineLoads, Line
<1> QED
  BY <1>2, <1>3 DEF Hydrate

LEMMA PostLine ==
    ASSUME TypeOK, Post
    PROVE  LinePosts
<1>1. PICK n \in 0..Len(chunk) :
         /\ Ingest(SubSeq(chunk, 1, n))
         /\ \/ queue' = queue /\ chunk' = chunk
            \/ queue' = chunk \o queue /\ chunk' = << >>
            \/ queue' = queue /\ chunk' = << >> /\ n = Len(chunk)
         /\ \/ late' = late
            \/ n = 0 /\ late' = late \cup {chunk}
            \/ n < Len(chunk) /\ late' = late \cup {<<chunk[n + 1]>>}
  BY PostEffect
<1>2. queue \in Seq(Nat) /\ chunk \o queue \in Seq(Nat)
  BY LineTypes DEF Line
<1>3. << >> \o queue = queue /\ << >> \o (chunk \o queue) = chunk \o queue
  BY <1>2, ConcatEmptySeq
<1>4. Line' = Line \/ (Line' = queue /\ n = Len(chunk))
  <2>1. queue' = queue /\ chunk' = chunk => Line' = Line
    BY DEF Line
  <2>2. queue' = chunk \o queue /\ chunk' = << >> => Line' = Line
    BY <1>3 DEF Line
  <2>3. queue' = queue /\ chunk' = << >> => Line' = queue
    BY <1>3 DEF Line
  <2>4. \/ queue' = queue /\ chunk' = chunk
        \/ queue' = chunk \o queue /\ chunk' = << >>
        \/ queue' = queue /\ chunk' = << >> /\ n = Len(chunk)
    BY <1>1
  <2> QED
    BY <2>1, <2>2, <2>3, <2>4
<1>5. fresh' = fresh
  BY DEF Post
<1> QED
  BY <1>1, <1>4, <1>5 DEF LinePosts

LEMMA LineStep ==
    ASSUME TypeOK, [Next]_vars
    PROVE  LineStays \/ LineGrows \/ LineLoads \/ LinePosts \/ LateComes \/ LineEnds
<1>1. CASE Enqueue
  BY <1>1, EnqueueLine
<1>2. CASE Flush
  <2>1. Line' = Line
    BY <1>2, FlushStays DEF Flush, CanFlush
  <2> QED
    BY <1>2, <2>1 DEF Flush, LineStays, serverVars
<1>3. CASE Post
  BY <1>3, PostLine
<1>4. CASE LateArrival
  BY <1>4 DEF LateArrival, LateComes, Line, flushVars
<1>5. CASE Cooldown
  BY <1>5 DEF Cooldown, LineStays, Line, serverVars
<1>6. CASE PersistTimer \/ Persist
  BY <1>6 DEF PersistTimer, Persist, LineStays, Line, flushVars, serverVars
<1>7. CASE Hydrate
  BY <1>7, HydrateLine
<1>8. CASE CloseStart \/ CloseSave \/ Start
  BY <1>8 DEF CloseStart, CloseSave, Start, LineStays, Line, flushVars, serverVars
<1>9. CASE CloseFlush
  <2>1. UNCHANGED <<fresh, late, log, earlier>>
    BY <1>9 DEF CloseFlush, serverVars
  <2>2. CASE CanFlush(queue) /\ StartFlush(queue)
    BY <2>1, <2>2, FlushStays DEF CanFlush, LineStays
  <2>3. CASE UNCHANGED <<queue, chunk>>
    BY <2>1, <2>3 DEF LineStays, Line
  <2> QED
    BY <1>9, <2>2, <2>3 DEF CloseFlush
<1>10. CASE Exit \/ Crash
  BY <1>10 DEF Exit, Crash, Die, LineEnds
<1>11. CASE UNCHANGED vars
  BY <1>11 DEF vars, LineStays, Line, flushVars, serverVars
<1> QED
  BY <1>1, <1>2, <1>3, <1>4, <1>5, <1>6, <1>7, <1>8, <1>9, <1>10, <1>11 DEF Next

-----------------------------------------------------------------------------
(* OrderInv is inductive *)

\* A log that takes in an ordered request stays in order.
LEMMA IngestInOrder ==
    ASSUME TypeOK, InOrder, NEW s \in Seq(Offered), Ordered(s), Ingest(s), fresh' = fresh
    PROVE  InOrder'
<1>1. s \in Seq(Nat)
  BY LineTypes, SeqMonotonic
<1>2. Offered \subseteq Events /\ Elements(s) \subseteq Offered
  BY SinkAssumption, ElementsType DEF TypeOK, Offered, Events
<1> SUFFICES ASSUME NEW f \in log' \cap fresh, NEW e \in fresh, e < f
             PROVE  e \in earlier'[f]
  BY DEF InOrder
<1>3. f \in Events
  BY <1>2 DEF Ingest, TypeOK
<1>4. CASE f \in log
  <2>1. earlier'[f] = earlier[f]
    BY <1>3, <1>4 DEF Ingest
  <2> QED
    BY <1>4, <2>1 DEF InOrder
<1>5. CASE f \notin log
  <2>1. f \in Elements(s) /\ earlier'[f] = log \cup Before(s, f)
    BY <1>3, <1>5 DEF Ingest
  <2>2. e \in log \cup Before(s, f)
    BY <1>1, <2>1, OrderedBefore DEF Ordered
  <2> QED
    BY <2>1, <2>2
<1> QED
  BY <1>4, <1>5

LEMMA OrderGrows == TypeOK /\ OrderInv /\ LineGrows => OrderInv'
<1> SUFFICES ASSUME TypeOK, OrderInv, LineGrows
             PROVE  OrderInv'
  OBVIOUS
<1> DEFINE x == offered + 1
<1>1. /\ x \in Nat /\ fresh' = fresh \cup {x} /\ Line' = Append(Line, x)
      /\ UNCHANGED <<late, log, earlier>>
  BY LineTypes DEF LineGrows
<1>2. /\ Line \in Seq(Nat) /\ fresh \subseteq Nat /\ late \subseteq Seq(Nat)
      /\ \A e \in fresh \cup Elements(Line) : e < x
      /\ \A s \in late : \A e \in Elements(s) : e < x
      /\ x \notin log
  <2>1. \A e \in Offered : e \in Nat /\ e < x
    BY LineTypes DEF Offered
  <2>2. log \subseteq Offered
    BY DEF TypeOK
  <2>3. x \notin Offered
    BY <1>1, <2>1
  <2> QED
    BY <2>1, <2>2, <2>3, LineTypes
<1>3. fresh \subseteq log \cup Elements(Line)
  BY DEF OrderInv, NothingDropped
<1> HIDE DEF x
<1>4. Elements(Line') = Elements(Line) \cup {x}
  <2>1. Append(Line, x) = Line \o <<x>> /\ <<x>> \in Seq(Nat)
    BY <1>1, <1>2, AppendIsConcat
  <2>2. Elements(<<x>>) = {x}
    BY DEF Elements
  <2>3. Elements(Line \o <<x>>) = Elements(Line) \cup Elements(<<x>>)
    BY <1>2, <2>1, ElementsConcat, ZenonT(60)
  <2> QED
    BY <1>1, <2>1, <2>2, <2>3
<1>5. NothingDropped'
  BY <1>1, <1>3, <1>4 DEF NothingDropped
<1>6. OrderedFor(Line', fresh', log')
  BY <1>1, <1>2, <1>3, OrderedAppend DEF OrderInv, Ordered
<1>7. \A s \in late : OrderedFor(s, fresh', log')
  BY <1>1, <1>2, OrderedNew DEF OrderInv, Ordered
<1>8. InOrder'
  <2> SUFFICES ASSUME NEW f \in log \cap (fresh \cup {x}), NEW e \in fresh \cup {x}, e < f
               PROVE  e \in earlier[f]
    BY <1>1 DEF InOrder
  <2>1. f \in fresh /\ f \in Nat /\ f < x
    BY <1>2
  <2>2. e \in fresh
    BY <1>1, <1>2, <2>1
  <2> QED
    BY <2>1, <2>2 DEF OrderInv, InOrder
<1> QED
  BY <1>1, <1>5, <1>6, <1>7, <1>8 DEF OrderInv, Ordered

LEMMA OrderPosts == TypeOK /\ OrderInv /\ LinePosts => OrderInv'
<1> SUFFICES ASSUME TypeOK, OrderInv, LinePosts
             PROVE  OrderInv'
  OBVIOUS
<1>1. PICK n \in 0..Len(chunk) :
         /\ Ingest(SubSeq(chunk, 1, n))
         /\ Line' = Line \/ (Line' = queue /\ n = Len(chunk))
         /\ \/ late' = late
            \/ n = 0 /\ late' = late \cup {chunk}
            \/ n < Len(chunk) /\ late' = late \cup {<<chunk[n + 1]>>}
  BY DEF LinePosts
<1> DEFINE p == SubSeq(chunk, 1, n)
<1>2. /\ Line \in Seq(Nat) /\ chunk \in Seq(Nat) /\ queue \in Seq(Nat)
      /\ late \subseteq Seq(Nat) /\ fresh' = fresh
      /\ Elements(Line) = Elements(chunk) \cup Elements(queue)
  BY LineTypes DEF LinePosts
<1>3. p \in Seq(Offered)
  <2>1. chunk \in Seq(Offered)
    BY DEF TypeOK
  <2> QED
    BY <2>1, PrefixProperties
<1>4. OrderedFor(chunk, fresh, log)
  <2>1. OrderedFor(Line, fresh, log) /\ Len(chunk) \in 0..Len(Line)
    BY <1>2, ConcatProperties DEF OrderInv, Ordered, Line
  <2>2. OrderedFor(SubSeq(Line, 1, Len(chunk)), fresh, log)
    BY <1>2, <2>1, OrderedPrefix
  <2>3. SubSeq(Line, 1, Len(chunk)) = chunk
    <3>1. /\ SubSeq(Line, 1, Len(chunk)) \in Seq(Nat)
          /\ Len(SubSeq(Line, 1, Len(chunk))) = Len(chunk)
          /\ \A i \in 1..Len(chunk) : SubSeq(Line, 1, Len(chunk))[i] = Line[i]
      BY <1>2, <2>1, PrefixProperties
    <3>2. \A i \in 1..Len(chunk) : Line[i] = chunk[i]
      BY <1>2 DEF Line
    <3> QED
      BY <1>2, <3>1, <3>2, SeqEqual
  <2> QED
    BY <2>2, <2>3
<1>5. OrderedFor(p, fresh, log)
  BY <1>2, <1>4, OrderedPrefix
<1>6. log' = log \cup Elements(p)
  BY <1>1 DEF Ingest
<1>7. InOrder'
  BY <1>1, <1>2, <1>3, <1>5, IngestInOrder DEF OrderInv, Ordered
<1>8. n = Len(chunk) => p = chunk
  BY <1>2, WholeBatch
<1> HIDE DEF p
<1>9. NothingDropped'
  BY <1>1, <1>2, <1>6, <1>8 DEF OrderInv, NothingDropped
<1>10. OrderedFor(Line', fresh', log')
  <2>1. CASE Line' = Line
    BY <1>2, <1>6, <2>1, OrderedMore DEF OrderInv, Ordered
  <2>2. CASE Line' = queue /\ n = Len(chunk)
    <3>1. OrderedFor(chunk \o queue, fresh, log)
      BY DEF OrderInv, Ordered, Line
    <3>2. OrderedFor(queue, fresh, log \cup Elements(chunk))
      BY <1>2, <3>1, OrderedSuffix
    <3> QED
      BY <1>2, <1>6, <1>8, <2>2, <3>2
  <2> QED
    BY <1>1, <2>1, <2>2
<1>11. ASSUME NEW s \in late'
       PROVE  OrderedFor(s, fresh', log')
  <2>1. CASE s \in late
    BY <1>2, <1>6, <2>1, OrderedMore DEF OrderInv, Ordered
  <2>2. CASE s = chunk
    BY <1>2, <1>4, <1>6, <2>2, OrderedMore
  <2>3. CASE n < Len(chunk) /\ s = <<chunk[n + 1]>>
    <3>1. n \in 0..(Len(chunk) - 1)
      BY <1>2, <2>3
    <3> QED
      BY <1>2, <1>4, <1>6, <2>3, <3>1, OrderedSingle DEF p
  <2> QED
    BY <1>1, <1>11, <2>1, <2>2, <2>3
<1> QED
  BY <1>7, <1>9, <1>10, <1>11 DEF OrderInv, Ordered

LEMMA OrderOthers ==
    TypeOK /\ OrderInv /\ (LineStays \/ LineLoads \/ LateComes \/ LineEnds) => OrderInv'
<1>1. ASSUME TypeOK, OrderInv, LineStays
      PROVE  OrderInv'
  BY <1>1 DEF LineStays, OrderInv, NothingDropped, Ordered, InOrder
<1>2. ASSUME TypeOK, OrderInv, LineLoads
      PROVE  OrderInv'
  <2>1. /\ Line \in Seq(Nat) /\ loaded \in Seq(Nat)
        /\ Line' = Line \o loaded /\ UNCHANGED <<fresh, late, log, earlier>>
    BY <1>2, LineTypes DEF LineLoads
  <2>2. Elements(Line') = Elements(Line) \cup Elements(loaded)
    BY <2>1, ElementsConcat
  <2>3. OrderedFor(Line', fresh', log')
    BY <1>2, <2>1, OrderedConcat DEF OrderInv, NothingDropped, Ordered
  <2>4. NothingDropped' /\ InOrder'
    BY <1>2, <2>1, <2>2 DEF OrderInv, NothingDropped, InOrder
  <2> QED
    BY <1>2, <2>1, <2>3, <2>4 DEF OrderInv, Ordered
<1>3. ASSUME TypeOK, OrderInv, LateComes
      PROVE  OrderInv'
  <2>1. PICK s \in late : Ingest(s) /\ late' = late \ {s}
    BY <1>3 DEF LateComes
  <2>2. /\ s \in Seq(Offered) /\ Ordered(s) /\ log \subseteq log'
        /\ fresh' = fresh /\ Line' = Line
    BY <1>3, <2>1 DEF LateComes, Ingest, OrderInv, TypeOK
  <2>3. InOrder'
    BY <1>3, <2>1, <2>2, IngestInOrder DEF OrderInv
  <2>4. OrderedFor(Line', fresh', log') /\ \A t \in late' : OrderedFor(t, fresh', log')
    BY <1>3, <2>1, <2>2, OrderedMore DEF OrderInv, Ordered
  <2>5. NothingDropped'
    BY <1>3, <2>2 DEF OrderInv, NothingDropped
  <2> QED
    BY <2>3, <2>4, <2>5 DEF OrderInv, Ordered
<1>4. ASSUME TypeOK, OrderInv, LineEnds
      PROVE  OrderInv'
  BY <1>4 DEF LineEnds, OrderInv, NothingDropped, Ordered, OrderedFor, InOrder
<1> QED
  BY <1>1, <1>2, <1>3, <1>4

\* OrderInv holds: the batch, the queue and the requests that are still under
\* way are in order, and hold all fresh events that the log lacks.
THEOREM LineInOrder == Spec => []OrderInv
<1>1. Init => OrderInv
  BY DEF Init, OrderInv, NothingDropped, Ordered, OrderedFor, InOrder
<1>2. TypeOK /\ OrderInv /\ [Next]_vars => OrderInv'
  BY LineStep, OrderGrows, OrderPosts, OrderOthers
<1> QED
  BY SinkTypeCorrect, <1>1, <1>2, PTL DEF Spec

\* NothingDropped: no refusal, timeout, retry or open circuit costs a live
\* process an event that ingest accepted (flush, postWithRetry).
THEOREM NothingIsDropped == Spec => []NothingDropped
<1>1. OrderInv => NothingDropped
  BY DEF OrderInv
<1> QED
  BY LineInOrder, <1>1, PTL

\* InOrder: requests that come late, in part or again do not let the log see an
\* event before one that was accepted earlier (flush: requeued at the front).
THEOREM LogInOrder == Spec => []InOrder
<1>1. OrderInv => InOrder
  BY DEF OrderInv
<1> QED
  BY LineInOrder, <1>1, PTL

-----------------------------------------------------------------------------
(* The bound of the queue *)

\* What makes QueueBounded inductive: the spool is read once, and a batch is
\* no longer than it may be.
BoundInv ==
    /\ QueueBounded
    /\ Len(chunk) <= BatchSize
    /\ hydrating # "no" => hydrated = 0

\* Of the lengths, a step other than ingest, flush and the read of the spool
\* changes none, or gives a batch back, or drops it.
LEMMA BoundKept ==
    ASSUME TypeOK, BoundInv, UNCHANGED <<hydrating, hydrated>>,
           \/ queue' = queue /\ chunk' = chunk
           \/ queue' = chunk \o queue /\ chunk' = << >>
           \/ queue' = queue /\ chunk' = << >>
           \/ /\ chunk = << >> /\ Len(chunk') <= BatchSize
              /\ Len(queue') \in Nat /\ Len(chunk') \in Nat
              /\ Len(queue') + Len(chunk') = Len(queue)
    PROVE  BoundInv'
<1>1. Len(chunk) \in Nat /\ Len(queue) \in Nat /\ Len(<< >>) = 0
  BY DEF TypeOK
<1>2. Len(chunk \o queue) = Len(chunk) + Len(queue)
  BY DEF TypeOK
<1>3. hydrated \in Nat
  BY DEF TypeOK
<1>4. CASE queue' = queue /\ chunk' = chunk
  BY <1>4 DEF BoundInv, QueueBounded
<1>5. CASE queue' = chunk \o queue /\ chunk' = << >>
  BY <1>1, <1>2, <1>3, <1>5, SinkAssumption DEF BoundInv, QueueBounded
<1>6. CASE queue' = queue /\ chunk' = << >>
  BY <1>1, <1>3, <1>6, SinkAssumption DEF BoundInv, QueueBounded
<1>7. CASE /\ chunk = << >> /\ Len(chunk') <= BatchSize
           /\ Len(queue') \in Nat /\ Len(chunk') \in Nat
           /\ Len(queue') + Len(chunk') = Len(queue)
  BY <1>1, <1>3, <1>7, SinkAssumption DEF BoundInv, QueueBounded
<1> QED
  BY <1>4, <1>5, <1>6, <1>7

LEMMA EnqueueBounded == TypeOK /\ BoundInv /\ Enqueue => BoundInv'
<1> SUFFICES ASSUME TypeOK, BoundInv, Enqueue
             PROVE  BoundInv'
  OBVIOUS
<1>1. UNCHANGED <<hydrating, hydrated>>
  BY DEF Enqueue, hydrateVars
<1>2. CASE UNCHANGED <<queue, chunk>>
  BY <1>1, <1>2, BoundKept
<1> DEFINE q == Append(queue, offered')
<1>3. q \in Seq(Nat) /\ Len(q) = Len(queue) + 1 /\ Len(chunk) \in Nat /\ Len(queue) \in Nat
      /\ hydrated \in Nat
  <2>1. offered' \in Nat /\ queue \in Seq(Nat) /\ chunk \in Seq(Nat)
    BY LineTypes DEF Enqueue
  <2> QED
    BY <2>1, AppendProperties DEF TypeOK
<1>4. CASE Len(queue) < MaxQueueSize /\ queue' = q /\ chunk' = chunk
  BY <1>1, <1>3, <1>4, SinkAssumption DEF BoundInv, QueueBounded
<1>5. CASE Len(queue) < MaxQueueSize /\ StartFlush(q)
  <2> HIDE DEF q
  <2>1. /\ queue' \in Seq(Nat) /\ chunk' \in Seq(Nat) /\ Len(chunk') <= BatchSize
        /\ Len(queue') + Len(chunk') = Len(q)
    BY <1>3, <1>5, StartFlushEffect
  <2> QED
    BY <1>1, <1>3, <1>5, <2>1, SinkAssumption DEF BoundInv, QueueBounded
<1>6. ~Full => Len(queue) < MaxQueueSize
  BY <1>3, SinkAssumption DEF Full
<1> QED
  BY <1>2, <1>4, <1>5, <1>6 DEF Enqueue

LEMMA HydrateBounded == TypeOK /\ BoundInv /\ Hydrate => BoundInv'
<1> SUFFICES ASSUME TypeOK, BoundInv, Hydrate
             PROVE  BoundInv'
  OBVIOUS
<1>1. chunk' = chunk
  BY DEF Hydrate
<1>2. CASE hydrating = "reading" /\ UNCHANGED <<queue, hydrated>>
  BY <1>1, <1>2 DEF BoundInv, QueueBounded
<1>3. CASE /\ hydrating = "read" /\ hydrating' = "no"
           /\ queue' = queue \o loaded /\ hydrated' = Len(loaded)
  <2>1. Len(queue') = Len(queue) + Len(loaded) /\ hydrated = 0
    BY <1>3 DEF BoundInv, TypeOK
  <2>2. Len(queue) \in Nat /\ Len(loaded) \in Nat /\ Len(chunk) \in Nat
    BY DEF TypeOK
  <2>3. Len(queue') + Len(chunk') <= MaxQueueSize + BatchSize + hydrated'
    BY <1>1, <1>3, <2>1, <2>2, SinkAssumption DEF BoundInv, QueueBounded
  <2> QED
    BY <1>1, <1>3, <2>3 DEF BoundInv, QueueBounded
<1> QED
  BY <1>2, <1>3 DEF Hydrate

LEMMA OthersBounded ==
    TypeOK /\ BoundInv /\ [Next]_vars /\ ~Enqueue /\ ~Hydrate => BoundInv'
<1> SUFFICES ASSUME TypeOK, BoundInv, [Next]_vars, ~Enqueue, ~Hydrate
             PROVE  BoundInv'
  OBVIOUS
<1>1. queue \in Seq(Offered)
  BY DEF TypeOK
<1>2. CASE Flush \/ CloseFlush
  <2>1. UNCHANGED <<hydrating, hydrated>>
    BY <1>2 DEF Flush, CloseFlush, hydrateVars
  <2>2. CASE CanFlush(queue) /\ StartFlush(queue)
    <3>1. /\ Len(queue') \in Nat /\ Len(chunk') \in Nat /\ Len(chunk') <= BatchSize
          /\ Len(queue') + Len(chunk') = Len(queue)
      BY <1>1, <2>2, StartFlushEffect
    <3> QED
      BY <2>1, <2>2, <3>1, BoundKept DEF CanFlush
  <2>3. CASE UNCHANGED <<queue, chunk>>
    BY <2>1, <2>3, BoundKept
  <2> QED
    BY <1>2, <2>2, <2>3 DEF Flush, CloseFlush
<1>3. CASE Post
  <2>1. UNCHANGED <<hydrating, hydrated>>
    BY <1>3 DEF Post, hydrateVars
  <2>2. FlushSucceeded \/ FlushFailed \/ Retry
    BY <1>3 DEF Post
  <2> QED
    BY <2>1, <2>2, FlushEnds, BoundKept
<1>4. CASE LateArrival \/ Cooldown \/ PersistTimer \/ Persist \/ CloseStart \/ CloseSave \/ Start
  BY <1>4, BoundKept
  DEF LateArrival, Cooldown, PersistTimer, Persist, CloseStart, CloseSave, Start, hydrateVars, flushVars
<1>5. CASE Exit \/ Crash
  <2>1. /\ queue' = << >> /\ chunk' = << >> /\ hydrated' = 0
        /\ Len(<< >>) = 0
    BY <1>5 DEF Exit, Crash, Die
  <2> QED
    BY <2>1, SinkAssumption DEF BoundInv, QueueBounded
<1>6. CASE UNCHANGED vars
  BY <1>6, BoundKept DEF vars, hydrateVars, flushVars
<1> QED
  BY <1>2, <1>3, <1>4, <1>5, <1>6 DEF Next

\* QueueBounded: batches put back and the events of the spool never take the
\* queue further past maxQueueSize than one batch and one spool (HttpSinkAdapter).
THEOREM QueueIsBounded == Spec => []QueueBounded
<1>1. Init => BoundInv
  BY SinkAssumption DEF Init, BoundInv, QueueBounded
<1>2. TypeOK /\ BoundInv /\ [Next]_vars => BoundInv'
  BY EnqueueBounded, HydrateBounded, OthersBounded
<1>3. BoundInv => QueueBounded
  BY DEF BoundInv
<1> QED
  BY SinkTypeCorrect, <1>1, <1>2, <1>3, PTL DEF Spec

-----------------------------------------------------------------------------
(* The spool file *)

Waiting(x) == writer[x].pc = "waiting"

Whole(s) == [there |-> TRUE, whole |-> TRUE, events |-> s]

\* One write at most, in persistInFlight; who waits, waits for it, and has asked
\* for another round.
OneWrite ==
    /\ \A x \in Slots : Active(x) => persistInFlight = x
    /\ persistInFlight # None => Active(persistInFlight)
    /\ \A x \in Slots : Waiting(x) => persistInFlight # None /\ writer[x].on = persistInFlight
    /\ persistRequested <=> \E x \in Slots : Waiting(x)

\* The .tmp is the write's own until it is renamed.
OwnTmp ==
    \A x \in Slots :
        /\ writer[x].pc = "filling" => writer[x].fd = "tmp" /\ tmp = Truncated
        /\ writer[x].pc = "renaming" => tmp = Whole(writer[x].snapshot)

\* Until the spool has been read nothing writes it, and what was read is what it
\* holds.
ReadFirst ==
    /\ hydrating # "no" => persistInFlight = None /\ (timer \/ (queue = << >> /\ chunk = << >>))
    /\ hydrating = "read" => loaded = Saved

\* The queue is what the file holds or the write under way will put there, unless
\* another write is still to come.
Covered ==
    hydrating = "no" =>
        \/ timer \/ chunk # << >> \/ persistRequested
        \/ queue = IF persistInFlight = None THEN Saved ELSE writer[persistInFlight].snapshot

SpoolInv ==
    /\ phase # "stopping" => writer[Close].pc = "idle"
    /\ settled => OneWrite /\ OwnTmp /\ ReadFirst /\ Covered

LEMMA SpoolAtRest == TypeOK /\ SpoolInv => SpoolFollowsQueue
<1> SUFFICES ASSUME TypeOK, SpoolInv, AtRest, settled
             PROVE  Saved = queue
  BY DEF SpoolFollowsQueue
<1>1. OneWrite /\ Covered
  BY DEF SpoolInv
<1>2. \A x \in Slots : ~Active(x) /\ ~Waiting(x)
  BY DEF AtRest, Active, Waiting
<1>3. persistInFlight = None /\ ~persistRequested
  BY <1>1, <1>2 DEF OneWrite, TypeOK
<1> QED
  BY <1>1, <1>3 DEF Covered, AtRest

LEMMA TakeSome ==
    ASSUME TypeOK, NEW q \in Seq(Nat), q # << >>, StartFlush(q)
    PROVE  chunk' # << >>
<1>1. Len(q) \in Nat /\ Len(q) # 0
  BY EmptySeq
<1> DEFINE n == IF Len(q) < BatchSize THEN Len(q) ELSE BatchSize
<1>2. n \in 1..Len(q)
  BY <1>1, SinkAssumption
<1>3. chunk' = SubSeq(q, 1, n)
  BY DEF StartFlush, Take
<1> HIDE DEF n
<1>4. Len(chunk') = n
  BY <1>2, <1>3, PrefixProperties
<1> QED
  BY <1>2, <1>4

\* What leaves the disk alone: the queue stays, a persist is due, or a batch is
\* taken from a queue that is not empty.
LEMMA QueueSpool ==
    ASSUME TypeOK, SpoolInv, UNCHANGED <<persistVars, diskVars, settled, hydrateVars>>,
           phase = "stopping" => phase' = "stopping",
           \/ UNCHANGED <<queue, chunk, timer>>
           \/ timer'
           \/ queue # << >> /\ chunk' # << >> /\ timer' = timer
    PROVE  SpoolInv'
<1>1. /\ persistInFlight' = persistInFlight /\ persistRequested' = persistRequested
      /\ writer' = writer /\ file' = file /\ tmp' = tmp /\ settled' = settled
      /\ hydrating' = hydrating /\ loaded' = loaded
  BY DEF persistVars, diskVars, hydrateVars
<1>2. phase' # "stopping" => writer'[Close].pc = "idle"
  BY <1>1 DEF SpoolInv
<1> SUFFICES ASSUME settled
             PROVE  OneWrite' /\ OwnTmp' /\ ReadFirst' /\ Covered'
  BY <1>1, <1>2 DEF SpoolInv
<1>3. OneWrite /\ OwnTmp /\ ReadFirst /\ Covered
  BY DEF SpoolInv
<1>4. Saved' = Saved
  BY <1>1 DEF Saved
<1>5. OneWrite' /\ OwnTmp'
  BY <1>1, <1>3 DEF OneWrite, OwnTmp, Active, Waiting
<1>6. ReadFirst'
  BY <1>1, <1>3, <1>4 DEF ReadFirst
<1>7. Covered'
  BY <1>1, <1>3, <1>4 DEF Covered
<1> QED
  BY <1>5, <1>6, <1>7

LEMMA EnqueueSpool == TypeOK /\ SpoolInv /\ Enqueue => SpoolInv'
<1> SUFFICES ASSUME TypeOK, SpoolInv, Enqueue
             PROVE  SpoolInv'
  OBVIOUS
<1>1. UNCHANGED <<persistVars, diskVars, settled, hydrateVars>> /\ phase' = phase
  BY DEF Enqueue
<1>2. UNCHANGED <<queue, chunk, timer>> \/ timer'
  BY DEF Enqueue
<1> QED
  BY <1>1, <1>2, QueueSpool

LEMMA FlushSpool == TypeOK /\ SpoolInv /\ (Flush \/ CloseFlush) => SpoolInv'
<1> SUFFICES ASSUME TypeOK, SpoolInv, Flush \/ CloseFlush
             PROVE  SpoolInv'
  OBVIOUS
<1>1. UNCHANGED <<persistVars, diskVars, settled, hydrateVars, timer>>
  BY DEF Flush, CloseFlush
<1>2. phase = "stopping" => phase' = "stopping"
  BY DEF Flush, CloseFlush
<1>3. queue \in Seq(Nat)
  BY LineTypes
<1>4. UNCHANGED <<queue, chunk>> \/ (queue # << >> /\ chunk' # << >>)
  BY <1>3, TakeSome DEF Flush, CloseFlush, CanFlush
<1> QED
  BY <1>1, <1>2, <1>4, QueueSpool

LEMMA PostSpool == TypeOK /\ SpoolInv /\ Post => SpoolInv'
<1> SUFFICES ASSUME TypeOK, SpoolInv, Post
             PROVE  SpoolInv'
  OBVIOUS
<1>1. UNCHANGED <<persistVars, diskVars, settled, hydrateVars>>
  BY DEF Post
<1>2. FlushSucceeded \/ FlushFailed \/ UNCHANGED <<phase, queue, chunk, timer>>
  BY DEF Post, Retry
<1>3. ASSUME FlushSucceeded \/ FlushFailed
      PROVE  timer' /\ (phase = "stopping" => phase' = "stopping")
  <2>1. timer' /\ \E q : AfterFlush(q)
    BY <1>3 DEF FlushSucceeded, FlushFailed
  <2> QED
    BY <2>1 DEF AfterFlush
<1> QED
  BY <1>1, <1>2, <1>3, QueueSpool

\* What was read is still in the file when it goes behind the queue.
LEMMA HydrateSpool == TypeOK /\ SpoolInv /\ Hydrate => SpoolInv'
<1> SUFFICES ASSUME TypeOK, SpoolInv, Hydrate
             PROVE  SpoolInv'
  OBVIOUS
<1>1. /\ persistInFlight' = persistInFlight /\ persistRequested' = persistRequested
      /\ writer' = writer /\ file' = file /\ tmp' = tmp /\ phase' = phase
      /\ chunk' = chunk /\ timer' = timer
  BY DEF Hydrate, persistVars, diskVars
<1>2. phase' # "stopping" => writer'[Close].pc = "idle"
  BY <1>1 DEF SpoolInv
<1> SUFFICES ASSUME settled, settled'
             PROVE  OneWrite' /\ OwnTmp' /\ ReadFirst' /\ Covered'
  <2>1. settled' => settled
    BY DEF Hydrate
  <2> QED
    BY <1>2, <2>1 DEF SpoolInv
<1>3. OneWrite /\ OwnTmp /\ ReadFirst
  BY DEF SpoolInv
<1>4. Saved' = Saved
  BY <1>1 DEF Saved
<1>5. OneWrite' /\ OwnTmp'
  BY <1>1, <1>3 DEF OneWrite, OwnTmp, Active, Waiting
<1>6. CASE hydrating = "reading" /\ hydrating' = "read"
  <2>1. loaded' = Saved /\ queue' = queue
    BY <1>6 DEF Hydrate, Saved
  <2> QED
    BY <1>1, <1>3, <1>4, <1>5, <1>6, <2>1 DEF ReadFirst, Covered
<1>7. CASE hydrating = "read" /\ hydrating' = "no"
  <2>1. queue' = queue \o loaded
    BY <1>7 DEF Hydrate
  <2>2. loaded = Saved /\ persistInFlight = None /\ (timer \/ queue = << >>)
    BY <1>3, <1>7 DEF ReadFirst
  <2>3. queue = << >> => queue' = loaded
    <3>1. loaded \in Seq(Offered)
      BY DEF TypeOK
    <3> QED
      BY <2>1, <3>1
  <2> QED
    BY <1>1, <1>4, <1>5, <1>7, <2>2, <2>3 DEF ReadFirst, Covered
<1> QED
  BY <1>6, <1>7 DEF Hydrate

\* A call writes what is queued now, or has the write under way go round again.
LEMMA CallSpool == TypeOK /\ SpoolInv /\ (PersistTimer \/ CloseSave) => SpoolInv'
<1> SUFFICES ASSUME TypeOK, SpoolInv, PersistTimer \/ CloseSave
             PROVE  SpoolInv'
  OBVIOUS
<1>1. PICK w \in Slots : /\ Call(w) /\ writer[w].pc = "idle"
                         /\ w = Close => phase' = "stopping"
  <2>1. CASE PersistTimer
    BY <2>1, SinkAssumption DEF PersistTimer, Slots
  <2>2. CASE CloseSave
    BY <2>2 DEF CloseSave, Slots, SpoolInv
  <2> QED
    BY <2>1, <2>2
<1>2. /\ file' = file /\ tmp' = tmp /\ timer' = FALSE /\ queue' = queue /\ chunk' = chunk
      /\ hydrating' = hydrating /\ loaded' = loaded
      /\ (phase' = phase \/ phase' = "stopping")
  BY DEF PersistTimer, CloseSave, diskVars, hydrateVars, flushVars
<1>3. writer \in [Slots -> Writer] /\ Close \in Slots /\ None \notin Slots
  BY SinkAssumption DEF TypeOK, Slots
<1>4. \A x \in Slots \ {w} : writer'[x] = writer[x]
  BY <1>1, <1>3 DEF Call
<1>5. phase' # "stopping" => writer'[Close].pc = "idle"
  BY <1>1, <1>2, <1>3, <1>4 DEF SpoolInv
<1> SUFFICES ASSUME settled, settled'
             PROVE  OneWrite' /\ OwnTmp' /\ ReadFirst' /\ Covered'
  <2>1. settled' => settled
    BY <1>1 DEF Call
  <2> QED
    BY <1>5, <2>1 DEF SpoolInv
<1>6. OneWrite /\ OwnTmp /\ ReadFirst /\ Covered
  BY DEF SpoolInv
<1>7. CASE persistInFlight = None
  <2>1. /\ hydrating = "no" /\ \A x \in Slots : ~Active(x)
        /\ persistInFlight' = w /\ persistRequested' = persistRequested
        /\ writer'[w] = NewWrite
    BY <1>1, <1>3, <1>7 DEF Call
  <2>2. writer'[w].pc = "opening" /\ writer'[w].snapshot = queue
    BY <2>1 DEF NewWrite
  <2>3. \A x \in Slots : ~Waiting(x)
    BY <1>6, <1>7 DEF OneWrite
  <2>4. \A x \in Slots \ {w} : ~Active(x)' /\ ~Waiting(x)'
    BY <1>4, <2>1, <2>3 DEF Active, Waiting
  <2>5. Active(w)' /\ ~Waiting(w)'
    BY <2>2 DEF Active, Waiting
  <2>6. OneWrite'
    BY <1>6, <2>1, <2>3, <2>4, <2>5 DEF OneWrite
  <2>7. OwnTmp'
    BY <2>2, <2>4 DEF OwnTmp, Active
  <2> QED
    BY <1>2, <1>3, <2>1, <2>2, <2>6, <2>7 DEF ReadFirst, Covered
<1>8. CASE persistInFlight # None
  <2>1. /\ persistInFlight' = persistInFlight /\ persistRequested' = TRUE
        /\ writer'[w] = [NoCall EXCEPT !.pc = "waiting", !.on = persistInFlight]
    BY <1>1, <1>3, <1>8 DEF Call
  <2>2. writer'[w].pc = "waiting" /\ writer'[w].on = persistInFlight
    BY <2>1 DEF NoCall
  <2>3. hydrating = "no" /\ persistInFlight # w
    BY <1>1, <1>6, <1>8 DEF ReadFirst, OneWrite, Active
  <2>4. OneWrite'
    BY <1>4, <1>6, <1>8, <2>1, <2>2, <2>3 DEF OneWrite, Active, Waiting, TypeOK
  <2>5. OwnTmp'
    BY <1>2, <1>4, <1>6, <2>2 DEF OwnTmp
  <2> QED
    BY <1>2, <2>1, <2>3, <2>4, <2>5 DEF ReadFirst, Covered
<1> QED
  BY <1>7, <1>8

\* A write whose end overlaps nothing is the only one, and nobody waited for it.
LEMMA FinishAlone ==
    ASSUME TypeOK, OneWrite, NEW w \in Slots, Active(w), NEW wr,
           \A x \in Slots : wr[x].pc = writer[x].pc /\ wr[x].on = writer[x].on,
           NEW ok \in BOOLEAN, Finish(w, wr, ok), settled'
    PROVE  /\ ok /\ ~persistRequested
           /\ persistInFlight' = None /\ persistRequested' = FALSE
           /\ \A x \in Slots : writer'[x].pc = "idle"
<1> DEFINE waiting == {x \in Slots : wr[x].pc = "waiting" /\ wr[x].on = w}
           again == IF persistRequested THEN {w} ELSE {}
           started == waiting \cup again
           last == IF waiting # {} THEN waiting ELSE again
<1>1. /\ writer' = [x \in Slots |-> IF x \in started THEN NewWrite
                                    ELSE IF x = w THEN NoCall ELSE wr[x]]
      /\ persistInFlight' \in (IF last = {} THEN {None} ELSE last)
      /\ persistRequested' = FALSE
      /\ ok /\ \A x, y \in started : x = y
  BY DEF Finish
<1>2. persistInFlight = w /\ w # None
  BY SinkAssumption DEF OneWrite
<1>3. ~persistRequested
  <2> SUFFICES ASSUME persistRequested PROVE FALSE
    OBVIOUS
  <2>1. PICK y \in Slots : Waiting(y)
    BY DEF OneWrite
  <2>2. y \in waiting /\ y # w
    BY <1>2, <2>1 DEF OneWrite, Waiting, Active
  <2> QED
    BY <1>1, <2>2
<1>4. \A x \in Slots : ~Waiting(x)
  BY <1>3 DEF OneWrite
<1>5. started = {} /\ last = {}
  BY <1>3, <1>4 DEF Waiting
<1>6. ASSUME NEW x \in Slots
      PROVE  writer'[x].pc = "idle"
  <2>1. CASE x = w
    BY <1>1, <1>5, <2>1 DEF NoCall
  <2>2. CASE x # w
    <3>1. ~Active(x) /\ ~Waiting(x)
      BY <1>2, <1>4, <2>2 DEF OneWrite
    <3>2. writer[x].pc = "idle"
      BY <3>1 DEF Active, Waiting, TypeOK, Writer
    <3>3. writer'[x] = wr[x]
      BY <1>1, <1>5, <2>2
    <3> QED
      BY <3>2, <3>3
  <2> QED
    BY <2>1, <2>2
<1> QED
  BY <1>1, <1>3, <1>5, <1>6

\* close's own call comes to life only by CloseSave.
LEMMA CloseIdle ==
    ASSUME TypeOK, writer[Close].pc = "idle", NEW w \in Slots,
           Open(w) \/ Fill(w) \/ Rename(w) \/ PersistError(w)
    PROVE  writer'[Close].pc = "idle"
<1>1. Close \in Slots /\ writer \in [Slots -> Writer]
  BY DEF Slots, TypeOK
<1>2. w # Close
  BY DEF Open, Fill, Rename, PersistError, Active
<1>3. CASE Open(w) \/ Fill(w)
  BY <1>1, <1>2, <1>3 DEF Open, Fill
<1>4. ASSUME NEW wr, NEW ok, wr[Close].pc = "idle", Finish(w, wr, ok)
      PROVE  writer'[Close].pc = "idle"
  <2> DEFINE started == {x \in Slots : wr[x].pc = "waiting" /\ wr[x].on = w}
                        \cup (IF persistRequested THEN {w} ELSE {})
  <2>1. writer' = [x \in Slots |-> IF x \in started THEN NewWrite
                                   ELSE IF x = w THEN NoCall ELSE wr[x]]
    BY <1>4 DEF Finish
  <2>2. Close \notin started
    BY <1>2, <1>4
  <2> HIDE DEF started
  <2>3. writer'[Close] = wr[Close]
    BY <1>1, <1>2, <2>1, <2>2
  <2> QED
    BY <1>4, <2>3
<1>5. CASE Rename(w)
  BY <1>1, <1>4, <1>5 DEF Rename, Writer
<1>6. CASE PersistError(w)
  BY <1>4, <1>6 DEF PersistError
<1> QED
  BY <1>3, <1>4, <1>5, <1>6

\* Open and Fill write the .tmp that is the call's own.
LEMMA WriteSpool ==
    ASSUME TypeOK, OneWrite, OwnTmp, Covered, persistInFlight # None => hydrating = "no",
           NEW w \in Slots, Open(w) \/ Fill(w),
           UNCHANGED <<hydrating, queue, chunk, timer>>
    PROVE  OneWrite' /\ OwnTmp' /\ Covered' /\ ReadFirst'
<1>1. writer \in [Slots -> Writer] /\ None \notin Slots /\ w # None
  BY SinkAssumption DEF TypeOK
<1>2. /\ persistInFlight' = persistInFlight /\ persistRequested' = persistRequested
      /\ \A x \in Slots \ {w} : writer'[x] = writer[x]
      /\ writer'[w].snapshot = writer[w].snapshot
      /\ writer'[w].pc \in {"filling", "renaming"}
  BY <1>1 DEF Open, Fill, Writer
<1>3. Active(w) /\ Active(w)' /\ ~Waiting(w) /\ ~Waiting(w)'
  BY <1>2 DEF Open, Fill, Active, Waiting
<1>4. persistInFlight = w /\ hydrating = "no"
  BY <1>1, <1>3 DEF OneWrite
<1>5. \A x \in Slots \ {w} : /\ Active(x)' <=> Active(x)
                             /\ Waiting(x)' <=> Waiting(x)
  BY <1>2 DEF Active, Waiting
<1>6. OneWrite'
  BY <1>2, <1>3, <1>4, <1>5 DEF OneWrite
<1>7. \A x \in Slots \ {w} : ~Active(x)'
  BY <1>4, <1>5 DEF OneWrite
<1>8. Covered' /\ ReadFirst'
  <2>1. ReadFirst'
    BY <1>4 DEF ReadFirst
  <2>2. timer \/ chunk # << >> \/ persistRequested \/ queue = writer[w].snapshot
    BY <1>1, <1>4 DEF Covered
  <2>3. Covered'
    BY <1>1, <1>2, <1>4, <2>2 DEF Covered
  <2> QED
    BY <2>1, <2>3
<1>9. CASE Open(w)
  <2>1. writer'[w].pc = "filling" /\ writer'[w].fd = "tmp" /\ tmp' = Truncated /\ file' = file
    BY <1>1, <1>9 DEF Open, Writer
  <2>2. OwnTmp'
    BY <1>7, <2>1 DEF OwnTmp, Active
  <2> QED
    BY <1>6, <1>8, <2>1, <2>2
<1>10. CASE Fill(w)
  <2>1. writer[w].fd = "tmp" /\ tmp = Truncated
    BY <1>10 DEF Fill, OwnTmp
  <2>2. writer'[w].pc = "renaming" /\ tmp' = Overwrite(tmp, writer[w].snapshot)
    BY <1>1, <1>10, <2>1 DEF Fill, Writer
  <2>3. ~(Len(tmp.events) > Len(writer[w].snapshot))
    <3>1. tmp.events = << >> /\ Len(writer[w].snapshot) \in Nat
      BY <1>1, <2>1 DEF Truncated, NoFile, Writer
    <3> QED
      BY <3>1
  <2>4. tmp' = Whole(writer'[w].snapshot)
    BY <1>2, <2>2, <2>3 DEF Overwrite, Whole
  <2>5. OwnTmp'
    BY <1>7, <2>2, <2>4 DEF OwnTmp, Active
  <2> QED
    BY <1>6, <1>8, <2>5
<1> QED
  BY <1>9, <1>10

\* Rename puts the snapshot into the file, whole.
LEMMA RenameSpool ==
    ASSUME TypeOK, OneWrite, OwnTmp, Covered, persistInFlight # None => hydrating = "no",
           NEW w \in Slots, Rename(w), settled',
           UNCHANGED <<hydrating, queue, chunk, timer>>
    PROVE  OneWrite' /\ OwnTmp' /\ Covered' /\ ReadFirst'
<1> DEFINE moved == [x \in Slots |-> [writer[x] EXCEPT
                        !.fd = IF ~tmp.there THEN @
                               ELSE CASE @ = "tmp" -> "file" [] @ = "file" -> "gone" [] OTHER -> @]]
<1>1. Active(w) /\ tmp = Whole(writer[w].snapshot) /\ w # None
  BY SinkAssumption DEF Rename, Active, OwnTmp
<1>2. tmp.there /\ tmp.whole /\ tmp.events = writer[w].snapshot
  BY <1>1 DEF Whole
<1>3. Finish(w, moved, tmp.there) /\ file' = tmp
  BY <1>2 DEF Rename
<1>4. \A x \in Slots : moved[x].pc = writer[x].pc /\ moved[x].on = writer[x].on
  BY DEF TypeOK, Writer
<1>5. persistInFlight = w /\ hydrating = "no"
  BY <1>1 DEF OneWrite
<1> HIDE DEF moved
<1>6. /\ ~persistRequested /\ persistInFlight' = None /\ persistRequested' = FALSE
      /\ \A x \in Slots : writer'[x].pc = "idle"
  BY <1>1, <1>2, <1>3, <1>4, FinishAlone
<1>7. OneWrite' /\ OwnTmp' /\ ReadFirst'
  BY <1>5, <1>6 DEF OneWrite, OwnTmp, ReadFirst, Active, Waiting
<1>8. Saved' = writer[w].snapshot
  BY <1>2, <1>3 DEF Saved
<1>9. Covered'
  BY <1>1, <1>5, <1>6, <1>8 DEF Covered
<1> QED
  BY <1>7, <1>9

LEMMA PersistSpool == TypeOK /\ SpoolInv /\ Persist => SpoolInv'
<1> SUFFICES ASSUME TypeOK, SpoolInv, Persist
             PROVE  SpoolInv'
  OBVIOUS
<1>1. PICK w \in Slots : Open(w) \/ Fill(w) \/ Rename(w) \/ PersistError(w)
  BY DEF Persist
<1>2. phase' = phase /\ UNCHANGED <<hydrating, queue, chunk, timer>>
  BY DEF Persist, flushVars, hydrateVars
<1>3. phase' # "stopping" => writer'[Close].pc = "idle"
  BY <1>1, <1>2, CloseIdle DEF SpoolInv
<1>4. settled' => settled
  BY <1>1 DEF Open, Fill, Rename, PersistError, Finish
<1> SUFFICES ASSUME settled, settled'
             PROVE  OneWrite' /\ OwnTmp' /\ ReadFirst' /\ Covered'
  BY <1>3, <1>4 DEF SpoolInv
<1>5. OneWrite /\ OwnTmp /\ Covered /\ (persistInFlight # None => hydrating = "no")
  BY DEF SpoolInv, ReadFirst
<1>6. ~PersistError(w)
  BY DEF PersistError, Finish
<1> QED
  BY <1>1, <1>2, <1>5, <1>6, WriteSpool, RenameSpool

\* A process that ends leaves no write, and its successor reads the file.
LEMMA DieSpool == Die => SpoolInv'
<1> SUFFICES ASSUME Die
             PROVE  SpoolInv'
  OBVIOUS
<1>1. /\ persistInFlight' = None /\ persistRequested' = FALSE
      /\ hydrating' = "reading" /\ queue' = << >> /\ chunk' = << >>
      /\ \A x \in Slots : writer'[x].pc = "idle"
  BY DEF Die, NoCall
<1>2. Close \in Slots
  BY DEF Slots
<1>3. OneWrite' /\ OwnTmp' /\ ReadFirst' /\ Covered'
  BY <1>1 DEF OneWrite, OwnTmp, ReadFirst, Covered, Active, Waiting
<1> QED
  BY <1>1, <1>2, <1>3 DEF SpoolInv

LEMMA OthersSpool ==
    TypeOK /\ SpoolInv
    /\ (LateArrival \/ Cooldown \/ CloseStart \/ Start \/ UNCHANGED vars) => SpoolInv'
<1> SUFFICES ASSUME TypeOK, SpoolInv,
                    LateArrival \/ Cooldown \/ CloseStart \/ Start \/ UNCHANGED vars
             PROVE  SpoolInv'
  OBVIOUS
<1>1. UNCHANGED <<persistVars, diskVars, settled, hydrateVars, queue, chunk, timer>>
  BY DEF LateArrival, Cooldown, CloseStart, Start, vars, flushVars
<1>2. phase = "stopping" => phase' = "stopping"
  BY DEF LateArrival, Cooldown, CloseStart, Start, vars
<1> QED
  BY <1>1, <1>2, QueueSpool

\* SpoolFollowsQueue: whatever order a debounce timer, a flush, a requeue, the
\* hydration, close() and the end of a write come in, at rest the spool file is
\* the queue unless a persist overlapped another or failed (scheduleQueuePersist,
\* persistQueueToDisk, hydrateQueueFromDisk).
THEOREM SpoolIsTheQueue == Spec => []SpoolFollowsQueue
<1>1. Init => SpoolInv
  <2> SUFFICES ASSUME Init
               PROVE  SpoolInv
    OBVIOUS
  <2>1. \A x \in Slots : writer[x].pc = "idle"
    BY DEF Init, NoCall
  <2>2. OneWrite /\ OwnTmp /\ ReadFirst /\ Covered
    BY <2>1 DEF Init, OneWrite, OwnTmp, ReadFirst, Covered, Active, Waiting
  <2> QED
    BY <2>1, <2>2 DEF SpoolInv, Slots
<1>2. TypeOK /\ SpoolInv /\ [Next]_vars => SpoolInv'
  BY EnqueueSpool, FlushSpool, PostSpool, HydrateSpool, CallSpool, PersistSpool, DieSpool,
     OthersSpool DEF Next, Exit, Crash
<1>3. TypeOK /\ SpoolInv => SpoolFollowsQueue
  BY SpoolAtRest
<1> QED
  BY SinkTypeCorrect, <1>1, <1>2, <1>3, PTL DEF Spec

=============================================================================
