------------------------ MODULE FleetAndSetupProofs ------------------------
(***************************************************************************)
(* Theorems about FleetSignals, for any targets, policies, destinations,   *)
(* settings, tokens and bounds, and about BridgeSetup, for any requests    *)
(* and bounds.  The two share no state and no name.                        *)
(***************************************************************************)
EXTENDS FleetSignals, BridgeSetup, FiniteSetTheorems, TLAPS

-----------------------------------------------------------------------------
(* The parts of the state that actions change together *)

StoreOK ==
    /\ store \in [Targets -> Record \cup {None}] /\ saved \in [Targets -> Record \cup {None}]
    /\ sync \in [Targets -> Options \cup {None}]
    /\ unsaved \in BOOLEAN /\ broken \subseteq Targets

PolicyOK ==
    /\ profiles \in [Policies -> (SUBSET Demands) \cup {None}]
    /\ policyOf \in [Targets -> Policies]
    /\ profiles[Default] # None /\ \A t \in Targets : profiles[policyOf[t]] # None

ReportOK == report \in [Targets -> Report]
AlertOK == settings \in Settings /\ kept \in Settings /\ cooling \subseteq Key

SignalState ==
    [seen : [Targets -> [drift : SUBSET Codes, violation : SUBSET Codes]],
     posts : SUBSET Alert, settled : SUBSET Problem]
SignalOK ==
    /\ seen \in [Targets -> [drift : SUBSET Codes, violation : SUBSET Codes]]
    /\ posts \subseteq Alert /\ settled \subseteq Problem

TokenOK ==
    /\ pending \in [Tokens -> Batch \cup {None}] /\ asked \in [Tokens -> Batch \cup {None}]
    /\ used \in [Tokens -> Seq(Batch)]

SpentOK ==
    spent \in [changes : 0 .. MaxChanges, faults : 0 .. MaxFaults, restarts : 0 .. MaxRestarts]

LEMMA Parts ==
    TypeOK <=> /\ StoreOK /\ PolicyOK /\ ReportOK /\ AlertOK
               /\ SignalOK /\ TokenOK /\ SpentOK
  BY DEF TypeOK, StoreOK, PolicyOK, ReportOK, AlertOK, SignalOK, TokenOK, SpentOK

LEMMA PartsNext ==
    ASSUME StoreOK', PolicyOK', ReportOK', AlertOK', SignalOK', TokenOK', SpentOK'
    PROVE  TypeOK'
  BY DEF TypeOK, StoreOK, PolicyOK, ReportOK, AlertOK, SignalOK, TokenOK, SpentOK

\* What an action leaves alone keeps its type.
LEMMA Untouched ==
    /\ StoreOK /\ UNCHANGED storeVars => StoreOK'
    /\ PolicyOK /\ UNCHANGED policyVars => PolicyOK'
    /\ ReportOK /\ UNCHANGED report => ReportOK'
    /\ AlertOK /\ UNCHANGED alertVars => AlertOK'
    /\ SignalOK /\ UNCHANGED signalVars => SignalOK'
    /\ TokenOK /\ UNCHANGED tokenVars => TokenOK'
    /\ SpentOK /\ UNCHANGED spent => SpentOK'
<1>1. StoreOK /\ UNCHANGED storeVars => StoreOK'
  BY DEF StoreOK, storeVars
<1>2. PolicyOK /\ UNCHANGED policyVars => PolicyOK'
  BY DEF PolicyOK, policyVars
<1>3. AlertOK /\ UNCHANGED alertVars => AlertOK'
  BY DEF AlertOK, alertVars
<1>4. SignalOK /\ UNCHANGED signalVars => SignalOK'
  BY DEF SignalOK, signalVars
<1>5. TokenOK /\ UNCHANGED tokenVars => TokenOK'
  BY DEF TokenOK, tokenVars
<1> QED
  BY <1>1, <1>2, <1>3, <1>4, <1>5 DEF ReportOK, SpentOK

\* The counters stay within their bounds.
LEMMA Spending ==
    ASSUME SpentOK
    PROVE  /\ Change => SpentOK'
           /\ ChangeAndFault => SpentOK'
<1>1. MaxChanges \in Nat /\ MaxFaults \in Nat /\ MaxRestarts \in Nat
  BY FleetAssumption DEF FleetAssumption
<1>2. /\ spent.changes \in 0 .. MaxChanges
      /\ spent.faults \in 0 .. MaxFaults
      /\ spent.restarts \in 0 .. MaxRestarts
      /\ spent = [changes |-> spent.changes, faults |-> spent.faults,
                  restarts |-> spent.restarts]
  BY DEF SpentOK
<1>3. spent.changes < MaxChanges => spent.changes + 1 \in 0 .. MaxChanges
  BY <1>1, <1>2
<1>4. spent.faults < MaxFaults => spent.faults + 1 \in 0 .. MaxFaults
  BY <1>1, <1>2
<1>5. Change => SpentOK'
  BY <1>2, <1>3 DEF SpentOK, Change
<1>6. ChangeAndFault => SpentOK'
  BY <1>2, <1>3, <1>4 DEF SpentOK, ChangeAndFault
<1> QED
  BY <1>5, <1>6

-----------------------------------------------------------------------------
(* Signals *)

ProblemList == [drift : SUBSET Codes, violation : SUBSET Codes, critical : BOOLEAN]

LEMMA ProblemsTyped ==
    ASSUME NEW running, NEW r \in Report, NEW demands \in SUBSET Demands
    PROVE  Problems(running, r, demands) \in ProblemList
<1>1. Drifts(running, r, demands) \in SUBSET Codes
  BY DEF Drifts, Codes
<1>2. Violations(running, r, demands) \in SUBSET Codes
  BY <1>1 DEF Violations, Codes
<1> QED
  BY <1>1, <1>2 DEF Problems, ProblemList

LEMMA AnnounceTyped ==
    ASSUME NEW s \in SignalState, NEW T \in SUBSET Targets, NEW now \in [T -> ProblemList],
           NEW moved, NEW conf, NEW cool
    PROVE  Announce(s, now, moved, conf, cool) \in SignalState
<1> DEFINE new(t, k) == \/ Signature(now[t][k], s.seen[t][k])
                        \/ k = "drift" /\ (t \in moved \/ "sync" \in now[t].drift)
           alerts == {[dest |-> d, kind |-> k, target |-> t, codes |-> now[t][k]] :
                        d \in Destinations, k \in Kinds, t \in DOMAIN now}
           due == {a \in alerts : a.codes # {} /\ new(a.target, a.kind)}
           sent == {a \in due : /\ Routed(conf, a, Rank(a.codes, now[a.target].critical))
                                /\ KeyOf(a) \notin cool}
           lasts(p) == p[2] \in DOMAIN now => p[4] \in now[p[2]][p[3]]
           silent == UNION {ProblemsOf(a, a.codes) : a \in due \ sent}
           result == [seen |-> [t \in Targets |-> IF t \in DOMAIN now
                                  THEN [drift |-> now[t].drift, violation |-> now[t].violation]
                                  ELSE s.seen[t]],
                      posts |-> s.posts \cup sent,
                      settled |-> {p \in s.settled \cup silent : lasts(p)}]
<1>1. Announce(s, now, moved, conf, cool) = result
  BY DEF Announce
<1>2. alerts \subseteq Alert
  <2> SUFFICES ASSUME NEW d \in Destinations, NEW k \in Kinds, NEW t \in T
               PROVE  [dest |-> d, kind |-> k, target |-> t, codes |-> now[t][k]] \in Alert
    OBVIOUS
  <2>1. now[t] \in ProblemList
    OBVIOUS
  <2>2. now[t][k] \in SUBSET Codes
    BY <2>1 DEF ProblemList, Kinds
  <2> QED
    BY <2>2 DEF Alert
<1>3. due \subseteq Alert /\ sent \subseteq Alert
  BY <1>2
<1>4. silent \subseteq Problem
  <2> SUFFICES ASSUME NEW a \in Alert
               PROVE  ProblemsOf(a, a.codes) \subseteq Problem
    BY <1>3
  <2> QED
    BY DEF ProblemsOf, Problem, Alert
<1> HIDE DEF sent, silent, lasts
<1>5. [t \in Targets |-> IF t \in DOMAIN now
                         THEN [drift |-> now[t].drift, violation |-> now[t].violation]
                         ELSE s.seen[t]]
          \in [Targets -> [drift : SUBSET Codes, violation : SUBSET Codes]]
  <2>1. \A t \in T : now[t].drift \in SUBSET Codes /\ now[t].violation \in SUBSET Codes
    BY DEF ProblemList
  <2>2. \A t \in Targets : s.seen[t] \in [drift : SUBSET Codes, violation : SUBSET Codes]
    BY DEF SignalState
  <2> QED
    BY <2>1, <2>2
<1>6. s.posts \subseteq Alert /\ s.settled \subseteq Problem
  BY DEF SignalState
<1> QED
  BY <1>1, <1>3, <1>4, <1>5, <1>6 DEF SignalState

LEMMA SayTyped ==
    ASSUME ReportOK, NEW s \in SignalState, NEW T \in SUBSET Targets, NEW running,
           NEW of \in [Targets -> Policies],
           profiles \in [Policies -> (SUBSET Demands) \cup {None}],
           \A t \in T : profiles[of[t]] # None
    PROVE  Say(s, T, running, of) \in SignalState
<1> DEFINE now == [t \in T |-> Problems(running, report[t], profiles[of[t]])]
<1>1. now \in [T -> ProblemList]
  <2> SUFFICES ASSUME NEW t \in T
               PROVE  Problems(running, report[t], profiles[of[t]]) \in ProblemList
    OBVIOUS
  <2>1. report[t] \in Report
    BY DEF ReportOK
  <2>2. of[t] \in Policies
    OBVIOUS
  <2>3. profiles[of[t]] \in (SUBSET Demands) \cup {None}
    BY <2>2
  <2>4. profiles[of[t]] # None
    OBVIOUS
  <2>5. profiles[of[t]] \in SUBSET Demands
    BY <2>3, <2>4
  <2> QED
    BY <2>1, <2>5, ProblemsTyped
<1>2. Announce(s, now, {}, settings, cooling) \in SignalState
  BY <1>1, AnnounceTyped
<1> QED
  BY <1>2, Zenon DEF Say

LEMMA SignalsTyped == SignalOK => Signals \in SignalState
  BY DEF SignalOK, Signals, SignalState

LEMMA IsSignalsTyped ==
    ASSUME NEW s \in SignalState, IsSignals(s)
    PROVE  SignalOK'
  BY DEF SignalOK, IsSignals, SignalState

-----------------------------------------------------------------------------
(* The server starts *)

LEMMA BootedTyped ==
    ASSUME NEW table \in [Targets -> Record \cup {None}], NEW conf
    PROVE  /\ Booted(table, conf).store \in [Targets -> Record \cup {None}]
           /\ Booted(table, conf).sync \in [Targets -> Options \cup {None}]
           /\ Booted(table, conf).report \in [Targets -> Report]
           /\ Booted(table, conf).signals \in SignalState
<1> DEFINE fresh == [t \in Targets |->
                      IF t = Local THEN [enabled |-> TRUE, options |-> DefaultOptions] ELSE None]
           all == IF \A t \in Targets : table[t] = None THEN fresh ELSE table
           on == EnabledIn(all)
           silent == [heard |-> FALSE, config |-> FALSE, silence |-> 0]
           nothing == [seen |-> [t \in Targets |-> Unseen], posts |-> {}, settled |-> {}]
           now == [t \in on |-> Problems(FALSE, silent, DefaultDemands)]
           loops == [t \in Targets |-> IF t \in on THEN all[t].options ELSE None]
<1>1. DefaultOptions \in Options /\ DefaultDemands \in SUBSET Demands
  BY FleetAssumption DEF FleetAssumption
<1>2. fresh \in [Targets -> Record \cup {None}]
  BY <1>1 DEF Record
<1>3. all \in [Targets -> Record \cup {None}]
  BY <1>2
<1>4. silent \in Report
  BY DEF Report
<1>5. nothing \in SignalState
  BY DEF SignalState, Unseen
<1>6. on \in SUBSET Targets
  BY DEF EnabledIn
<1> HIDE DEF all, nothing, silent
<1>7. loops \in [Targets -> Options \cup {None}]
  BY <1>3 DEF EnabledIn, Record
<1>8. now \in [on -> ProblemList]
  BY <1>1, <1>4, ProblemsTyped
<1>9. Announce(nothing, now, {}, conf, {}) \in SignalState
  BY <1>5, <1>6, <1>8, AnnounceTyped
<1>10. Booted(table, conf) =
          [store |-> all, sync |-> loops, report |-> [t \in Targets |-> silent],
           signals |-> Announce(nothing, now, {}, conf, {})]
  BY DEF Booted, all, nothing, silent
<1>11. [t \in Targets |-> silent] \in [Targets -> Report]
  BY <1>4
<1> HIDE DEF now, loops
<1> QED
  BY <1>3, <1>7, <1>9, <1>10, <1>11

LEMMA FreshTyped ==
    /\ FreshProfiles \in [Policies -> (SUBSET Demands) \cup {None}]
    /\ NoAssignments \in [Targets -> Policies]
    /\ FreshProfiles[Default] # None
    /\ \A t \in Targets : FreshProfiles[NoAssignments[t]] # None
<1>1. /\ Default \in Policies /\ DefaultDemands \in SUBSET Demands
      /\ DefaultDemands # None
  BY FleetAssumption DEF FleetAssumption
<1> QED
  BY <1>1 DEF FreshProfiles, NoAssignments

LEMMA TypeInit == Init => TypeOK
<1> SUFFICES ASSUME Init PROVE TypeOK
  OBVIOUS
<1>1. kept \in Settings /\ settings \in Settings /\ cooling \subseteq Key
  BY FleetAssumption DEF Init, FleetAssumption
<1>2. PICK table \in Tables :
          /\ store = Booted(table, kept).store /\ saved = Booted(table, kept).store
          /\ sync = Booted(table, kept).sync /\ report = Booted(table, kept).report
          /\ seen = Booted(table, kept).signals.seen
          /\ posts = Booted(table, kept).signals.posts
          /\ settled = Booted(table, kept).signals.settled
  BY DEF Init
<1>3. table \in [Targets -> Record \cup {None}]
  BY FleetAssumption DEF FleetAssumption
<1>4. /\ Booted(table, kept).store \in [Targets -> Record \cup {None}]
      /\ Booted(table, kept).sync \in [Targets -> Options \cup {None}]
      /\ Booted(table, kept).report \in [Targets -> Report]
      /\ Booted(table, kept).signals \in SignalState
  BY <1>3, BootedTyped
<1>5. StoreOK /\ ReportOK
  BY <1>2, <1>4 DEF Init, StoreOK, ReportOK
<1>6. SignalOK
  BY <1>2, <1>4 DEF SignalOK, SignalState
<1>7. PolicyOK
  <2>1. profiles = FreshProfiles /\ policyOf = NoAssignments
    BY DEF Init, NoAssignments
  <2> QED
    BY <2>1, FreshTyped DEF PolicyOK
<1>8. TokenOK
  BY DEF Init, TokenOK
<1>9. SpentOK
  BY FleetAssumption DEF Init, SpentOK, FleetAssumption
<1> QED
  BY <1>1, <1>5, <1>6, <1>7, <1>8, <1>9, Parts DEF AlertOK

LEMMA RestartTyped ==
    ASSUME TypeOK, Restart
    PROVE  TypeOK'
<1> DEFINE b == Booted(saved, kept)
<1>1. /\ b.store \in [Targets -> Record \cup {None}]
      /\ b.sync \in [Targets -> Options \cup {None}]
      /\ b.report \in [Targets -> Report]
      /\ b.signals \in SignalState
  BY BootedTyped, Parts DEF StoreOK
<1>2. /\ store' = b.store /\ saved' = b.store /\ sync' = b.sync /\ report' = b.report
      /\ IsSignals(b.signals)
  BY DEF Restart
<1> HIDE DEF b
<1>3. StoreOK'
  BY <1>1, <1>2 DEF StoreOK, Restart
<1>4. ReportOK'
  BY <1>1, <1>2 DEF ReportOK
<1>5. SignalOK'
  BY <1>1, <1>2, IsSignalsTyped
<1>6. PolicyOK'
  BY FreshTyped DEF PolicyOK, Restart
<1>7. AlertOK'
  BY Parts DEF AlertOK, Restart
<1>8. TokenOK'
  BY Parts DEF TokenOK, Restart
<1>9. SpentOK'
  <2>1. MaxRestarts \in Nat
    BY FleetAssumption DEF FleetAssumption
  <2>2. SpentOK
    BY Parts
  <2> QED
    BY <2>1, <2>2 DEF SpentOK, Restart
<1> QED
  BY <1>3, <1>4, <1>5, <1>6, <1>7, <1>8, <1>9, PartsNext

-----------------------------------------------------------------------------
(* The table of targets and its sync loops *)

LEMMA RestartedTyped ==
    ASSUME StoreOK, NEW T, NEW table \in [Targets -> Record \cup {None}]
    PROVE  Restarted(T, table) \in [Targets -> Options \cup {None}]
<1> SUFFICES ASSUME NEW t \in Targets
             PROVE  (IF t \notin T THEN sync[t]
                     ELSE IF t \in EnabledIn(table) THEN table[t].options ELSE None)
                        \in Options \cup {None}
  BY DEF Restarted
<1>1. sync[t] \in Options \cup {None}
  BY DEF StoreOK
<1>2. t \in EnabledIn(table) => table[t].options \in Options
  BY DEF EnabledIn, Record
<1> QED
  BY <1>1, <1>2

\* What the table's own targets are said to be.
LEMMA SayOfTyped ==
    ASSUME PolicyOK, ReportOK, NEW s \in SignalState, NEW T \in SUBSET Targets, NEW running
    PROVE  Say(s, T, running, policyOf) \in SignalState
  BY SayTyped DEF PolicyOK

LEMMA EnabledAreTargets == \A table : EnabledIn(table) \subseteq Targets
  BY DEF EnabledIn

LEMMA AddTyped ==
    ASSUME TypeOK, NEW t \in Targets, NEW rec \in Record, NEW ok \in BOOLEAN,
           \/ AddTarget(t, rec, ok)
           \/ PatchTarget(t, rec, ok)
    PROVE  TypeOK'
<1> DEFINE table == [store EXCEPT ![t] = rec]
<1>1. StoreOK /\ PolicyOK /\ ReportOK /\ AlertOK /\ SignalOK /\ TokenOK /\ SpentOK
  BY Parts
<1>2. /\ Written(table, ok)
      /\ \/ /\ ok
            /\ sync' = Restarted({t}, store')
            /\ broken' = broken \ {t}
            /\ IsSignals(Say(Signals, {t} \cap EnabledIn(store'), FALSE, policyOf))
         \/ ~ok /\ broken' = broken \cup {t} /\ UNCHANGED <<sync, signalVars>>
      /\ UNCHANGED <<policyVars, alertVars, tokenVars, report>>
  BY DEF AddTarget, PatchTarget
<1>3. table \in [Targets -> Record \cup {None}]
  BY <1>1 DEF StoreOK
<1>4. /\ store' = table
      /\ saved' \in {table, saved}
      /\ unsaved' \in BOOLEAN
      /\ SpentOK'
  BY <1>1, <1>2, Spending DEF Written
<1> HIDE DEF table
<1>5. sync' \in [Targets -> Options \cup {None}] /\ broken' \subseteq Targets
  <2>1. CASE ok /\ sync' = Restarted({t}, store') /\ broken' = broken \ {t}
    BY <1>1, <1>3, <1>4, <2>1, RestartedTyped DEF StoreOK
  <2>2. CASE broken' = broken \cup {t} /\ UNCHANGED sync
    BY <1>1, <2>2 DEF StoreOK
  <2> QED
    BY <1>2, <2>1, <2>2
<1>6. StoreOK'
  BY <1>1, <1>3, <1>4, <1>5 DEF StoreOK
<1>7. SignalOK'
  <2>1. CASE IsSignals(Say(Signals, {t} \cap EnabledIn(store'), FALSE, policyOf))
    <3>1. Signals \in SignalState
      BY <1>1, SignalsTyped
    <3>2. Say(Signals, {t} \cap EnabledIn(store'), FALSE, policyOf) \in SignalState
      BY <1>1, <3>1, SayOfTyped
    <3> QED
      BY <2>1, <3>2, IsSignalsTyped
  <2>2. CASE UNCHANGED signalVars
    BY <1>1, <2>2, Untouched
  <2> QED
    BY <1>2, <2>1, <2>2
<1> QED
  BY <1>1, <1>2, <1>4, <1>6, <1>7, Untouched, PartsNext

LEMMA ForgetTyped ==
    ASSUME TypeOK, NEW R, Forget(R), UNCHANGED <<profiles, settings, kept, asked, used>>
    PROVE  PolicyOK' /\ ReportOK' /\ AlertOK' /\ SignalOK' /\ TokenOK'
<1>1. PolicyOK /\ ReportOK /\ AlertOK /\ SignalOK /\ TokenOK
  BY Parts
<1>2. PolicyOK'
  <2>1. Default \in Policies
    BY FleetAssumption DEF FleetAssumption
  <2> QED
    BY <1>1, <2>1 DEF PolicyOK, Forget
<1>3. ReportOK'
  BY <1>1 DEF ReportOK, Report, Forget
<1>4. AlertOK'
  BY <1>1 DEF AlertOK, Forget
<1>5. SignalOK'
  <2>1. Unseen \in [drift : SUBSET Codes, violation : SUBSET Codes]
    BY DEF Unseen
  <2>2. \A t \in Targets : seen[t] \in [drift : SUBSET Codes, violation : SUBSET Codes]
    BY <1>1 DEF SignalOK
  <2>3. seen' \in [Targets -> [drift : SUBSET Codes, violation : SUBSET Codes]]
    BY <2>1, <2>2 DEF Forget
  <2> QED
    BY <1>1, <2>3 DEF SignalOK, Forget
<1>6. TokenOK'
  BY <1>1 DEF TokenOK, Forget
<1> QED
  BY <1>2, <1>3, <1>4, <1>5, <1>6

LEMMA RemoveTyped ==
    ASSUME TypeOK, NEW T, NEW R, NEW last, NEW ok \in BOOLEAN, RemoveTargets(T, R, last, ok)
    PROVE  TypeOK'
<1>1. StoreOK /\ SpentOK
  BY Parts
<1>2. store' \in [Targets -> Record \cup {None}]
  BY <1>1 DEF StoreOK, RemoveTargets
<1>3. saved' \in [Targets -> Record \cup {None}]
  <2>1. store[last] \in Record \cup {None} \/ last \notin Targets
    BY <1>1 DEF StoreOK
  <2>2. [store' EXCEPT ![last] = store[last]] \in [Targets -> Record \cup {None}]
    BY <1>2, <2>1
  <2> QED
    BY <1>1, <1>2, <2>2 DEF StoreOK, RemoveTargets
<1>4. sync' \in [Targets -> Options \cup {None}]
  BY <1>1 DEF StoreOK, RemoveTargets
<1>5. unsaved' \in BOOLEAN /\ broken' \subseteq Targets
  BY <1>1 DEF StoreOK, RemoveTargets, Known
<1>6. StoreOK'
  BY <1>2, <1>3, <1>4, <1>5 DEF StoreOK
<1>7. SpentOK'
  BY <1>1, Spending DEF RemoveTargets
<1>8. Forget(R) /\ UNCHANGED <<profiles, settings, kept, asked, used>>
  BY DEF RemoveTargets
<1> QED
  BY <1>6, <1>7, <1>8, ForgetTyped, PartsNext

LEMMA RestartAllTyped ==
    ASSUME TypeOK, RestartAll
    PROVE  TypeOK'
<1>1. StoreOK /\ PolicyOK /\ ReportOK /\ AlertOK /\ SignalOK /\ TokenOK /\ SpentOK
  BY Parts
<1>2. Restarted(Targets, store) \in [Targets -> Options \cup {None}]
  BY <1>1, RestartedTyped DEF StoreOK
<1>3. StoreOK'
  BY <1>1, <1>2 DEF StoreOK, RestartAll
<1>4. Say(Signals, EnabledIn(store), FALSE, policyOf) \in SignalState
  BY <1>1, SignalsTyped, SayOfTyped, EnabledAreTargets
<1>5. SignalOK'
  BY <1>4, IsSignalsTyped DEF RestartAll
<1>6. SpentOK'
  BY <1>1, Spending DEF RestartAll
<1>7. UNCHANGED <<policyVars, alertVars, tokenVars, report>>
  BY DEF RestartAll
<1> QED
  BY <1>1, <1>3, <1>5, <1>6, <1>7, Untouched, PartsNext

LEMMA ReconcileTyped ==
    ASSUME TypeOK, NEW T \in SUBSET Targets, Reconcile(T)
    PROVE  TypeOK'
<1> DEFINE on == T \cap EnabledIn(store)
           started == Say(Signals, on, FALSE, policyOf)
<1>1. StoreOK /\ PolicyOK /\ ReportOK /\ AlertOK /\ SignalOK /\ TokenOK /\ SpentOK
  BY Parts
<1>2. Restarted(T, store) \in [Targets -> Options \cup {None}]
  BY <1>1, RestartedTyped DEF StoreOK
<1>3. StoreOK'
  BY <1>1, <1>2 DEF StoreOK, Reconcile
<1>4. started \in SignalState
  BY <1>1, SignalsTyped, SayOfTyped
<1>5. Say(started, on, TRUE, policyOf) \in SignalState
  BY <1>1, <1>4, SayOfTyped
<1>6. Say(Say(started, on, TRUE, policyOf), T \ on, FALSE, policyOf) \in SignalState
  BY <1>1, <1>5, SayOfTyped
<1>7. IsSignals(Say(Say(started, on, TRUE, policyOf), T \ on, FALSE, policyOf))
  BY DEF Reconcile
<1>8. SignalOK'
  BY <1>6, <1>7, IsSignalsTyped
<1>9. SpentOK'
  BY <1>1, Spending DEF Reconcile
<1>10. UNCHANGED <<policyVars, alertVars, tokenVars, report>>
  BY DEF Reconcile
<1> QED
  BY <1>1, <1>3, <1>8, <1>9, <1>10, Untouched, PartsNext

-----------------------------------------------------------------------------
(* Bridges *)

LEMMA CronSyncTyped ==
    ASSUME TypeOK, NEW t \in Targets, NEW config \in BOOLEAN, NEW moved \in BOOLEAN,
           CronSync(t, config, moved)
    PROVE  TypeOK'
<1> DEFINE table == IF store[t] # None THEN store
                    ELSE [store EXCEPT ![t] = [enabled |-> TRUE, options |-> DefaultOptions]]
           start == {t} \cap EnabledIn(table) \cap Starts(Targets)
           loops == Restarted(start, table)
           beat == [heard |-> TRUE, config |-> config, silence |-> 0]
           demands == profiles[policyOf[t]]
           said == Say(Signals, start, FALSE, policyOf)
           now == [u \in {t} |-> Problems(loops[t] # None, beat, demands)]
<1>1. StoreOK /\ PolicyOK /\ ReportOK /\ AlertOK /\ SignalOK /\ TokenOK /\ SpentOK
  BY Parts
<1>2. table \in [Targets -> Record \cup {None}]
  <2>1. DefaultOptions \in Options
    BY FleetAssumption DEF FleetAssumption
  <2>2. [enabled |-> TRUE, options |-> DefaultOptions] \in Record
    BY <2>1 DEF Record
  <2> QED
    BY <1>1, <2>2 DEF StoreOK
<1>3. loops \in [Targets -> Options \cup {None}]
  BY <1>1, <1>2, RestartedTyped
<1>4. /\ \/ Written(table, TRUE)
         \/ Change /\ UNCHANGED <<store, saved, unsaved>>
      /\ sync' = loops /\ broken' = broken \ start
      /\ report' = [report EXCEPT ![t] = beat]
      /\ IsSignals(Announce(said, now, IF moved THEN {t} ELSE {}, settings, cooling))
      /\ UNCHANGED <<policyVars, alertVars, tokenVars>>
  BY DEF CronSync
<1>5. beat \in Report
  BY DEF Report
<1>6. start \in SUBSET Targets
  OBVIOUS
<1>7. demands \in SUBSET Demands
  <2>1. policyOf[t] \in Policies
    BY <1>1 DEF PolicyOK
  <2>2. profiles[policyOf[t]] \in (SUBSET Demands) \cup {None}
    BY <1>1, <2>1 DEF PolicyOK
  <2>3. profiles[policyOf[t]] # None
    BY <1>1 DEF PolicyOK
  <2> QED
    BY <2>2, <2>3
<1> HIDE DEF table, start, beat, demands, loops
<1>8. Problems(loops[t] # None, beat, demands) \in ProblemList
  BY <1>5, <1>7, ProblemsTyped
<1>9. now \in [{t} -> ProblemList]
  BY <1>8
<1>10. said \in SignalState
  BY <1>1, <1>6, SignalsTyped, SayOfTyped
<1> HIDE DEF said, now
<1>11. SignalOK'
  <2>1. Announce(said, now, IF moved THEN {t} ELSE {}, settings, cooling) \in SignalState
    BY <1>9, <1>10, AnnounceTyped
  <2> QED
    BY <1>4, <2>1, IsSignalsTyped
<1>12. StoreOK'
  <2>1. CASE Written(table, TRUE)
    BY <1>1, <1>2, <1>3, <1>4, <2>1 DEF StoreOK, Written
  <2>2. CASE UNCHANGED <<store, saved, unsaved>>
    BY <1>1, <1>3, <1>4, <2>2 DEF StoreOK
  <2> QED
    BY <1>4, <2>1, <2>2
<1>13. SpentOK'
  BY <1>1, <1>4, Spending DEF Written
<1>14. ReportOK'
  BY <1>1, <1>4, <1>5 DEF ReportOK
<1> QED
  BY <1>1, <1>4, <1>11, <1>12, <1>13, <1>14, Untouched, PartsNext

LEMMA ReportTyped ==
    ASSUME TypeOK, NEW t \in Targets, Silent(t) \/ EditMirror(t)
    PROVE  TypeOK'
<1>1. StoreOK /\ PolicyOK /\ ReportOK /\ AlertOK /\ SignalOK /\ TokenOK /\ SpentOK
  BY Parts
<1>2. UNCHANGED <<storeVars, policyVars, alertVars, signalVars, tokenVars>>
  BY DEF Silent, EditMirror
<1>3. ReportOK'
  <2>1. report[t] \in Report
    BY <1>1 DEF ReportOK
  <2>2. CASE Silent(t)
    <3>1. [report[t] EXCEPT !.silence = @ + 1] \in Report
      BY <2>1, <2>2 DEF Silent, Report
    <3>2. report' = [report EXCEPT ![t] = [report[t] EXCEPT !.silence = @ + 1]]
      BY <1>1, <2>2 DEF Silent, ReportOK
    <3> QED
      BY <1>1, <3>1, <3>2 DEF ReportOK
  <2>3. CASE EditMirror(t)
    <3>1. [report[t] EXCEPT !.config = TRUE] \in Report
      BY <2>1 DEF Report
    <3>2. report' = [report EXCEPT ![t] = [report[t] EXCEPT !.config = TRUE]]
      BY <1>1, <2>3 DEF EditMirror, ReportOK
    <3> QED
      BY <1>1, <3>1, <3>2 DEF ReportOK
  <2> QED
    BY <2>2, <2>3
<1>4. SpentOK'
  BY <1>1, Spending, Untouched DEF Silent, EditMirror
<1> QED
  BY <1>1, <1>2, <1>3, <1>4, Untouched, PartsNext

-----------------------------------------------------------------------------
(* Policies and alert settings *)

LEMMA PolicyTyped ==
    ASSUME TypeOK,
           \/ \E p \in Policies, demands \in DemandChoices : EditPolicy(p, demands)
           \/ \E t \in Targets, p \in Policies : ApplyPolicy(t, p)
    PROVE  TypeOK'
<1>1. StoreOK /\ PolicyOK /\ ReportOK /\ AlertOK /\ SignalOK /\ TokenOK /\ SpentOK
  BY Parts
<1>2. ASSUME NEW p \in Policies, NEW demands \in DemandChoices, EditPolicy(p, demands)
      PROVE  TypeOK'
  <2>1. demands \in SUBSET Demands /\ demands # None
    BY FleetAssumption DEF FleetAssumption
  <2>2. PolicyOK'
    BY <1>1, <1>2, <2>1 DEF PolicyOK, EditPolicy
  <2>3. SpentOK'
    BY <1>1, <1>2, Spending DEF EditPolicy
  <2>4. UNCHANGED <<storeVars, report, alertVars, signalVars, tokenVars>>
    BY <1>2 DEF EditPolicy
  <2> QED
    BY <1>1, <2>2, <2>3, <2>4, Untouched, PartsNext
<1>3. ASSUME NEW t \in Targets, NEW p \in Policies, ApplyPolicy(t, p)
      PROVE  TypeOK'
  <2>1. PolicyOK'
    BY <1>1, <1>3 DEF PolicyOK, ApplyPolicy
  <2>2. policyOf' \in [Targets -> Policies] /\ profiles[policyOf'[t]] # None
        /\ profiles \in [Policies -> (SUBSET Demands) \cup {None}]
    BY <1>1, <1>3 DEF PolicyOK, ApplyPolicy
  <2>3. Say(Signals, {t}, Running(t), policyOf') \in SignalState
    BY <1>1, <2>2, SignalsTyped, SayTyped
  <2>4. SignalOK'
    BY <1>3, <2>3, IsSignalsTyped DEF ApplyPolicy
  <2>5. SpentOK'
    BY <1>1, <1>3, Spending DEF ApplyPolicy
  <2>6. UNCHANGED <<storeVars, alertVars, tokenVars, report>>
    BY <1>3 DEF ApplyPolicy
  <2> QED
    BY <1>1, <2>1, <2>4, <2>5, <2>6, Untouched, PartsNext
<1> QED
  BY <1>2, <1>3

LEMMA SettingsTyped ==
    ASSUME TypeOK, NEW new \in SettingChoices, NEW ok \in BOOLEAN, EditSettings(new, ok)
    PROVE  TypeOK'
<1>1. StoreOK /\ PolicyOK /\ ReportOK /\ AlertOK /\ SignalOK /\ TokenOK /\ SpentOK
  BY Parts
<1>2. new \in Settings
  BY FleetAssumption DEF FleetAssumption
<1>3. AlertOK'
  <2>1. NoSettings \in Settings
    BY DEF NoSettings, Settings, Ranks
  <2> QED
    BY <1>1, <1>2, <2>1 DEF AlertOK, EditSettings
<1>4. SpentOK'
  BY <1>1, Spending DEF EditSettings
<1>5. UNCHANGED <<storeVars, policyVars, report, signalVars, tokenVars>>
  BY DEF EditSettings
<1> QED
  BY <1>1, <1>3, <1>4, <1>5, Untouched, PartsNext

-----------------------------------------------------------------------------
(* Webhooks and refreshes *)

\* A list of problems is finite, so it has a length.
LEMMA CodesFinite == IsFiniteSet(Codes)
<1>1. Codes = {"version", "auth", "config", "sync", "stopped"}
  BY DEF Codes, Demands
<1>2. IsFiniteSet({})
  BY FS_EmptySet
<1>3. IsFiniteSet({} \cup {"version"})
  BY <1>2, FS_AddElement
<1>4. IsFiniteSet(({} \cup {"version"}) \cup {"auth"})
  BY <1>3, FS_AddElement
<1>5. IsFiniteSet((({} \cup {"version"}) \cup {"auth"}) \cup {"config"})
  BY <1>4, FS_AddElement
<1>6. IsFiniteSet(((({} \cup {"version"}) \cup {"auth"}) \cup {"config"}) \cup {"sync"})
  BY <1>5, FS_AddElement
<1>7. IsFiniteSet((((({} \cup {"version"}) \cup {"auth"}) \cup {"config"}) \cup {"sync"})
                       \cup {"stopped"})
  BY <1>6, FS_AddElement
<1>8. Codes = (((({} \cup {"version"}) \cup {"auth"}) \cup {"config"}) \cup {"sync"})
                   \cup {"stopped"}
  BY <1>1
<1> QED
  BY <1>7, <1>8

LEMMA KeyTyped == \A a \in Alert : KeyOf(a) \in Key
<1> SUFFICES ASSUME NEW a \in Alert PROVE KeyOf(a) \in Key
  OBVIOUS
<1>1. /\ a.dest \in Destinations /\ a.kind \in Kinds /\ a.target \in Targets
      /\ a.codes \subseteq Codes
  BY DEF Alert
<1>2. Cardinality(a.codes) \in Nat
  BY <1>1, CodesFinite, FS_Subset, FS_CardinalityType
<1> QED
  BY <1>1, <1>2 DEF KeyOf, Key

LEMMA LastingTyped ==
    ASSUME SignalOK, NEW a \in Alert
    PROVE  Lasting(a) \subseteq Problem
<1>1. /\ a.dest \in Destinations /\ a.kind \in Kinds /\ a.target \in Targets
      /\ a.codes \subseteq Codes
  BY DEF Alert
<1>2. a.codes \cap seen[a.target][a.kind] \subseteq Codes
  BY <1>1
<1> QED
  BY <1>1, <1>2 DEF Lasting, ProblemsOf, Problem

LEMMA AnswerTyped ==
    ASSUME TypeOK, NEW a \in posts, Answer(a)
    PROVE  TypeOK'
<1>1. StoreOK /\ PolicyOK /\ ReportOK /\ AlertOK /\ SignalOK /\ TokenOK /\ SpentOK
  BY Parts
<1>2. a \in Alert
  BY <1>1 DEF SignalOK
<1>3. SignalOK'
  <2>1. /\ seen' = seen /\ posts' = posts \ {a} /\ settled' = settled \cup Lasting(a)
    BY DEF Answer, Delivered, Failed
  <2> QED
    BY <1>1, <1>2, <2>1, LastingTyped DEF SignalOK
<1>4. AlertOK' /\ SpentOK'
  <2>1. CASE Delivered(a)
    BY <1>1, <1>2, <2>1, KeyTyped, Untouched DEF AlertOK, Delivered
  <2>2. CASE Failed(a)
    <3>1. AlertOK'
      BY <1>1, <2>2, Untouched DEF Failed
    <3>2. MaxFaults \in Nat
      BY FleetAssumption DEF FleetAssumption
    <3>3. SpentOK'
      BY <1>1, <2>2, <3>2 DEF SpentOK, Failed
    <3> QED
      BY <3>1, <3>3
  <2> QED
    BY <2>1, <2>2 DEF Answer
<1>5. UNCHANGED <<storeVars, policyVars, tokenVars, report>>
  BY DEF Answer, Delivered, Failed
<1> QED
  BY <1>1, <1>3, <1>4, <1>5, Untouched, PartsNext

LEMMA TimerTyped ==
    ASSUME TypeOK,
           \/ \E t \in Targets : Refresh(t)
           \/ \E k \in cooling : CooledDown(k)
    PROVE  TypeOK'
<1>1. StoreOK /\ PolicyOK /\ ReportOK /\ AlertOK /\ SignalOK /\ TokenOK /\ SpentOK
  BY Parts
<1>2. ASSUME NEW t \in Targets, Refresh(t)
      PROVE  TypeOK'
  <2>1. Say(Signals, {t}, TRUE, policyOf) \in SignalState
    BY <1>1, SignalsTyped, SayOfTyped
  <2>2. SignalOK'
    BY <1>2, <2>1, IsSignalsTyped DEF Refresh
  <2>3. UNCHANGED <<storeVars, policyVars, alertVars, tokenVars, report, spent>>
    BY <1>2 DEF Refresh
  <2> QED
    BY <1>1, <2>2, <2>3, Untouched, PartsNext
<1>3. ASSUME NEW k \in cooling, CooledDown(k)
      PROVE  TypeOK'
  <2>1. AlertOK'
    BY <1>1, <1>3 DEF AlertOK, CooledDown
  <2>2. UNCHANGED <<storeVars, policyVars, signalVars, tokenVars, report, spent>>
    BY <1>3 DEF CooledDown
  <2> QED
    BY <1>1, <2>1, <2>2, Untouched, PartsNext
<1> QED
  BY <1>2, <1>3

-----------------------------------------------------------------------------
(* Batches and their tokens *)

LEMMA BatchTyped ==
    ASSUME PolicyOK, NEW f \in Batches, NEW restart \in BOOLEAN
    PROVE  /\ DOMAIN f \subseteq Targets
           /\ f \in [DOMAIN f -> Policies]
           /\ \A t \in DOMAIN f : profiles[f[t]] # None
           /\ BatchOf(f, restart) \in Batch
<1>1. PICK T \in SUBSET Known : f \in [T -> Policies]
  BY DEF Batches
<1>2. T \subseteq Targets /\ DOMAIN f = T
  BY <1>1 DEF Known
<1>3. \A t \in DOMAIN f : profiles[f[t]] # None
  BY DEF Batches
<1>4. {<<t, f[t]>> : t \in DOMAIN f} \subseteq Targets \X Policies
  BY <1>1, <1>2
<1> QED
  BY <1>1, <1>2, <1>3, <1>4 DEF BatchOf, Batch

LEMMA TokenTyped ==
    ASSUME TypeOK, NEW k \in Tokens,
           \/ TokenExpires(k)
           \/ \E f \in Batches, restart \in BOOLEAN :
                  AskApproval(k, f, restart) \/ WrongBatch(k, f, restart)
    PROVE  TypeOK'
<1>1. StoreOK /\ PolicyOK /\ ReportOK /\ AlertOK /\ SignalOK /\ TokenOK /\ SpentOK
  BY Parts
<1>2. UNCHANGED <<storeVars, policyVars, alertVars, signalVars, report, spent>>
  BY DEF TokenExpires, AskApproval, WrongBatch
<1>3. TokenOK'
  <2>1. CASE TokenExpires(k)
    BY <1>1, <2>1 DEF TokenOK, TokenExpires
  <2>2. ASSUME NEW f \in Batches, NEW restart \in BOOLEAN, AskApproval(k, f, restart)
        PROVE  TokenOK'
    <3>1. BatchOf(f, restart) \in Batch
      BY <1>1, BatchTyped
    <3> QED
      BY <1>1, <2>2, <3>1 DEF TokenOK, AskApproval
  <2>3. ASSUME NEW f \in Batches, NEW restart \in BOOLEAN, WrongBatch(k, f, restart)
        PROVE  TokenOK'
    BY <1>1, <2>3 DEF TokenOK, WrongBatch, Consumed
  <2> QED
    BY <2>1, <2>2, <2>3
<1> QED
  BY <1>1, <1>2, <1>3, Untouched, PartsNext

LEMMA AppliedTyped ==
    ASSUME TypeOK, NEW f \in Batches, NEW restart \in BOOLEAN, Applied(f, restart)
    PROVE  StoreOK' /\ PolicyOK' /\ ReportOK' /\ AlertOK' /\ SignalOK' /\ SpentOK'
<1> DEFINE T == DOMAIN f
           again == IF restart THEN T ELSE {}
           told == Say(Signals, {t \in T : Running(t)}, TRUE, policyOf')
           set == Say(told, Starts(T), FALSE, policyOf')
<1>1. StoreOK /\ PolicyOK /\ ReportOK /\ AlertOK /\ SignalOK /\ SpentOK
  BY Parts
<1>2. /\ T \subseteq Targets /\ f \in [T -> Policies]
      /\ \A t \in T : profiles[f[t]] # None
  BY <1>1, BatchTyped
<1>3. /\ policyOf' = [t \in Targets |-> IF t \in T THEN f[t] ELSE policyOf[t]]
      /\ IsSignals(Say(set, again \cap EnabledIn(store), FALSE, policyOf'))
      /\ sync' = Restarted(again, store) /\ broken' = broken \ again
      /\ Change
      /\ UNCHANGED <<store, saved, unsaved, profiles, alertVars, report>>
  BY DEF Applied
<1> HIDE DEF T
<1>4. policyOf' \in [Targets -> Policies]
  BY <1>1, <1>2, <1>3 DEF PolicyOK
<1>5. /\ profiles \in [Policies -> (SUBSET Demands) \cup {None}]
      /\ profiles[Default] # None
      /\ \A t \in Targets : profiles[policyOf'[t]] # None
  BY <1>1, <1>2, <1>3 DEF PolicyOK
<1>6. PolicyOK'
  BY <1>3, <1>4, <1>5 DEF PolicyOK
<1>7. again \subseteq Targets /\ Starts(T) \subseteq Targets
  BY <1>2 DEF Starts
<1>8. told \in SignalState
  BY <1>1, <1>2, <1>4, <1>5, SignalsTyped, SayTyped
<1>9. set \in SignalState
  BY <1>1, <1>4, <1>5, <1>7, <1>8, SayTyped
<1>10. Say(set, again \cap EnabledIn(store), FALSE, policyOf') \in SignalState
  BY <1>1, <1>4, <1>5, <1>7, <1>9, SayTyped
<1>11. SignalOK'
  BY <1>3, <1>10, IsSignalsTyped
<1>12. Restarted(again, store) \in [Targets -> Options \cup {None}]
  BY <1>1, RestartedTyped DEF StoreOK
<1>13. StoreOK'
  BY <1>1, <1>3, <1>12 DEF StoreOK
<1>14. SpentOK'
  BY <1>1, <1>3, Spending
<1> QED
  BY <1>1, <1>3, <1>6, <1>11, <1>13, <1>14, Untouched

LEMMA BatchApplied ==
    ASSUME TypeOK, NEW f \in Batches, NEW restart \in BOOLEAN,
           \/ ApplyBatch(f, restart)
           \/ \E k \in Tokens : ApplyApproved(k, f, restart)
    PROVE  TypeOK'
<1>1. PolicyOK /\ TokenOK
  BY Parts
<1>2. Applied(f, restart)
  BY DEF ApplyBatch, ApplyApproved
<1>3. TokenOK'
  <2>1. CASE ApplyBatch(f, restart)
    BY <1>1, <2>1, Untouched DEF ApplyBatch
  <2>2. ASSUME NEW k \in Tokens, ApplyApproved(k, f, restart)
        PROVE  TokenOK'
    <3>1. BatchOf(f, restart) \in Batch
      BY <1>1, BatchTyped
    <3>2. Append(used[k], BatchOf(f, restart)) \in Seq(Batch)
      BY <1>1, <3>1 DEF TokenOK
    <3> QED
      BY <1>1, <2>2, <3>2 DEF TokenOK, ApplyApproved, Consumed
  <2> QED
    BY <2>1, <2>2
<1> QED
  BY <1>2, <1>3, AppliedTyped, PartsNext

-----------------------------------------------------------------------------
(* Type correctness *)

LEMMA TypeStep == TypeOK /\ [Next]_vars => TypeOK'
<1> SUFFICES ASSUME TypeOK, [Next]_vars
             PROVE  TypeOK'
  OBVIOUS
<1>1. CASE TargetStep
  BY <1>1, AddTyped, RemoveTyped, RestartAllTyped, ReconcileTyped DEF TargetStep
<1>2. CASE BridgeStep
  BY <1>2, CronSyncTyped, ReportTyped DEF BridgeStep
<1>3. CASE PolicyStep
  BY <1>3, PolicyTyped, TokenTyped, BatchApplied DEF PolicyStep
<1>4. CASE SignalStep
  BY <1>4, TimerTyped, AnswerTyped, SettingsTyped DEF SignalStep
<1>5. CASE Restart
  BY <1>5, RestartTyped
<1>6. CASE UNCHANGED vars
  BY <1>6, Untouched, Parts, PartsNext DEF vars
<1> QED
  BY <1>1, <1>2, <1>3, <1>4, <1>5, <1>6 DEF Next

\* No handler, answer, timer or restart takes a variable out of its type
\* (index.ts, openclaw-sync.ts, openclaw-target.ts); in particular, a target
\* always has a policy that exists.
THEOREM FleetTypeCorrect == Spec => []TypeOK
  BY TypeInit, TypeStep, PTL DEF Spec

-----------------------------------------------------------------------------
(* The sync loops follow the table *)

LEMMA RestartedFollows ==
    ASSUME NEW T, NEW table, NEW t \in T \cap Targets
    PROVE  Restarted(T, table)[t] = IF t \in EnabledIn(table) THEN table[t].options ELSE None
  BY DEF Restarted

LEMMA RestartedKeeps ==
    ASSUME NEW T, NEW table, NEW t \in Targets \ T
    PROVE  Restarted(T, table)[t] = sync[t]
  BY DEF Restarted

LEMMA FollowInit == Init => SyncFollowsStore
<1> SUFFICES ASSUME Init PROVE SyncFollowsStore
  OBVIOUS
<1>1. PICK table \in Tables :
          /\ store = Booted(table, kept).store /\ saved = Booted(table, kept).store
          /\ sync = Booted(table, kept).sync
  BY DEF Init
<1>2. Booted(table, kept).sync =
          [t \in Targets |-> IF t \in EnabledIn(Booted(table, kept).store)
                             THEN Booted(table, kept).store[t].options ELSE None]
  BY DEF Booted
<1> QED
  BY <1>1, <1>2 DEF SyncFollowsStore

\* What a handler must do: rerun the loops of the targets it touches, from
\* the table it leaves, or else own up to it.
LEMMA FollowBy ==
    ASSUME SyncFollowsStore, NEW T,
           ~unsaved' => saved' = store',
           \A t \in Targets \ T : store'[t] = store[t],
           \A t \in Targets \ broken' :
               \/ t \in T /\ sync'[t] = IF t \in EnabledIn(store') THEN store'[t].options ELSE None
               \/ t \notin T /\ t \notin broken /\ sync'[t] = sync[t]
    PROVE  SyncFollowsStore'
<1> SUFFICES ASSUME NEW t \in Targets \ broken'
             PROVE  sync'[t] = IF t \in EnabledIn(store') THEN store'[t].options ELSE None
  BY DEF SyncFollowsStore
<1>1. CASE t \in T
  BY <1>1
<1>2. CASE t \notin T
  <2>1. t \notin broken /\ sync'[t] = sync[t] /\ store'[t] = store[t]
    BY <1>2
  <2>2. t \in EnabledIn(store') <=> t \in EnabledIn(store)
    BY <2>1 DEF EnabledIn
  <2>3. sync[t] = IF t \in EnabledIn(store) THEN store[t].options ELSE None
    BY <2>1 DEF SyncFollowsStore
  <2> QED
    BY <2>1, <2>2, <2>3
<1> QED
  BY <1>1, <1>2

LEMMA FollowKept ==
    ASSUME SyncFollowsStore, UNCHANGED storeVars
    PROVE  SyncFollowsStore'
  BY DEF SyncFollowsStore, storeVars, EnabledIn

LEMMA FollowAdd ==
    ASSUME TypeOK, SyncFollowsStore, NEW t \in Targets, NEW rec \in Record,
           NEW ok \in BOOLEAN, AddTarget(t, rec, ok) \/ PatchTarget(t, rec, ok)
    PROVE  SyncFollowsStore'
<1>1. /\ store' = [store EXCEPT ![t] = rec] /\ unsaved' = ~ok
      /\ saved' = IF ok THEN store' ELSE saved
      /\ \/ ok /\ sync' = Restarted({t}, store') /\ broken' = broken \ {t}
         \/ ~ok /\ broken' = broken \cup {t} /\ sync' = sync
  BY DEF AddTarget, PatchTarget, Written
<1>2. \A u \in Targets \ {t} : store'[u] = store[u]
  BY <1>1, Parts DEF StoreOK
<1>3. CASE sync' = Restarted({t}, store') /\ broken' = broken \ {t}
  <2>1. sync'[t] = IF t \in EnabledIn(store') THEN store'[t].options ELSE None
    BY <1>3, RestartedFollows
  <2>2. \A u \in Targets \ {t} : sync'[u] = sync[u]
    BY <1>3, RestartedKeeps
  <2>3. \A u \in Targets \ broken' :
            \/ /\ u \in {t}
               /\ sync'[u] = IF u \in EnabledIn(store') THEN store'[u].options ELSE None
            \/ u \notin {t} /\ u \notin broken /\ sync'[u] = sync[u]
    BY <1>3, <2>1, <2>2
  <2>4. ~unsaved' => saved' = store'
    BY <1>1
  <2> QED
    BY <1>2, <2>3, <2>4, FollowBy
<1>4. CASE broken' = broken \cup {t} /\ sync' = sync
  BY <1>1, <1>2, <1>4, FollowBy
<1> QED
  BY <1>1, <1>3, <1>4

LEMMA FollowRemove ==
    ASSUME TypeOK, SyncFollowsStore, NEW T, NEW R, NEW last, NEW ok \in BOOLEAN,
           RemoveTargets(T, R, last, ok)
    PROVE  SyncFollowsStore'
<1>1. /\ R \subseteq T /\ T \subseteq Targets /\ (ok => R = T)
      /\ store' = [t \in Targets |-> IF t \in R THEN None ELSE store[t]]
      /\ unsaved' = ~ok /\ (ok => saved' = store')
      /\ sync' = [t \in Targets |-> IF t \in T THEN None ELSE sync[t]]
      /\ broken' = (broken \ R) \cup (T \ R)
  BY DEF RemoveTargets, Known
<1>2. \A t \in R : t \notin EnabledIn(store') /\ sync'[t] = None
  BY <1>1 DEF EnabledIn
<1>3. \A t \in Targets \ R : store'[t] = store[t]
  BY <1>1
<1>4. \A t \in Targets \ T : sync'[t] = sync[t]
  BY <1>1
<1> QED
  BY <1>1, <1>2, <1>3, <1>4, FollowBy

\* Loops that are started again from a table that stays as it is.
LEMMA FollowRestarted ==
    ASSUME SyncFollowsStore, NEW T, sync' = Restarted(T, store), broken' = broken \ T,
           UNCHANGED <<store, saved, unsaved>>
    PROVE  SyncFollowsStore'
<1>1. \A t \in Targets \cap T :
          sync'[t] = IF t \in EnabledIn(store') THEN store'[t].options ELSE None
  BY RestartedFollows
<1>2. \A t \in Targets \ T : sync'[t] = sync[t]
  BY RestartedKeeps
<1>3. ~unsaved' => saved' = store'
  BY DEF SyncFollowsStore
<1> QED
  BY <1>1, <1>2, <1>3, FollowBy

LEMMA FollowRestartAll ==
    ASSUME TypeOK, SyncFollowsStore, RestartAll
    PROVE  SyncFollowsStore'
<1>1. broken' = broken \ Targets
  BY Parts DEF RestartAll, StoreOK
<1> QED
  BY <1>1, FollowRestarted DEF RestartAll

LEMMA FollowCronSync ==
    ASSUME TypeOK, SyncFollowsStore, NEW t \in Targets, NEW config, NEW moved,
           CronSync(t, config, moved)
    PROVE  SyncFollowsStore'
<1> DEFINE table == IF store[t] # None THEN store
                    ELSE [store EXCEPT ![t] = [enabled |-> TRUE, options |-> DefaultOptions]]
           start == {t} \cap EnabledIn(table) \cap Starts(Targets)
<1>1. /\ sync' = Restarted(start, table) /\ broken' = broken \ start
      /\ IF store[t] = None THEN Written(table, TRUE) ELSE UNCHANGED <<store, saved, unsaved>>
  BY DEF CronSync
<1>2. store' = table /\ (~unsaved' => saved' = store')
  BY <1>1 DEF Written, SyncFollowsStore
<1>3. \A u \in Targets \ {t} : store'[u] = store[u] /\ sync'[u] = sync[u]
  <2>1. \A u \in Targets \ {t} : store'[u] = store[u]
    BY <1>2, Parts DEF StoreOK
  <2>2. \A u \in Targets \ {t} : u \notin start
    OBVIOUS
  <2> QED
    BY <1>1, <2>1, <2>2, RestartedKeeps
<1>4. ASSUME t \notin broken'
      PROVE  sync'[t] = IF t \in EnabledIn(store') THEN store'[t].options ELSE None
  <2>1. CASE t \in start
    BY <1>1, <1>2, <2>1, RestartedFollows
  <2>2. CASE t \notin start
    <3>1. sync'[t] = sync[t] /\ t \notin broken
      <4> HIDE DEF start, table
      <4>1. t \in Targets \ start
        BY <2>2
      <4>2. Restarted(start, table)[t] = sync[t]
        BY <4>1, RestartedKeeps
      <4> QED
        BY <1>1, <1>4, <2>2, <4>2
    <3>2. sync[t] = IF t \in EnabledIn(store) THEN store[t].options ELSE None
      BY <3>1 DEF SyncFollowsStore
    <3>3. CASE store[t] # None
      BY <1>2, <3>1, <3>2, <3>3
    <3>4. CASE store[t] = None
      <4>1. sync[t] = None
        BY <3>2, <3>4 DEF EnabledIn
      <4>2. table[t] = [enabled |-> TRUE, options |-> DefaultOptions] /\ table[t] # None
        <5>1. table[t] = [enabled |-> TRUE, options |-> DefaultOptions]
          BY <3>4, Parts DEF StoreOK
        <5>2. [enabled |-> TRUE, options |-> DefaultOptions] \in Record
          BY FleetAssumption DEF FleetAssumption, Record
        <5>3. None \notin Record
          BY FleetAssumption DEF FleetAssumption
        <5> QED
          BY <5>1, <5>2, <5>3
      <4>3. t \in EnabledIn(table)
        BY <4>2 DEF EnabledIn
      <4>4. t \in Starts(Targets)
        BY <4>1 DEF Starts, Running
      <4> QED
        BY <2>2, <4>3, <4>4
    <3> QED
      BY <3>3, <3>4
  <2> QED
    BY <2>1, <2>2
<1> HIDE DEF table, start
<1>5. \A u \in Targets \ broken' : u # t => u \notin broken
  <2>1. start \subseteq {t}
    BY DEF start
  <2> QED
    BY <1>1, <2>1
<1>6. \A u \in Targets \ broken' :
          \/ /\ u \in {t}
             /\ sync'[u] = IF u \in EnabledIn(store') THEN store'[u].options ELSE None
          \/ u \notin {t} /\ u \notin broken /\ sync'[u] = sync[u]
  BY <1>3, <1>4, <1>5
<1> QED
  BY <1>2, <1>3, <1>6, FollowBy

LEMMA FollowStep == TypeOK /\ SyncFollowsStore /\ [Next]_vars => SyncFollowsStore'
<1> SUFFICES ASSUME TypeOK, SyncFollowsStore, [Next]_vars
             PROVE  SyncFollowsStore'
  OBVIOUS
<1>1. CASE TargetStep
  <2>1. ASSUME NEW T \in SUBSET Targets, Reconcile(T)
        PROVE  SyncFollowsStore'
    BY <2>1, FollowRestarted DEF Reconcile
  <2> QED
    BY <1>1, <2>1, FollowAdd, FollowRemove, FollowRestartAll DEF TargetStep
<1>2. CASE BridgeStep
  <2>1. ASSUME NEW t \in Targets, Silent(t) \/ EditMirror(t)
        PROVE  SyncFollowsStore'
    BY <2>1, FollowKept DEF Silent, EditMirror
  <2> QED
    BY <1>2, <2>1, FollowCronSync DEF BridgeStep
<1>3. CASE PolicyStep
  <2>1. ASSUME NEW f, NEW restart, Applied(f, restart)
        PROVE  SyncFollowsStore'
    BY <2>1, FollowRestarted DEF Applied
  <2>2. ASSUME UNCHANGED storeVars
        PROVE  SyncFollowsStore'
    BY <2>2, FollowKept
  <2> QED
    BY <1>3, <2>1, <2>2 DEF PolicyStep, EditPolicy, ApplyPolicy, ApplyBatch, AskApproval,
       WrongBatch, ApplyApproved, TokenExpires
<1>4. CASE SignalStep
  <2>1. UNCHANGED storeVars
    BY <1>4 DEF SignalStep, Refresh, Answer, Delivered, Failed, CooledDown, EditSettings
  <2> QED
    BY <2>1, FollowKept
<1>5. CASE Restart
  <2> DEFINE b == Booted(saved, kept)
  <2>1. store' = b.store /\ saved' = b.store /\ sync' = b.sync
    BY <1>5 DEF Restart
  <2>2. b.sync = [t \in Targets |-> IF t \in EnabledIn(b.store)
                                    THEN b.store[t].options ELSE None]
    BY DEF Booted
  <2> QED
    BY <2>1, <2>2 DEF SyncFollowsStore
<1>6. CASE UNCHANGED vars
  BY <1>6, FollowKept DEF vars
<1> QED
  BY <1>1, <1>2, <1>3, <1>4, <1>5, <1>6 DEF Next

\* However targets are added, changed, removed, reconciled or restarted by
\* operators, bridges and batches, the loops that run are those of the
\* enabled targets, with the table's options, but for changes whose save
\* failed (startTarget, restartTarget, stopTarget, save).
THEOREM LoopsFollowTheTable == Spec => []SyncFollowsStore
<1>1. Init => TypeOK /\ SyncFollowsStore
  BY TypeInit, FollowInit
<1>2. (TypeOK /\ SyncFollowsStore) /\ [Next]_vars => (TypeOK /\ SyncFollowsStore)'
  BY TypeStep, FollowStep
<1> QED
  BY <1>1, <1>2, PTL DEF Spec

-----------------------------------------------------------------------------
(* Tokens let through what they were given for *)

\* A token that was never given has let nothing through.
TokenInv ==
    /\ ApprovedBatches
    /\ \A k \in Tokens : asked[k] = None => used[k] = << >>

LEMMA TokenInit == Init => TokenInv
  BY DEF Init, TokenInv, ApprovedBatches

LEMMA TokenKept ==
    ASSUME TokenInv, UNCHANGED <<asked, used>>,
           \A k \in Tokens : pending'[k] \in {None, pending[k]}
    PROVE  TokenInv'
  BY DEF TokenInv, ApprovedBatches

LEMMA TokenAsk ==
    ASSUME TypeOK, TokenInv, NEW k \in Tokens, NEW f \in Batches, NEW restart \in BOOLEAN,
           AskApproval(k, f, restart)
    PROVE  TokenInv'
<1> DEFINE b == BatchOf(f, restart)
<1>1. PolicyOK /\ TokenOK
  BY Parts
<1>2. b # None
  BY <1>1, BatchTyped, FleetAssumption DEF FleetAssumption
<1>3. /\ asked[k] = None /\ asked' = [asked EXCEPT ![k] = b]
      /\ pending' = [pending EXCEPT ![k] = b] /\ used' = used
  BY DEF AskApproval
<1> HIDE DEF b
<1>4. used[k] = << >>
  BY <1>3 DEF TokenInv
<1>5. asked'[k] = b /\ pending'[k] = b /\ used'[k] = << >>
  BY <1>1, <1>3, <1>4 DEF TokenOK
<1>6. \A j \in Tokens \ {k} :
          asked'[j] = asked[j] /\ pending'[j] = pending[j] /\ used'[j] = used[j]
  BY <1>1, <1>3 DEF TokenOK
<1> QED
  BY <1>2, <1>5, <1>6 DEF TokenInv, ApprovedBatches

LEMMA TokenUsed ==
    ASSUME TypeOK, TokenInv, NEW k \in Tokens, NEW f \in Batches, NEW restart \in BOOLEAN,
           ApplyApproved(k, f, restart)
    PROVE  TokenInv'
<1> DEFINE b == BatchOf(f, restart)
<1>1. PolicyOK /\ TokenOK
  BY Parts
<1>2. b # None
  BY <1>1, BatchTyped, FleetAssumption DEF FleetAssumption
<1>3. /\ pending[k] = b /\ pending' = [pending EXCEPT ![k] = None] /\ asked' = asked
      /\ used' = [used EXCEPT ![k] = Append(used[k], b)]
  BY DEF ApplyApproved, Consumed
<1> HIDE DEF b
<1>4. asked[k] = b /\ used[k] = << >>
  BY <1>2, <1>3 DEF TokenInv, ApprovedBatches
<1>5. Append(used[k], b) = <<b>>
  BY <1>4
<1>6. asked'[k] = b /\ pending'[k] = None /\ used'[k] = <<b>>
  BY <1>1, <1>3, <1>4, <1>5 DEF TokenOK
<1>7. \A j \in Tokens \ {k} :
          asked'[j] = asked[j] /\ pending'[j] = pending[j] /\ used'[j] = used[j]
  BY <1>1, <1>3 DEF TokenOK
<1> QED
  BY <1>2, <1>6, <1>7 DEF TokenInv, ApprovedBatches

LEMMA TokenStep == TypeOK /\ TokenInv /\ [Next]_vars => TokenInv'
<1> SUFFICES ASSUME TypeOK, TokenInv, [Next]_vars
             PROVE  TokenInv'
  OBVIOUS
<1>1. TokenOK
  BY Parts
<1>2. ASSUME UNCHANGED tokenVars
      PROVE  TokenInv'
  BY <1>2, TokenKept DEF tokenVars
<1>3. CASE TargetStep
  <2>1. ASSUME NEW T, NEW R, NEW last, NEW ok, RemoveTargets(T, R, last, ok)
        PROVE  TokenInv'
    <3>1. UNCHANGED <<asked, used>> /\ Forget(R)
      BY <2>1 DEF RemoveTargets
    <3>2. \A k \in Tokens : pending'[k] \in {None, pending[k]}
      BY <3>1 DEF Forget
    <3> QED
      BY <3>1, <3>2, TokenKept
  <2> QED
    BY <1>2, <1>3, <2>1 DEF TargetStep, AddTarget, PatchTarget, RestartAll, Reconcile
<1>4. CASE BridgeStep
  BY <1>2, <1>4 DEF BridgeStep, CronSync, Silent, EditMirror
<1>5. CASE PolicyStep
  <2>1. ASSUME NEW k \in Tokens, pending' = [pending EXCEPT ![k] = None],
               UNCHANGED <<asked, used>>
        PROVE  TokenInv'
    BY <1>1, <2>1, TokenKept DEF TokenOK
  <2> QED
    BY <1>2, <1>5, <2>1, TokenAsk, TokenUsed DEF PolicyStep, EditPolicy, ApplyPolicy,
       ApplyBatch, WrongBatch, TokenExpires, Consumed
<1>6. CASE SignalStep
  BY <1>2, <1>6 DEF SignalStep, Refresh, Answer, Delivered, Failed, CooledDown, EditSettings
<1>7. CASE Restart
  <2>1. UNCHANGED <<asked, used>> /\ pending' = [k \in Tokens |-> None]
    BY <1>7 DEF Restart
  <2> QED
    BY <2>1, TokenKept
<1>8. CASE UNCHANGED vars
  BY <1>2, <1>8 DEF vars
<1> QED
  BY <1>3, <1>4, <1>5, <1>6, <1>7, <1>8 DEF Next

\* A token that an operator confirms lets through the one batch it was given
\* for, once, whatever was previewed, asked, removed or restarted in between
\* (createFleetApproval, consumeFleetApprovalToken).
THEOREM TokensAreForOneBatch == Spec => []ApprovedBatches
<1>1. Init => TypeOK /\ TokenInv
  BY TypeInit, TokenInit
<1>2. (TypeOK /\ TokenInv) /\ [Next]_vars => (TypeOK /\ TokenInv)'
  BY TypeStep, TokenStep
<1>3. TokenInv => ApprovedBatches
  BY DEF TokenInv
<1> QED
  BY <1>1, <1>2, <1>3, PTL DEF Spec

-----------------------------------------------------------------------------
(* What the signatures keep from being posted again *)

\* A request under way tells destination d of problem c.
Carried(s, d, t, k, c) ==
    \E a \in s.posts : a.dest = d /\ a.target = t /\ a.kind = k /\ c \in a.codes

\* A problem that is in a signature is announced no more.
NoneLost(s) ==
    \A d \in Destinations, t \in Targets, k \in Kinds :
        \A c \in s.seen[t][k] : <<d, t, k, c>> \in s.settled \/ Carried(s, d, t, k, c)

\* Nobody counts as told of what is over.
NoneStale(s) == \A p \in s.settled : p[4] \in s.seen[p[2]][p[3]]

ToldState == {s \in SignalState : NoneLost(s) /\ NoneStale(s)}
SeenIsTold == NoneLost(Signals) /\ NoneStale(Signals)

LEMMA SignalsTold == SignalOK /\ SeenIsTold => Signals \in ToldState
  BY SignalsTyped DEF ToldState, SeenIsTold

LEMMA SameSignals ==
    ASSUME SeenIsTold, UNCHANGED signalVars
    PROVE  SeenIsTold'
<1>1. Signals' = Signals
  BY DEF Signals, signalVars
<1> QED
  BY <1>1 DEF SeenIsTold, NoneLost, NoneStale, Carried

LEMMA IsSignalsTold ==
    ASSUME NEW s \in ToldState, IsSignals(s)
    PROVE  SeenIsTold'
<1>1. Signals' = s
  BY DEF Signals, IsSignals, ToldState, SignalState
<1>2. NoneLost(s) /\ NoneStale(s)
  BY DEF ToldState
<1> QED
  BY <1>1, <1>2 DEF SeenIsTold, NoneLost, NoneStale, Carried

\* A list that is posted goes to every destination it is routed to and is
\* settled for the others; one that is not posted is the one already seen.
LEMMA AnnounceTold ==
    ASSUME NEW s \in ToldState, NEW T \in SUBSET Targets, NEW now \in [T -> ProblemList],
           NEW moved, NEW conf, NEW cool
    PROVE  Announce(s, now, moved, conf, cool) \in ToldState
<1> DEFINE new(t, k) == \/ Signature(now[t][k], s.seen[t][k])
                        \/ k = "drift" /\ (t \in moved \/ "sync" \in now[t].drift)
           alerts == {[dest |-> d, kind |-> k, target |-> t, codes |-> now[t][k]] :
                        d \in Destinations, k \in Kinds, t \in DOMAIN now}
           due == {a \in alerts : a.codes # {} /\ new(a.target, a.kind)}
           sent == {a \in due : /\ Routed(conf, a, Rank(a.codes, now[a.target].critical))
                                /\ KeyOf(a) \notin cool}
           lasts(p) == p[2] \in DOMAIN now => p[4] \in now[p[2]][p[3]]
           silent == UNION {ProblemsOf(a, a.codes) : a \in due \ sent}
           shown == [t \in Targets |-> IF t \in DOMAIN now
                       THEN [drift |-> now[t].drift, violation |-> now[t].violation]
                       ELSE s.seen[t]]
           next == [seen |-> shown, posts |-> s.posts \cup sent,
                    settled |-> {p \in s.settled \cup silent : lasts(p)}]
<1>1. Announce(s, now, moved, conf, cool) = next
  BY DEF Announce
<1>2. s \in SignalState /\ NoneLost(s) /\ NoneStale(s)
  BY DEF ToldState
<1>3. Announce(s, now, moved, conf, cool) \in SignalState
  BY <1>2, AnnounceTyped
<1>4. DOMAIN now = T /\ T \subseteq Targets
  OBVIOUS
<1>5. \A t \in T, k \in Kinds : shown[t][k] = now[t][k]
  BY <1>4 DEF Kinds
<1>6. \A t \in Targets \ T : shown[t] = s.seen[t]
  BY <1>4
<1>7. silent \subseteq Problem /\ \A p \in silent : p[2] \in T /\ p[3] \in Kinds
                                                   /\ p[4] \in now[p[2]][p[3]]
  <2> SUFFICES ASSUME NEW a \in due, NEW p \in ProblemsOf(a, a.codes)
               PROVE  /\ p \in Problem /\ p[2] \in T /\ p[3] \in Kinds
                      /\ p[4] \in now[p[2]][p[3]]
    OBVIOUS
  <2>1. PICK d \in Destinations, k \in Kinds, t \in T :
            a = [dest |-> d, kind |-> k, target |-> t, codes |-> now[t][k]]
    OBVIOUS
  <2>2. PICK c \in now[t][k] : p = <<d, t, k, c>>
    BY <2>1 DEF ProblemsOf
  <2>3. now[t] \in ProblemList
    BY <2>1
  <2>4. c \in Codes
    BY <2>2, <2>3 DEF ProblemList, Kinds
  <2> QED
    BY <2>1, <2>2, <2>4 DEF Problem
<1>8. /\ next.seen = shown /\ s.posts \cup sent = next.posts
      /\ next.settled = {p \in s.settled \cup silent : lasts(p)}
  OBVIOUS
<1>9. \A a \in due : a \in sent \/ ProblemsOf(a, a.codes) \subseteq silent
  OBVIOUS
<1>10. \A d \in Destinations, t \in T, k \in Kinds :
         now[t][k] # {} /\ new(t, k) =>
             [dest |-> d, kind |-> k, target |-> t, codes |-> now[t][k]] \in due
  BY <1>4
<1> HIDE DEF shown, alerts, due, sent, silent, next
<1>11. NoneStale(next)
  <2> SUFFICES ASSUME NEW p \in s.settled \cup silent, lasts(p)
               PROVE  p[4] \in shown[p[2]][p[3]]
    BY <1>8 DEF NoneStale
  <2>1. p \in Problem
    BY <1>2, <1>7 DEF SignalState
  <2>2. p[2] \in Targets /\ p[3] \in Kinds
    BY <2>1 DEF Problem
  <2>3. CASE p[2] \in T
    BY <1>4, <1>5, <2>2, <2>3
  <2>4. CASE p[2] \notin T
    <3>1. p \in s.settled
      BY <1>7, <2>4
    <3>2. p[4] \in s.seen[p[2]][p[3]]
      BY <1>2, <3>1 DEF NoneStale
    <3> QED
      BY <1>6, <2>2, <2>4, <3>2
  <2> QED
    BY <2>3, <2>4
<1>12. NoneLost(next)
  <2> SUFFICES ASSUME NEW d \in Destinations, NEW t \in Targets, NEW k \in Kinds,
                      NEW c \in shown[t][k]
               PROVE  <<d, t, k, c>> \in next.settled \/ Carried(next, d, t, k, c)
    BY <1>8, Zenon DEF NoneLost
  <2> DEFINE p == <<d, t, k, c>>
             a == [dest |-> d, kind |-> k, target |-> t, codes |-> now[t][k]]
  <2>1. lasts(p)
    BY <1>4, <1>5
  <2>2. c \in s.seen[t][k] => p \in next.settled \/ Carried(next, d, t, k, c)
    <3> SUFFICES ASSUME c \in s.seen[t][k]
                 PROVE  p \in next.settled \/ Carried(next, d, t, k, c)
      OBVIOUS
    <3>1. p \in s.settled \/ Carried(s, d, t, k, c)
      BY <1>2 DEF NoneLost
    <3>2. Carried(s, d, t, k, c) => Carried(next, d, t, k, c)
      BY <1>8 DEF Carried
    <3> QED
      BY <1>8, <2>1, <3>1, <3>2
  <2>3. CASE t \notin T
    BY <1>6, <2>2, <2>3
  <2>4. CASE t \in T /\ ~new(t, k)
    <3>1. now[t][k] = s.seen[t][k]
      BY <2>4, Zenon DEF Signature
    <3> QED
      BY <1>5, <2>2, <2>4, <3>1
  <2>5. CASE t \in T /\ new(t, k)
    <3>1. c \in now[t][k]
      BY <1>5, <2>5
    <3>2. a \in due
      BY <1>10, <2>5, <3>1
    <3>3. CASE a \in sent
      BY <1>8, <3>1, <3>3 DEF Carried
    <3>4. CASE ProblemsOf(a, a.codes) \subseteq silent
      <4>1. p \in ProblemsOf(a, a.codes)
        BY <3>1 DEF ProblemsOf
      <4> QED
        BY <1>8, <2>1, <3>4, <4>1
    <3> QED
      BY <1>9, <3>2, <3>3, <3>4
  <2> QED
    BY <2>3, <2>4, <2>5
<1> QED
  BY <1>1, <1>3, <1>11, <1>12 DEF ToldState

LEMMA SayTold ==
    ASSUME ReportOK, NEW s \in ToldState, NEW T \in SUBSET Targets, NEW running,
           NEW of \in [Targets -> Policies],
           profiles \in [Policies -> (SUBSET Demands) \cup {None}],
           \A t \in T : profiles[of[t]] # None
    PROVE  Say(s, T, running, of) \in ToldState
<1> DEFINE now == [t \in T |-> Problems(running, report[t], profiles[of[t]])]
<1>1. now \in [T -> ProblemList]
  <2> SUFFICES ASSUME NEW t \in T
               PROVE  Problems(running, report[t], profiles[of[t]]) \in ProblemList
    OBVIOUS
  <2>1. report[t] \in Report
    BY DEF ReportOK
  <2>2. profiles[of[t]] \in SUBSET Demands
    <3>1. of[t] \in Policies
      OBVIOUS
    <3> QED
      BY <3>1
  <2> QED
    BY <2>1, <2>2, ProblemsTyped
<1>2. Announce(s, now, {}, settings, cooling) \in ToldState
  BY <1>1, AnnounceTold
<1> QED
  BY <1>2, Zenon DEF Say

LEMMA SayOfTold ==
    ASSUME PolicyOK, ReportOK, NEW s \in ToldState, NEW T \in SUBSET Targets, NEW running
    PROVE  Say(s, T, running, policyOf) \in ToldState
  BY SayTold DEF PolicyOK

LEMMA BootedTold ==
    ASSUME NEW table, NEW conf
    PROVE  Booted(table, conf).signals \in ToldState
<1> DEFINE fresh == [t \in Targets |->
                      IF t = Local THEN [enabled |-> TRUE, options |-> DefaultOptions] ELSE None]
           all == IF \A t \in Targets : table[t] = None THEN fresh ELSE table
           on == EnabledIn(all)
           silent == [heard |-> FALSE, config |-> FALSE, silence |-> 0]
           nothing == [seen |-> [t \in Targets |-> Unseen], posts |-> {}, settled |-> {}]
           now == [t \in on |-> Problems(FALSE, silent, DefaultDemands)]
<1>1. nothing \in ToldState
  <2>1. nothing \in SignalState
    BY DEF SignalState, Unseen
  <2>2. \A t \in Targets, k \in Kinds : nothing.seen[t][k] = {}
    BY DEF Unseen, Kinds
  <2>3. NoneLost(nothing)
    BY <2>2 DEF NoneLost
  <2>4. NoneStale(nothing)
    BY DEF NoneStale
  <2> QED
    BY <2>1, <2>3, <2>4 DEF ToldState
<1>2. on \in SUBSET Targets
  BY DEF EnabledIn
<1>3. silent \in Report /\ DefaultDemands \in SUBSET Demands
  BY FleetAssumption DEF FleetAssumption, Report
<1> HIDE DEF on, nothing, silent
<1>4. now \in [on -> ProblemList]
  BY <1>3, ProblemsTyped
<1>5. Announce(nothing, now, {}, conf, {}) \in ToldState
  BY <1>1, <1>2, <1>4, AnnounceTold
<1>6. Booted(table, conf).signals = Announce(nothing, now, {}, conf, {})
  BY DEF Booted, on, nothing, silent
<1> QED
  BY <1>5, <1>6

LEMMA ToldInit == Init => SeenIsTold
<1> SUFFICES ASSUME Init PROVE SeenIsTold
  OBVIOUS
<1>1. PICK table \in Tables :
          /\ seen = Booted(table, kept).signals.seen
          /\ posts = Booted(table, kept).signals.posts
          /\ settled = Booted(table, kept).signals.settled
  BY DEF Init
<1>2. Booted(table, kept).signals \in ToldState
  BY BootedTold
<1>3. Signals = Booted(table, kept).signals
  BY <1>1, <1>2 DEF Signals, ToldState, SignalState
<1> QED
  BY <1>2, <1>3 DEF SeenIsTold, ToldState

\* An answer settles what the alert told and is still so.
LEMMA AnswerTold ==
    ASSUME TypeOK, SeenIsTold, NEW a \in posts, Answer(a)
    PROVE  SeenIsTold'
<1>1. seen' = seen /\ posts' = posts \ {a} /\ settled' = settled \cup Lasting(a)
  BY DEF Answer, Delivered, Failed
<1>2. a \in Alert
  BY DEF TypeOK
<1>3. NoneLost(Signals')
  <2> SUFFICES ASSUME NEW d \in Destinations, NEW t \in Targets, NEW k \in Kinds,
                      NEW c \in seen[t][k]
               PROVE  \/ <<d, t, k, c>> \in settled'
                      \/ Carried(Signals', d, t, k, c)
    BY <1>1 DEF NoneLost, Signals
  <2>1. CASE <<d, t, k, c>> \in settled
    BY <1>1, <2>1
  <2>2. CASE Carried(Signals, d, t, k, c)
    <3>1. PICK b \in posts : b.dest = d /\ b.target = t /\ b.kind = k /\ c \in b.codes
      BY <2>2 DEF Carried, Signals
    <3>2. CASE b = a
      <4>1. <<d, t, k, c>> \in Lasting(a)
        BY <3>1, <3>2 DEF Lasting, ProblemsOf
      <4> QED
        BY <1>1, <4>1
    <3>3. CASE b # a
      BY <1>1, <3>1, <3>3 DEF Carried, Signals
    <3> QED
      BY <3>2, <3>3
  <2> QED
    BY <2>1, <2>2 DEF SeenIsTold, NoneLost, Signals
<1>4. NoneStale(Signals')
  <2> SUFFICES ASSUME NEW p \in settled \cup Lasting(a)
               PROVE  p[4] \in seen[p[2]][p[3]]
    BY <1>1 DEF NoneStale, Signals
  <2>1. CASE p \in settled
    BY <2>1 DEF SeenIsTold, NoneStale, Signals
  <2>2. CASE p \in Lasting(a)
    BY <2>2 DEF Lasting, ProblemsOf
  <2> QED
    BY <2>1, <2>2
<1> QED
  BY <1>3, <1>4 DEF SeenIsTold, NoneLost, NoneStale, Carried, Signals

\* What is forgotten of a target that is removed is forgotten on both sides.
LEMMA ForgetTold ==
    ASSUME TypeOK, SeenIsTold, NEW R, Forget(R)
    PROVE  SeenIsTold'
<1>1. /\ seen' = [t \in Targets |-> IF t \in R THEN Unseen ELSE seen[t]]
      /\ posts' = {a \in posts : a.target \notin R}
      /\ settled' = {p \in settled : p[2] \notin R}
  BY DEF Forget
<1>2. \A t \in Targets, k \in Kinds :
        IF t \in R THEN seen'[t][k] = {} ELSE seen'[t][k] = seen[t][k]
  BY <1>1 DEF Unseen, Kinds
<1>3. NoneLost(Signals')
  <2> SUFFICES ASSUME NEW d \in Destinations, NEW t \in Targets, NEW k \in Kinds,
                      NEW c \in seen'[t][k]
               PROVE  \/ <<d, t, k, c>> \in settled'
                      \/ Carried(Signals', d, t, k, c)
    BY DEF NoneLost, Signals
  <2>1. t \notin R /\ c \in seen[t][k]
    BY <1>2
  <2>2. <<d, t, k, c>> \in settled \/ Carried(Signals, d, t, k, c)
    BY <2>1 DEF SeenIsTold, NoneLost, Signals
  <2>3. Carried(Signals, d, t, k, c) => Carried(Signals', d, t, k, c)
    BY <1>1, <2>1 DEF Carried, Signals
  <2> QED
    BY <1>1, <2>1, <2>2, <2>3
<1>4. NoneStale(Signals')
  <2> SUFFICES ASSUME NEW p \in settled, p[2] \notin R
               PROVE  p[4] \in seen'[p[2]][p[3]]
    BY <1>1 DEF NoneStale, Signals
  <2>1. p[2] \in Targets /\ p[3] \in Kinds
    BY DEF TypeOK, Problem
  <2> QED
    BY <1>2, <2>1 DEF SeenIsTold, NoneStale, Signals
<1> QED
  BY <1>3, <1>4 DEF SeenIsTold, NoneLost, NoneStale, Carried, Signals

LEMMA CronSyncTold ==
    ASSUME TypeOK, SeenIsTold, NEW t \in Targets, NEW config \in BOOLEAN,
           NEW moved \in BOOLEAN, CronSync(t, config, moved)
    PROVE  SeenIsTold'
<1> DEFINE table == IF store[t] # None THEN store
                    ELSE [store EXCEPT ![t] = [enabled |-> TRUE, options |-> DefaultOptions]]
           start == {t} \cap EnabledIn(table) \cap Starts(Targets)
           loops == Restarted(start, table)
           beat == [heard |-> TRUE, config |-> config, silence |-> 0]
           demands == profiles[policyOf[t]]
           said == Say(Signals, start, FALSE, policyOf)
           now == [u \in {t} |-> Problems(loops[t] # None, beat, demands)]
<1>1. PolicyOK /\ ReportOK /\ SignalOK
  BY Parts
<1>2. IsSignals(Announce(said, now, IF moved THEN {t} ELSE {}, settings, cooling))
  BY DEF CronSync
<1>3. start \in SUBSET Targets /\ {t} \in SUBSET Targets
  OBVIOUS
<1>4. beat \in Report
  BY DEF Report
<1>5. demands \in SUBSET Demands
  <2>1. policyOf[t] \in Policies /\ profiles[policyOf[t]] # None
    BY <1>1 DEF PolicyOK
  <2> QED
    BY <1>1, <2>1 DEF PolicyOK
<1> HIDE DEF table, start, loops, beat, demands
<1>6. now \in [{t} -> ProblemList]
  BY <1>4, <1>5, ProblemsTyped
<1>7. said \in ToldState
  BY <1>1, <1>3, SignalsTold, SayOfTold
<1> HIDE DEF said, now
<1>8. Announce(said, now, IF moved THEN {t} ELSE {}, settings, cooling) \in ToldState
  BY <1>3, <1>6, <1>7, AnnounceTold
<1> QED
  BY <1>2, <1>8, IsSignalsTold

LEMMA AppliedTold ==
    ASSUME TypeOK, SeenIsTold, NEW f \in Batches, NEW restart \in BOOLEAN,
           Applied(f, restart)
    PROVE  SeenIsTold'
<1> DEFINE T == DOMAIN f
           again == IF restart THEN T ELSE {}
           told == Say(Signals, {t \in T : Running(t)}, TRUE, policyOf')
           set == Say(told, Starts(T), FALSE, policyOf')
<1>1. PolicyOK /\ ReportOK /\ SignalOK
  BY Parts
<1>2. T \subseteq Targets
  BY <1>1, BatchTyped
<1>3. IsSignals(Say(set, again \cap EnabledIn(store), FALSE, policyOf'))
  BY DEF Applied
<1>4. PolicyOK' /\ profiles' = profiles
  BY AppliedTyped DEF Applied
<1>5. /\ policyOf' \in [Targets -> Policies]
      /\ profiles \in [Policies -> (SUBSET Demands) \cup {None}]
      /\ \A t \in Targets : profiles[policyOf'[t]] # None
  BY <1>4 DEF PolicyOK
<1>6. again \subseteq Targets /\ Starts(T) \subseteq Targets
  BY <1>2 DEF Starts
<1> HIDE DEF T
<1>7. told \in ToldState
  BY <1>1, <1>2, <1>5, SignalsTold, SayTold
<1>8. set \in ToldState
  BY <1>1, <1>5, <1>6, <1>7, SayTold
<1>9. Say(set, again \cap EnabledIn(store), FALSE, policyOf') \in ToldState
  BY <1>1, <1>5, <1>6, <1>8, SayTold
<1> QED
  BY <1>3, <1>9, IsSignalsTold

LEMMA ApplyPolicyTold ==
    ASSUME TypeOK, SeenIsTold, NEW t \in Targets, NEW p \in Policies, ApplyPolicy(t, p)
    PROVE  SeenIsTold'
<1>1. PolicyOK /\ ReportOK /\ SignalOK
  BY Parts
<1>2. /\ policyOf' \in [Targets -> Policies] /\ profiles[policyOf'[t]] # None
      /\ profiles \in [Policies -> (SUBSET Demands) \cup {None}]
  BY <1>1 DEF PolicyOK, ApplyPolicy
<1>3. Say(Signals, {t}, Running(t), policyOf') \in ToldState
  BY <1>1, <1>2, SignalsTold, SayTold
<1> QED
  BY <1>3, IsSignalsTold DEF ApplyPolicy

LEMMA TargetTold ==
    ASSUME TypeOK, SeenIsTold, TargetStep
    PROVE  SeenIsTold'
<1>1. PolicyOK /\ ReportOK /\ Signals \in ToldState
  BY Parts, SignalsTold
<1>2. ASSUME NEW t \in Targets, NEW rec \in Record, NEW ok \in BOOLEAN,
             AddTarget(t, rec, ok) \/ PatchTarget(t, rec, ok)
      PROVE  SeenIsTold'
  <2>1. \/ IsSignals(Say(Signals, {t} \cap EnabledIn(store'), FALSE, policyOf))
        \/ UNCHANGED signalVars
    BY <1>2 DEF AddTarget, PatchTarget
  <2>2. Say(Signals, {t} \cap EnabledIn(store'), FALSE, policyOf) \in ToldState
    BY <1>1, SayOfTold
  <2> QED
    BY <2>1, <2>2, IsSignalsTold, SameSignals
<1>3. ASSUME NEW T, NEW R, NEW last, NEW ok, RemoveTargets(T, R, last, ok)
      PROVE  SeenIsTold'
  BY <1>3, ForgetTold DEF RemoveTargets
<1>4. ASSUME RestartAll
      PROVE  SeenIsTold'
  <2>1. Say(Signals, EnabledIn(store), FALSE, policyOf) \in ToldState
    BY <1>1, EnabledAreTargets, SayOfTold
  <2> QED
    BY <1>4, <2>1, IsSignalsTold DEF RestartAll
<1>5. ASSUME NEW T \in SUBSET Targets, Reconcile(T)
      PROVE  SeenIsTold'
  <2> DEFINE on == T \cap EnabledIn(store)
             started == Say(Signals, on, FALSE, policyOf)
             running == Say(started, on, TRUE, policyOf)
  <2>1. IsSignals(Say(running, T \ on, FALSE, policyOf))
    BY <1>5 DEF Reconcile
  <2>2. on \in SUBSET Targets /\ T \ on \in SUBSET Targets
    OBVIOUS
  <2> HIDE DEF on
  <2>3. started \in ToldState
    BY <1>1, <2>2, SayOfTold
  <2>4. running \in ToldState
    BY <1>1, <2>2, <2>3, SayOfTold
  <2>5. Say(running, T \ on, FALSE, policyOf) \in ToldState
    BY <1>1, <2>2, <2>4, SayOfTold
  <2> QED
    BY <2>1, <2>5, IsSignalsTold
<1> QED
  BY <1>2, <1>3, <1>4, <1>5 DEF TargetStep

LEMMA PolicyTold ==
    ASSUME TypeOK, SeenIsTold, PolicyStep
    PROVE  SeenIsTold'
<1>1. ASSUME NEW p \in Policies, NEW demands \in DemandChoices, EditPolicy(p, demands)
      PROVE  SeenIsTold'
  BY <1>1, SameSignals DEF EditPolicy
<1>2. ASSUME NEW f \in Batches, NEW restart \in BOOLEAN,
             \/ ApplyBatch(f, restart)
             \/ \E k \in Tokens : ApplyApproved(k, f, restart)
      PROVE  SeenIsTold'
  BY <1>2, AppliedTold DEF ApplyBatch, ApplyApproved
<1>3. ASSUME NEW f \in Batches, NEW restart \in BOOLEAN, NEW k \in Tokens,
             AskApproval(k, f, restart) \/ WrongBatch(k, f, restart)
      PROVE  SeenIsTold'
  BY <1>3, SameSignals DEF AskApproval, WrongBatch
<1>4. ASSUME NEW k \in Tokens, TokenExpires(k)
      PROVE  SeenIsTold'
  BY <1>4, SameSignals DEF TokenExpires
<1> QED
  BY <1>1, <1>2, <1>3, <1>4, ApplyPolicyTold DEF PolicyStep

LEMMA SignalTold ==
    ASSUME TypeOK, SeenIsTold, SignalStep
    PROVE  SeenIsTold'
<1>1. PolicyOK /\ ReportOK /\ Signals \in ToldState
  BY Parts, SignalsTold
<1>2. ASSUME NEW t \in Targets, Refresh(t)
      PROVE  SeenIsTold'
  <2>1. Say(Signals, {t}, TRUE, policyOf) \in ToldState
    BY <1>1, SayOfTold
  <2> QED
    BY <1>2, <2>1, IsSignalsTold DEF Refresh
<1>3. ASSUME NEW k \in cooling, CooledDown(k)
      PROVE  SeenIsTold'
  BY <1>3, SameSignals DEF CooledDown
<1>4. ASSUME NEW new \in SettingChoices, NEW ok \in BOOLEAN, EditSettings(new, ok)
      PROVE  SeenIsTold'
  BY <1>4, SameSignals DEF EditSettings
<1> QED
  BY <1>2, <1>3, <1>4, AnswerTold DEF SignalStep

LEMMA ToldStep == TypeOK /\ SeenIsTold /\ [Next]_vars => SeenIsTold'
<1> SUFFICES ASSUME TypeOK, SeenIsTold, [Next]_vars
             PROVE  SeenIsTold'
  OBVIOUS
<1>1. CASE BridgeStep
  <2>1. ASSUME NEW t \in Targets, Silent(t) \/ EditMirror(t)
        PROVE  SeenIsTold'
    BY <2>1, SameSignals DEF Silent, EditMirror
  <2> QED
    BY <1>1, <2>1, CronSyncTold DEF BridgeStep
<1>2. CASE Restart
  BY <1>2, BootedTold, IsSignalsTold DEF Restart
<1>3. CASE UNCHANGED vars
  BY <1>3, SameSignals DEF vars
<1> QED
  BY <1>1, <1>2, <1>3, TargetTold, PolicyTold, SignalTold DEF Next

\* A problem that a signature holds is posted no more
\* (maybeBroadcastFleetTargetSignals), so what is in it must have been dealt
\* with: each destination was told of it, was kept from it by the settings, a
\* cooldown or a failed request, or has a request on its way that names it.
\* And nothing that is over counts as told, so that it is told when it is back.
THEOREM SignaturesAreAccountedFor == Spec => []SeenIsTold
<1>1. (TypeOK /\ SeenIsTold) /\ [Next]_vars => (TypeOK /\ SeenIsTold)'
  BY TypeStep, ToldStep
<1> QED
  BY TypeInit, ToldInit, <1>1, PTL DEF Spec

-----------------------------------------------------------------------------
(***************************************************************************)
(* BridgeSetup.  SetupShape says how bridges, workers and clients belong   *)
(* together; OwnInv, OneInv and TrueInv are the inductive invariants of    *)
(* the three safety properties, each resting on the ones before it.  What  *)
(* the 22 actions of a worker do is first gathered in Step, so that the    *)
(* invariants have one case for all of them.                               *)
(***************************************************************************)

(* What a step of a worker may change                                      *)

Exists(o) == bridge[o].status # "none"

LEMMA SetupNumbers ==
    /\ \A k \in Clients : k # 0 /\ k \in Workers /\ k \notin Calls
    /\ \A c \in Calls : c \in Workers /\ c \notin Clients
    /\ \A o \in Setups : o # 0 /\ o \in 0 .. MaxSetups
    /\ \A k \in Clients : k \in 0 .. MaxClients
    /\ \A k \in 0 .. MaxClients : k # 0 => k \in Clients
    /\ \A o \in 0 .. MaxSetups : o # 0 => o \in Setups
    /\ 0 \in 0 .. MaxClients /\ 0 \in 0 .. MaxSetups
BY SetupAssumption DEF Workers, Clients, Setups

\* The bridge of a worker that ends or goes on keeps its client and stays in use.
\* A retry is due only at the end of a setup that failed, and is noted with it; an
\* operator's input is wanted for only there.
Keeps(w, o) ==
    /\ bridge' \in [Setups -> ActiveBridge] /\ timers' \in [Setups -> Nat]
    /\ \A p \in Setups \ {o} : bridge'[p] = bridge[p] /\ timers'[p] = timers[p]
    /\ bridge'[o].client = bridge[o].client /\ bridge'[o].closing = bridge[o].closing
    /\ bridge'[o].status # "none"
    /\ \/ timers'[o] = timers[o] \/ timers'[o] = 0
       \/ /\ timers'[o] = 1 /\ bridge'[o].status = "error" /\ ~bridge[o].closing
          /\ w \in Clients /\ work'[w].at = "ended" /\ heard' = heard
    /\ w \in Calls => timers' = timers /\ heard' = heard
    /\ \/ bridge'[o].pending => bridge[o].pending
       \/ /\ w \in Clients /\ work'[w].at = "ended" /\ heard' = heard
          /\ bridge[o].closing \/ timers'[o] = 0

\* What a worker that ended leaves is no phase of its work.
Told(w, o) ==
    /\ work'[w].at = "ended" /\ ~bridge[o].closing =>
          \/ bridge'[o].status \notin Busy
          \/ bridge[o].client \in unheard'
          \/ work[w].at = "verifying" /\ bridge'[o].status = bridge[o].status
    /\ work'[w].at = "verifying" => bridge'[o].status \notin Busy

\* Only its own session, if it is a setup.
Linked(w, o) ==
    /\ link' \in [Clients -> Links]
    /\ \A k \in Clients : k # w => link'[k] = link[k]
    /\ orphans' = orphans \/ (w \in Clients /\ orphans' = orphans \cup {w})
    /\ w \in Clients =>
          \/ link'[w] = link[w]
          \/ /\ link'[w] = "connecting"
             /\ w \notin orphans' => bridge[o].client = w /\ ~bridge[o].closing
          \/ link[w] = "connecting" /\ link'[w] = "up"
          \/ /\ link'[w] = "gone"
             /\ ~bridge[o].closing => work'[w].at = "ended" /\ bridge'[o].status = "error"

Moves(w) ==
    /\ work' \in [Workers -> Worker]
    /\ \A v \in Workers \ {w} : work'[v] = work[v]
    /\ work'[w].of = work[w].of
    /\ work'[w].at \in {"ended"} \cup (Awaits \ {"resolving"})
    /\ UNCHANGED <<current, owner, crossed>>
    /\ \/ heard' = heard
       \/ w \in Clients /\ heard' = heard \cup {w} /\ work'[w].at = "ended"
    /\ faults' \in 0 .. MaxFailures
    /\ unheard' = unheard \/ unheard' = unheard \cup {bridge[work[w].of].client}

Step(w) ==
    /\ w \in Workers /\ work[w].at \in Awaits
    /\ Moves(w)
    /\ Keeps(w, work[w].of) /\ Told(w, work[w].of) /\ Linked(w, work[w].of)

\* What every bridge, worker and client have to do with each other.
OfBridge(o) ==
    /\ Exists(o) => bridge[o].client \in Clients /\ owner[bridge[o].client] = o
    /\ ~Exists(o) => timers[o] = 0 /\ ~bridge[o].pending /\ ~bridge[o].closing

OfWorker(w) ==
    /\ work[w].at = "none" <=> work[w].of = 0
    /\ work[w].of # 0 => Exists(work[w].of)

OfClient(k) ==
    /\ owner[k] = work[k].of
    /\ work[k].at \in {"none", "resolving"} => link[k] = "new"
    /\ k \in heard => work[k].at = "ended"

SetupShape ==
    /\ SetupTypeOK
    /\ \A o \in Setups : OfBridge(o)
    /\ \A w \in Workers : OfWorker(w)
    /\ \A k \in Clients : OfClient(k)

LEMMA ShapeFacts ==
    ASSUME SetupShape, NEW w \in Workers, work[w].at \in Awaits
    PROVE  /\ work[w].of \in Setups /\ Exists(work[w].of)
           /\ bridge[work[w].of].client \in Clients
           /\ bridge[work[w].of] \in ActiveBridge /\ work[w] \in Worker
<1>1. work[w] \in Worker /\ work[w].of \in 0 .. MaxSetups /\ work[w].of # 0
  BY DEF SetupShape, OfBridge, OfWorker, OfClient, SetupTypeOK, Worker, Awaits
<1>2. work[w].of \in Setups
  BY <1>1, SetupNumbers
<1> QED
  BY <1>1, <1>2 DEF SetupShape, OfBridge, OfWorker, OfClient, SetupTypeOK

LEMMA GoMoves ==
    ASSUME SetupTypeOK, NEW w \in Workers, NEW place \in {"ended"} \cup (Awaits \ {"resolving"}),
           NEW on \in 0 .. MaxClients, Go(w, place, on)
    PROVE  /\ work' \in [Workers -> Worker]
           /\ \A v \in Workers \ {w} : work'[v] = work[v]
           /\ work'[w].of = work[w].of /\ work'[w].at = place
<1>1. work \in [Workers -> Worker]
  BY DEF SetupTypeOK
<1>2. [work[w] EXCEPT !.at = place, !.on = on] \in Worker
  BY <1>1 DEF Worker
<1>3. work' = [work EXCEPT ![w] = [work[w] EXCEPT !.at = place, !.on = on]]
  BY <1>1 DEF Go
<1>4. work'[w] = [work[w] EXCEPT !.at = place, !.on = on]
  BY <1>1, <1>3
<1> QED
  BY <1>1, <1>2, <1>3, <1>4 DEF Worker

LEMMA EndMoves ==
    ASSUME SetupTypeOK, NEW w \in Workers, End(w)
    PROVE  /\ work' \in [Workers -> Worker]
           /\ \A v \in Workers \ {w} : work'[v] = work[v]
           /\ work'[w].of = work[w].of /\ work'[w].at = "ended"
BY GoMoves, SetupNumbers DEF End

LEMMA OnType == \A k \in 0 .. MaxClients : On(k) \in 0 .. MaxClients
BY SetupNumbers DEF On

\* The bridge of o, and that of no other, has another status.
LEMMA ErroredKept ==
    ASSUME SetupTypeOK, NEW o \in Setups, Exists(o), NEW transient \in BOOLEAN,
           Errored(o, transient)
    PROVE  /\ bridge' \in [Setups -> ActiveBridge] /\ timers' \in [Setups -> Nat]
           /\ \A p \in Setups \ {o} : bridge'[p] = bridge[p] /\ timers'[p] = timers[p]
           /\ bridge'[o].client = bridge[o].client /\ bridge'[o].closing = bridge[o].closing
           /\ bridge'[o].status # "none" /\ bridge'[o].pending = bridge[o].pending
           /\ bridge[o].closing => bridge' = bridge /\ timers' = timers
           /\ ~bridge[o].closing => bridge'[o].status = "error"
           /\ timers'[o] = timers[o] \/ (timers'[o] = 1 /\ ~bridge[o].closing /\ ~bridge[o].pending)
<1>1. /\ bridge \in [Setups -> ActiveBridge] /\ timers \in [Setups -> Nat]
      /\ bridge[o] \in ActiveBridge /\ MaxAttempts \in Nat
  BY SetupAssumption DEF SetupTypeOK
<1>2. CASE bridge[o].closing
  BY <1>1, <1>2 DEF Errored, Exists
<1>3. CASE ~bridge[o].closing
  <2> DEFINE n == IF Retried(o, transient) THEN 1 ELSE 0
             next == [bridge[o] EXCEPT !.status = "error",
                                       !.retryAttempt = bridge[o].retryAttempt + n]
  <2>1. bridge' = [bridge EXCEPT ![o] = next]
    BY <1>1, <1>3 DEF Errored
  <2>2. timers' = [timers EXCEPT ![o] = IF n = 1 THEN 1 ELSE timers[o]]
    BY <1>1, <1>3 DEF Errored
  <2>3. bridge[o].retryAttempt + n \in 0 .. MaxAttempts
    BY <1>1 DEF Retried, ActiveBridge
  <2>4. next \in ActiveBridge
    BY <1>1, <2>3 DEF ActiveBridge, Phases
  <2>5. next.status = "error" /\ next.client = bridge[o].client /\ next.closing = bridge[o].closing
        /\ next.pending = bridge[o].pending
    BY <1>1 DEF ActiveBridge
  <2>6. n = 1 => ~bridge[o].pending
    BY DEF Retried
  <2> HIDE DEF next, n
  <2> QED
    BY <1>1, <1>3, <2>1, <2>2, <2>4, <2>5, <2>6
<1> QED
  BY <1>2, <1>3

LEMMA FaultType ==
    ASSUME SetupTypeOK, Fault \/ NoFault
    PROVE  faults' \in 0 .. MaxFailures
BY SetupAssumption DEF SetupTypeOK, Fault, NoFault

LEMMA MayFailType ==
    ASSUME SetupTypeOK, NEW w, MayFail(w)
    PROVE  faults' \in 0 .. MaxFailures
BY FaultType DEF MayFail

LEMMA BridgeKept ==
    ASSUME SetupTypeOK, NEW o \in Setups, NEW b \in ActiveBridge,
           bridge' = [bridge EXCEPT ![o] = b]
    PROVE  /\ bridge' \in [Setups -> ActiveBridge] /\ bridge'[o] = b
           /\ \A p \in Setups \ {o} : bridge'[p] = bridge[p]
BY DEF SetupTypeOK

\* A status set, a pending input used up.
LEMMA StatusKept ==
    ASSUME SetupTypeOK, NEW o \in Setups, NEW status \in Phases, Status(o, status)
    PROVE  /\ bridge' \in [Setups -> ActiveBridge]
           /\ \A p \in Setups \ {o} : bridge'[p] = bridge[p]
           /\ bridge'[o].client = bridge[o].client /\ bridge'[o].closing = bridge[o].closing
           /\ bridge'[o].pending = bridge[o].pending
           /\ bridge'[o].status = status /\ status # "none"
<1> DEFINE b == [bridge[o] EXCEPT !.status = status]
<1>1. bridge \in [Setups -> ActiveBridge] /\ bridge[o] \in ActiveBridge
  BY DEF SetupTypeOK
<1>2. b \in ActiveBridge /\ b.client = bridge[o].client /\ b.closing = bridge[o].closing
      /\ b.pending = bridge[o].pending /\ b.status = status
  BY <1>1 DEF ActiveBridge
<1>3. bridge' = [bridge EXCEPT ![o] = b]
  BY <1>1 DEF Status
<1>4. status # "none"
  BY DEF Phases, Busy, Resting
<1> HIDE DEF b
<1> QED
  BY <1>2, <1>3, <1>4, BridgeKept

LEMMA NotPendingKept ==
    ASSUME SetupTypeOK, NEW o \in Setups, NotPending(o)
    PROVE  /\ bridge' \in [Setups -> ActiveBridge]
           /\ \A p \in Setups \ {o} : bridge'[p] = bridge[p]
           /\ bridge'[o].client = bridge[o].client /\ bridge'[o].closing = bridge[o].closing
           /\ bridge'[o].pending = FALSE /\ bridge'[o].status = bridge[o].status
<1> DEFINE b == [bridge[o] EXCEPT !.pending = FALSE]
<1>1. bridge \in [Setups -> ActiveBridge] /\ bridge[o] \in ActiveBridge
  BY DEF SetupTypeOK
<1>2. b \in ActiveBridge /\ b.client = bridge[o].client /\ b.closing = bridge[o].closing
      /\ b.pending = FALSE /\ b.status = bridge[o].status
  BY <1>1 DEF ActiveBridge
<1>3. bridge' = [bridge EXCEPT ![o] = b]
  BY <1>1 DEF NotPending
<1> HIDE DEF b
<1> QED
  BY <1>2, <1>3, BridgeKept

\* The end of runSetup, and of a route.
LEMMA FinishedKept ==
    ASSUME SetupShape, NEW w \in Workers, work[w].at \in Awaits, NEW status \in Phases,
           Finished(w, status)
    PROVE  /\ Keeps(w, work[w].of)
           /\ work' \in [Workers -> Worker]
           /\ \A v \in Workers \ {w} : work'[v] = work[v]
           /\ work'[w].of = work[w].of /\ work'[w].at = "ended"
           /\ heard' = heard \/ (w \in Clients /\ heard' = heard \cup {w})
           /\ bridge'[work[w].of].status = status
<1> DEFINE o == work[w].of
<1>1. o \in Setups /\ Exists(o) /\ bridge[o] \in ActiveBridge
  BY ShapeFacts
<1>2. SetupTypeOK
  BY DEF SetupShape, OfBridge, OfWorker, OfClient
<1>3. End(w)
  BY DEF Finished
<1>4. /\ work' \in [Workers -> Worker] /\ \A v \in Workers \ {w} : work'[v] = work[v]
      /\ work'[w].of = o /\ work'[w].at = "ended"
  BY <1>2, <1>3, EndMoves
<1>5. CASE w \in Clients
  <2> DEFINE b == [bridge[o] EXCEPT !.status = status, !.retryAttempt = 0]
  <2>1. bridge' = [bridge EXCEPT ![o] = b] /\ timers' = [timers EXCEPT ![o] = 0]
        /\ heard' = heard \cup {w}
    BY <1>1, <1>2, <1>5 DEF Finished, SetupTypeOK
  <2>2. b \in ActiveBridge /\ b.client = bridge[o].client /\ b.closing = bridge[o].closing
        /\ b.pending = bridge[o].pending /\ b.status = status
    <3>1. status \in Phases \cup {"none"} /\ 0 \in 0 .. MaxAttempts
      BY SetupAssumption
    <3> QED
      BY <1>1, <3>1 DEF ActiveBridge
  <2>3. status # "none"
    BY DEF Phases, Busy, Resting
  <2> HIDE DEF b
  <2>4. /\ bridge' \in [Setups -> ActiveBridge] /\ bridge'[o] = b
        /\ \A p \in Setups \ {o} : bridge'[p] = bridge[p]
    BY <1>1, <1>2, <2>1, <2>2, BridgeKept
  <2>5. /\ timers' \in [Setups -> Nat] /\ timers'[o] = 0
        /\ \A p \in Setups \ {o} : timers'[p] = timers[p]
    BY <1>1, <1>2, <2>1 DEF SetupTypeOK
  <2>6. w \notin Calls
    BY <1>5, SetupNumbers
  <2>7. Keeps(w, o)
    BY <2>2, <2>3, <2>4, <2>5, <2>6 DEF Keeps
  <2> QED
    BY <1>4, <1>5, <2>1, <2>2, <2>4, <2>7
<1>6. CASE w \notin Clients
  <2>1. Status(o, status) /\ timers' = timers /\ heard' = heard
    BY <1>6 DEF Finished
  <2>2. /\ bridge' \in [Setups -> ActiveBridge]
        /\ \A p \in Setups \ {o} : bridge'[p] = bridge[p]
        /\ bridge'[o].client = bridge[o].client /\ bridge'[o].closing = bridge[o].closing
        /\ bridge'[o].pending = bridge[o].pending
        /\ bridge'[o].status = status /\ status # "none"
    BY <1>1, <1>2, <2>1, StatusKept
  <2>3. timers' \in [Setups -> Nat]
    BY <1>2, <2>1 DEF SetupTypeOK
  <2>4. Keeps(w, o)
    BY <2>1, <2>2, <2>3 DEF Keeps
  <2> QED
    BY <1>4, <2>1, <2>2, <2>4
<1> QED
  BY <1>5, <1>6

-----------------------------------------------------------------------------
(* The parts of a step that leave something alone *)

LEMMA SameLink ==
    ASSUME SetupTypeOK, NEW w, NEW o, UNCHANGED <<link, orphans>>
    PROVE  Linked(w, o)
BY DEF Linked, SetupTypeOK

LEMMA SameBridge ==
    ASSUME SetupTypeOK, NEW w, NEW o \in Setups, Exists(o), UNCHANGED <<bridge, timers, heard>>
    PROVE  Keeps(w, o)
BY DEF Keeps, SetupTypeOK, Exists

LEMMA ChangedBridge ==
    ASSUME SetupTypeOK, NEW w, NEW o \in Setups, UNCHANGED <<timers, heard>>,
           bridge' \in [Setups -> ActiveBridge],
           \A p \in Setups \ {o} : bridge'[p] = bridge[p],
           bridge'[o].client = bridge[o].client, bridge'[o].closing = bridge[o].closing,
           bridge'[o].status # "none", bridge'[o].pending => bridge[o].pending
    PROVE  Keeps(w, o)
BY DEF Keeps, SetupTypeOK

LEMMA GoesOn ==
    ASSUME NEW w, NEW o, work'[w].at \notin {"ended", "verifying"}
    PROVE  Told(w, o)
BY DEF Told

LEMMA EndsClosing ==
    ASSUME NEW w, NEW o, work'[w].at = "ended", bridge[o].closing
    PROVE  Told(w, o)
BY DEF Told

\* A setup that fails.
LEMMA ErroredStep ==
    ASSUME SetupTypeOK, NEW w \in Clients, NEW o \in Setups, Exists(o), NEW transient \in BOOLEAN,
           Errored(o, transient), heard' = heard, work'[w].at = "ended"
    PROVE  /\ Keeps(w, o) /\ Told(w, o)
           /\ ~bridge[o].closing => bridge'[o].status = "error"
<1>1. /\ bridge' \in [Setups -> ActiveBridge] /\ timers' \in [Setups -> Nat]
      /\ \A p \in Setups \ {o} : bridge'[p] = bridge[p] /\ timers'[p] = timers[p]
      /\ bridge'[o].client = bridge[o].client /\ bridge'[o].closing = bridge[o].closing
      /\ bridge'[o].status # "none" /\ bridge'[o].pending = bridge[o].pending
      /\ bridge[o].closing => bridge' = bridge /\ timers' = timers
      /\ ~bridge[o].closing => bridge'[o].status = "error"
      /\ timers'[o] = timers[o] \/ (timers'[o] = 1 /\ ~bridge[o].closing /\ ~bridge[o].pending)
  BY ErroredKept
<1>2. w \notin Calls
  BY SetupNumbers
<1>3. Keeps(w, o)
  BY <1>1, <1>2 DEF Keeps
<1>4. Told(w, o)
  BY <1>1 DEF Told, Busy
<1> QED
  BY <1>1, <1>3, <1>4

-----------------------------------------------------------------------------
(* Every action of a worker is such a step *)

LEMMA WorkerFacts ==
    ASSUME SetupShape, NEW w \in Workers, work[w].at \in Awaits
    PROVE  /\ SetupTypeOK /\ work[w].of \in Setups /\ Exists(work[w].of)
           /\ bridge[work[w].of].client \in Clients
           /\ bridge[work[w].of].client \in 0 .. MaxClients
           /\ bridge[work[w].of].status \in Phases
           /\ work[w].on \in 0 .. MaxClients
<1>1. /\ work[w].of \in Setups /\ Exists(work[w].of) /\ bridge[work[w].of].client \in Clients
      /\ bridge[work[w].of] \in ActiveBridge /\ work[w] \in Worker
  BY ShapeFacts
<1>2. bridge[work[w].of].status \in Phases /\ work[w].on \in 0 .. MaxClients
  BY <1>1 DEF Exists, ActiveBridge, Worker
<1> QED
  BY <1>1, <1>2, SetupNumbers DEF SetupShape, OfBridge, OfWorker, OfClient

LEMMA MovesFrom ==
    ASSUME SetupShape, NEW w \in Workers, work[w].at \in Awaits,
           NEW place \in {"ended"} \cup (Awaits \ {"resolving"}),
           work' \in [Workers -> Worker], \A v \in Workers \ {w} : work'[v] = work[v],
           work'[w].of = work[w].of, work'[w].at = place,
           Keep, faults' \in 0 .. MaxFailures,
           heard' = heard \/ (w \in Clients /\ heard' = heard \cup {w} /\ place = "ended"),
           unheard' = unheard \/ unheard' = unheard \cup {bridge[work[w].of].client}
    PROVE  Moves(w)
BY DEF Moves, Keep

LEMMA GoFrom ==
    ASSUME SetupShape, NEW w \in Workers, work[w].at \in Awaits,
           NEW place \in {"ended"} \cup (Awaits \ {"resolving"}), NEW on \in 0 .. MaxClients,
           Go(w, place, on), Keep, Fault \/ NoFault \/ MayFail(w), heard' = heard,
           unheard' = unheard \/ unheard' = unheard \cup {bridge[work[w].of].client}
    PROVE  Moves(w) /\ work'[w].at = place
<1>1. SetupTypeOK
  BY DEF SetupShape, OfBridge, OfWorker, OfClient
<1>2. faults' \in 0 .. MaxFailures
  BY <1>1, FaultType, MayFailType
<1>3. /\ work' \in [Workers -> Worker] /\ \A v \in Workers \ {w} : work'[v] = work[v]
      /\ work'[w].of = work[w].of /\ work'[w].at = place
  BY <1>1, GoMoves
<1> QED
  BY <1>2, <1>3, MovesFrom

LEMMA EndFrom ==
    ASSUME SetupShape, NEW w \in Workers, work[w].at \in Awaits,
           End(w), Keep, Fault \/ NoFault \/ MayFail(w), heard' = heard,
           unheard' = unheard \/ unheard' = unheard \cup {bridge[work[w].of].client}
    PROVE  Moves(w) /\ work'[w].at = "ended"
<1>1. 0 \in 0 .. MaxClients /\ Go(w, "ended", 0)
  BY SetupNumbers DEF End
<1> QED
  BY <1>1, GoFrom

\* The command that follows, on a session that may have ended.
LEMMA NextCommand ==
    ASSUME SetupShape, NEW w \in Workers, work[w].at \in Awaits,
           NEW place \in Awaits \ {"resolving", "verifying"}, NEW on \in 0 .. MaxClients,
           Go(w, place, on), Keep,
           UNCHANGED <<bridge, timers, link, heard, orphans, unheard, faults>>
    PROVE  Step(w)
<1>1. SetupTypeOK /\ work[w].of \in Setups /\ Exists(work[w].of)
  BY WorkerFacts
<1>2. Moves(w) /\ work'[w].at = place
  BY GoFrom DEF NoFault
<1>3. Keeps(w, work[w].of) /\ Linked(w, work[w].of)
  BY <1>1, SameBridge, SameLink
<1>4. Told(w, work[w].of)
  BY <1>2, GoesOn DEF Awaits
<1> QED
  BY <1>2, <1>3, <1>4 DEF Step

LEMMA ResolvedStep ==
    ASSUME SetupShape, NEW k \in Clients, Resolved(k)
    PROVE  Step(k)
<1> DEFINE o == work[k].of
<1>1. k \in Workers /\ k \in 0 .. MaxClients /\ work[k].at \in Awaits
  BY SetupNumbers DEF Resolved, Awaits
<1>2. SetupTypeOK /\ o \in Setups /\ Exists(o)
  BY <1>1, WorkerFacts
<1>3. Moves(k) /\ work'[k].at = "connecting"
  BY <1>1, GoFrom DEF Resolved, Awaits, NoFault
<1>4. Keeps(k, o) /\ Told(k, o)
  BY <1>2, <1>3, SameBridge, GoesOn DEF Resolved
<1>5. Linked(k, o)
  <2>1. link' = [link EXCEPT ![k] = "connecting"] /\ link \in [Clients -> Links]
    BY <1>2 DEF Resolved, SetupTypeOK
  <2>2. link' \in [Clients -> Links] /\ link'[k] = "connecting"
        /\ \A j \in Clients : j # k => link'[j] = link[j]
    BY <2>1 DEF Links
  <2>3. orphans' = IF bridge[o].closing \/ bridge[o].client # k THEN orphans \cup {k} ELSE orphans
    BY DEF Resolved
  <2> HIDE DEF o
  <2> QED
    BY <2>2, <2>3 DEF Linked
<1> QED
  BY <1>1, <1>3, <1>4, <1>5 DEF Step

LEMMA ResolveFailsStep ==
    ASSUME SetupShape, NEW k \in Clients, ResolveFails(k)
    PROVE  Step(k)
<1> DEFINE o == work[k].of
<1>1. k \in Workers /\ work[k].at \in Awaits
  BY SetupNumbers DEF ResolveFails, Awaits
<1>2. SetupTypeOK /\ o \in Setups /\ Exists(o)
  BY <1>1, WorkerFacts
<1>3. Moves(k) /\ work'[k].at = "ended"
  BY <1>1, EndFrom DEF ResolveFails
<1>4. Keeps(k, o) /\ Told(k, o)
  BY <1>2, <1>3, ErroredStep DEF ResolveFails
<1>5. Linked(k, o)
  BY <1>2, SameLink DEF ResolveFails
<1> QED
  BY <1>1, <1>3, <1>4, <1>5 DEF Step

LEMMA ConnectedStep ==
    ASSUME SetupShape, NEW k \in Clients, Connected(k)
    PROVE  Step(k)
<1> DEFINE o == work[k].of
<1>1. k \in Workers /\ k \in 0 .. MaxClients /\ work[k].at \in Awaits
  BY SetupNumbers DEF Connected, Awaits
<1>2. SetupTypeOK /\ o \in Setups /\ Exists(o)
  BY <1>1, WorkerFacts
<1>3. Linked(k, o)
  <2>1. link' = [link EXCEPT ![k] = "up"] /\ link \in [Clients -> Links] /\ link[k] = "connecting"
    BY <1>2 DEF Connected, SetupTypeOK
  <2>2. link' \in [Clients -> Links] /\ link'[k] = "up"
        /\ \A j \in Clients : j # k => link'[j] = link[j]
    BY <2>1 DEF Links
  <2>3. orphans' = orphans
    BY DEF Connected
  <2> HIDE DEF o
  <2> QED
    BY <2>1, <2>2, <2>3 DEF Linked
<1>4. CASE bridge[o].closing
  <2>3. End(k) /\ Keep /\ NoFault /\ heard' = heard /\ unheard' = unheard
    BY <1>4 DEF Connected, NoFault
  <2>1. Moves(k) /\ work'[k].at = "ended"
    BY <1>1, <2>3, EndFrom
  <2>2. Keeps(k, o) /\ Told(k, o)
    BY <1>2, <1>4, <2>1, SameBridge, EndsClosing DEF Connected
  <2> QED
    BY <1>1, <1>3, <2>1, <2>2 DEF Step
<1>5. CASE ~bridge[o].closing
  <2>5. Go(k, "testing", k) /\ Keep /\ NoFault /\ heard' = heard /\ unheard' = unheard
    BY <1>5 DEF Connected, NoFault
  <2>6. "testing" \in Awaits \ {"resolving"}
    BY DEF Awaits
  <2>1. Moves(k) /\ work'[k].at = "testing"
    BY <1>1, <2>5, <2>6, GoFrom
  <2>2. Status(o, "ssh_test") /\ UNCHANGED <<timers, heard>> /\ "ssh_test" \in Phases
    BY <1>5 DEF Connected, Phases, Busy
  <2>3. Keeps(k, o)
    BY <1>2, <2>2, StatusKept, ChangedBridge
  <2>4. Told(k, o)
    BY <2>1, GoesOn
  <2> QED
    BY <1>1, <1>3, <2>1, <2>3, <2>4 DEF Step
<1> QED
  BY <1>4, <1>5

LEMMA ConnectFailsStep ==
    ASSUME SetupShape, NEW k \in Clients, ConnectFails(k)
    PROVE  Step(k)
<1> DEFINE o == work[k].of
<1>1. k \in Workers /\ work[k].at \in Awaits
  BY SetupNumbers DEF ConnectFails, Awaits
<1>2. SetupTypeOK /\ o \in Setups /\ Exists(o)
  BY <1>1, WorkerFacts
<1>3. Moves(k) /\ work'[k].at = "ended"
  BY <1>1, EndFrom DEF ConnectFails
<1>4. PICK transient \in BOOLEAN : Errored(o, transient)
  BY DEF ConnectFails
<1>5. /\ Keeps(k, o) /\ Told(k, o)
      /\ ~bridge[o].closing => bridge'[o].status = "error"
  BY <1>2, <1>3, <1>4, ErroredStep DEF ConnectFails
<1>6. Linked(k, o)
  <2>1. link' = [link EXCEPT ![k] = "gone"] /\ link \in [Clients -> Links] /\ orphans' = orphans
    BY <1>2 DEF ConnectFails, SetupTypeOK
  <2>2. link' \in [Clients -> Links] /\ link'[k] = "gone"
        /\ \A j \in Clients : j # k => link'[j] = link[j]
    BY <2>1 DEF Links
  <2> HIDE DEF o
  <2> QED
    BY <1>3, <1>5, <2>1, <2>2 DEF Linked
<1> QED
  BY <1>1, <1>3, <1>5, <1>6 DEF Step

LEMMA AnswerSteps ==
    ASSUME SetupShape, NEW w \in Workers, Uploaded(w) \/ (w \in Clients /\ (Tested(w) \/ Found(w)))
    PROVE  Step(w)
<1>1. work[w].at \in Awaits
  BY DEF Uploaded, Tested, Found, Awaits
<1>2. On(bridge[work[w].of].client) \in 0 .. MaxClients
  BY <1>1, WorkerFacts, OnType
<1>3. CASE Uploaded(w)
  BY <1>1, <1>2, <1>3, NextCommand DEF Uploaded, Awaits
<1>4. CASE w \in Clients /\ (Tested(w) \/ Found(w))
  <2>1. On(w) \in 0 .. MaxClients
    BY <1>4, SetupNumbers, OnType
  <2> QED
    BY <1>1, <1>4, <2>1, NextCommand DEF Tested, Found, Awaits
<1> QED
  BY <1>3, <1>4

LEMMA ForwardedStep ==
    ASSUME SetupShape, NEW k \in Clients, Forwarded(k)
    PROVE  Step(k)
<1> DEFINE o == work[k].of
<1>1. k \in Workers /\ On(k) \in 0 .. MaxClients /\ work[k].at \in Awaits
  BY SetupNumbers, OnType DEF Forwarded, Awaits
<1>2. SetupTypeOK /\ o \in Setups /\ Exists(o)
  BY <1>1, WorkerFacts
<1>3. Linked(k, o)
  BY <1>2, SameLink DEF Forwarded
<1>4. CASE bridge[o].closing
  <2>3. End(k) /\ Keep /\ NoFault /\ heard' = heard /\ unheard' = unheard
    BY <1>4 DEF Forwarded, NoFault
  <2>1. Moves(k) /\ work'[k].at = "ended"
    BY <1>1, <2>3, EndFrom
  <2>2. Keeps(k, o) /\ Told(k, o)
    BY <1>2, <1>4, <2>1, SameBridge, EndsClosing DEF Forwarded
  <2> QED
    BY <1>1, <1>3, <2>1, <2>2 DEF Step
<1>5. CASE ~bridge[o].closing
  <2>5. Go(k, "checking", On(k)) /\ Keep /\ NoFault /\ heard' = heard /\ unheard' = unheard
    BY <1>5 DEF Forwarded, NoFault
  <2>6. "checking" \in Awaits \ {"resolving"}
    BY DEF Awaits
  <2>1. Moves(k) /\ work'[k].at = "checking"
    BY <1>1, <2>5, <2>6, GoFrom
  <2>2. Status(o, "tunnel_open") /\ UNCHANGED <<timers, heard>> /\ "tunnel_open" \in Phases
    BY <1>5 DEF Forwarded, Phases, Resting
  <2>3. Keeps(k, o)
    BY <1>2, <2>2, StatusKept, ChangedBridge
  <2>4. Told(k, o)
    BY <2>1, GoesOn
  <2> QED
    BY <1>1, <1>3, <2>1, <2>3, <2>4 DEF Step
<1> QED
  BY <1>4, <1>5

LEMMA RunFailsStep ==
    ASSUME SetupShape, NEW k \in Clients, RunFails(k)
    PROVE  Step(k)
<1> DEFINE o == work[k].of
<1>1. k \in Workers /\ work[k].at \in Awaits
  BY SetupNumbers DEF RunFails, Awaits
<1>2. SetupTypeOK /\ o \in Setups /\ Exists(o)
  BY <1>1, WorkerFacts
<1>3. Moves(k) /\ work'[k].at = "ended"
  <2>1. MayFail(k) \/ NoFault
    BY DEF RunFails
  <2>2. End(k) /\ Keep /\ heard' = heard /\ unheard' = unheard
    BY DEF RunFails
  <2> QED
    BY <1>1, <2>1, <2>2, EndFrom
<1>4. \E transient \in BOOLEAN : Errored(o, transient)
  BY DEF RunFails
<1>5. Keeps(k, o) /\ Told(k, o)
  BY <1>2, <1>3, <1>4, ErroredStep DEF RunFails
<1>6. Linked(k, o)
  BY <1>2, SameLink DEF RunFails
<1> QED
  BY <1>1, <1>3, <1>5, <1>6 DEF Step

\* What runSetup does with a bridge that was not installed, and the end of it.
LEMMA SkippedStep ==
    ASSUME SetupShape, NEW w \in Workers, work[w].at \in Awaits, Skipped(w), Keep,
           faults' \in 0 .. MaxFailures, UNCHANGED <<link, orphans, unheard>>
    PROVE  Step(w)
<1> DEFINE o == work[w].of
<1>1. SetupTypeOK /\ o \in Setups /\ Exists(o)
  BY WorkerFacts
<1>2. Linked(w, o)
  BY <1>1, SameLink
<1>3. CASE bridge[o].closing
  <2>1. End(w) /\ UNCHANGED <<bridge, timers, heard>>
    BY <1>3 DEF Skipped
  <2>2. /\ work' \in [Workers -> Worker] /\ \A v \in Workers \ {w} : work'[v] = work[v]
        /\ work'[w].of = work[w].of /\ work'[w].at = "ended"
    BY <1>1, <2>1, EndMoves
  <2>3. Moves(w)
    BY <2>1, <2>2, MovesFrom
  <2>4. Keeps(w, o) /\ Told(w, o)
    BY <1>1, <1>3, <2>1, <2>2, SameBridge, EndsClosing
  <2> QED
    BY <1>2, <2>3, <2>4 DEF Step
<1>4. CASE ~bridge[o].closing
  <2>1. Finished(w, "tunnel_open") /\ "tunnel_open" \in Phases /\ "tunnel_open" \notin Busy
    BY <1>4 DEF Skipped, Phases, Resting, Busy
  <2>2. /\ Keeps(w, o)
        /\ work' \in [Workers -> Worker] /\ \A v \in Workers \ {w} : work'[v] = work[v]
        /\ work'[w].of = work[w].of /\ work'[w].at = "ended"
        /\ heard' = heard \/ (w \in Clients /\ heard' = heard \cup {w})
        /\ bridge'[o].status = "tunnel_open"
    BY <2>1, FinishedKept
  <2>3. Moves(w)
    BY <2>2, MovesFrom
  <2>4. Told(w, o)
    BY <2>1, <2>2 DEF Told
  <2> QED
    BY <1>2, <2>2, <2>3, <2>4 DEF Step
<1> QED
  BY <1>3, <1>4

LEMMA SkipStep ==
    ASSUME SetupShape, NEW k \in Clients, Skip(k)
    PROVE  Step(k)
<1>1. k \in Workers /\ work[k].at \in Awaits
  BY SetupNumbers DEF Skip, Awaits
<1>2. SetupTypeOK
  BY DEF SetupShape, OfBridge, OfWorker, OfClient
<1>3. faults' \in 0 .. MaxFailures
  BY <1>2 DEF Skip, SetupTypeOK
<1> QED
  BY <1>1, <1>3, SkippedStep DEF Skip

LEMMA NeedsPasswordStep ==
    ASSUME SetupShape, NEW k \in Clients, NeedsPassword(k)
    PROVE  Step(k)
<1> DEFINE o == work[k].of
<1>1. k \in Workers /\ k \notin Calls /\ work[k].at \in Awaits
  BY SetupNumbers DEF NeedsPassword, Awaits
<1>2. SetupTypeOK /\ o \in Setups /\ Exists(o)
  BY <1>1, WorkerFacts
<1>3. Linked(k, o)
  BY <1>2, SameLink DEF NeedsPassword
<1>4. Moves(k) /\ work'[k].at = "ended"
  <2>1. End(k) /\ Keep /\ NoFault /\ heard' = heard /\ unheard' = unheard
    BY DEF NeedsPassword, NoFault
  <2> QED
    BY <1>1, <2>1, EndFrom
<1>5. bridge[o] \in ActiveBridge /\ timers \in [Setups -> Nat] /\ heard' = heard
  BY <1>2 DEF SetupTypeOK, NeedsPassword
<1> DEFINE wanted == [bridge[o] EXCEPT !.status = "needs_sudo_password", !.pending = TRUE]
<1>6. /\ wanted \in ActiveBridge /\ wanted.client = bridge[o].client /\ wanted.closing = bridge[o].closing
      /\ wanted.status = "needs_sudo_password"
  BY <1>5 DEF ActiveBridge, Phases, Resting
<1>7. "needs_sudo_password" \notin Busy /\ "needs_sudo_password" # "none"
  BY DEF Busy
<1>8. CASE bridge[o].closing
  <2>1. bridge' = [bridge EXCEPT ![o] = wanted] /\ timers' = timers
    BY <1>2, <1>8 DEF NeedsPassword, SetupTypeOK
  <2> HIDE DEF wanted
  <2>2. /\ bridge' \in [Setups -> ActiveBridge] /\ bridge'[o] = wanted
        /\ \A p \in Setups \ {o} : bridge'[p] = bridge[p]
    BY <1>2, <1>6, <2>1, BridgeKept
  <2>3. Keeps(k, o)
    BY <1>1, <1>4, <1>5, <1>6, <1>7, <1>8, <2>1, <2>2 DEF Keeps
  <2>4. Told(k, o)
    BY <1>4, <1>8, EndsClosing
  <2> QED
    BY <1>1, <1>3, <1>4, <2>3, <2>4 DEF Step
<1>9. CASE ~bridge[o].closing
  <2> DEFINE b == [wanted EXCEPT !.retryAttempt = 0]
  <2>1. bridge' = [bridge EXCEPT ![o] = b] /\ timers' = [timers EXCEPT ![o] = 0]
    BY <1>2, <1>9 DEF NeedsPassword, SetupTypeOK
  <2>2. /\ b \in ActiveBridge /\ b.client = bridge[o].client /\ b.closing = bridge[o].closing
        /\ b.status = "needs_sudo_password"
    <3>1. 0 \in 0 .. MaxAttempts
      BY SetupAssumption
    <3> HIDE DEF wanted
    <3> QED
      BY <1>6, <3>1 DEF ActiveBridge
  <2> HIDE DEF wanted, b
  <2>3. /\ bridge' \in [Setups -> ActiveBridge] /\ bridge'[o] = b
        /\ \A p \in Setups \ {o} : bridge'[p] = bridge[p]
    BY <1>2, <2>1, <2>2, BridgeKept
  <2>4. /\ timers' \in [Setups -> Nat] /\ timers'[o] = 0
        /\ \A p \in Setups \ {o} : timers'[p] = timers[p]
    BY <1>2, <1>5, <2>1
  <2>5. Keeps(k, o)
    BY <1>1, <1>4, <1>5, <1>7, <2>2, <2>3, <2>4 DEF Keeps
  <2>6. Told(k, o)
    BY <1>4, <1>7, <2>2, <2>3 DEF Told
  <2> QED
    BY <1>1, <1>3, <1>4, <2>5, <2>6 DEF Step
<1> QED
  BY <1>8, <1>9

\* A status set on the way, or the pending input used.
LEMMA StatusStep ==
    ASSUME SetupShape, NEW w \in Workers, work[w].at \in Awaits,
           NEW place \in Awaits \ {"resolving"}, NEW on \in 0 .. MaxClients, Go(w, place, on), Keep,
           NEW status \in Phases, Status(work[w].of, status) \/ NotPending(work[w].of),
           place = "verifying" => Status(work[w].of, status) /\ status \notin Busy,
           UNCHANGED <<timers, link, heard, faults, orphans, unheard>>
    PROVE  Step(w)
<1> DEFINE o == work[w].of
<1>1. SetupTypeOK /\ o \in Setups /\ Exists(o)
  BY WorkerFacts
<1>2. Moves(w) /\ work'[w].at = place /\ place # "ended"
  BY GoFrom DEF NoFault, Awaits
<1>3. Linked(w, o)
  BY <1>1, SameLink
<1>4. Keeps(w, o)
  <2>1. CASE Status(o, status)
    BY <1>1, <2>1, StatusKept, ChangedBridge
  <2>2. CASE NotPending(o)
    <3>1. /\ bridge' \in [Setups -> ActiveBridge]
          /\ \A p \in Setups \ {o} : bridge'[p] = bridge[p]
          /\ bridge'[o].client = bridge[o].client /\ bridge'[o].closing = bridge[o].closing
          /\ bridge'[o].pending = FALSE /\ bridge'[o].status = bridge[o].status
      BY <1>1, <2>2, NotPendingKept
    <3> QED
      BY <1>1, <3>1, ChangedBridge DEF Exists
  <2> QED
    BY <2>1, <2>2
<1>5. Told(w, o)
  <2>1. CASE place = "verifying"
    <3>1. bridge'[o].status = status
      BY <1>1, <2>1, StatusKept
    <3> QED
      BY <1>2, <2>1, <3>1 DEF Told
  <2>2. CASE place # "verifying"
    BY <1>2, <2>2, GoesOn
  <2> QED
    BY <2>1, <2>2
<1> QED
  BY <1>2, <1>3, <1>4, <1>5 DEF Step

LEMMA StatusSteps ==
    ASSUME SetupShape, NEW w \in Workers,
           \/ Identified(w)
           \/ w \in Clients /\ Install(w)
           \/ w \in Calls /\ (AskedActive(w) \/ AskedInactive(w) \/ ServiceRestarted(w))
    PROVE  Step(w)
<1> DEFINE o == work[w].of
<1>1. work[w].at \in Awaits
  BY DEF Identified, Install, AskedActive, AskedInactive, ServiceRestarted, Awaits
<1>2. On(bridge[o].client) \in 0 .. MaxClients /\ On(work[w].on) \in 0 .. MaxClients
      /\ 0 \in 0 .. MaxClients
  BY <1>1, WorkerFacts, OnType, SetupNumbers
<1>3. /\ "installing" \in Phases /\ "running" \in Phases /\ "running" \notin Busy
      /\ {"uploading", "restarting", "identifying"} \subseteq Awaits \ {"resolving", "verifying"}
      /\ "verifying" \in Awaits \ {"resolving"}
  BY DEF Phases, Busy, Resting, Awaits
<1>4. CASE Identified(w)
  <2>1. Go(w, "verifying", 0) /\ Status(o, "running") /\ Keep
        /\ UNCHANGED <<timers, link, heard, faults, orphans, unheard>>
    BY <1>4 DEF Identified
  <2> QED
    BY <1>1, <1>2, <1>3, <2>1, StatusStep
<1>5. CASE w \in Clients /\ Install(w)
  <2>1. Go(w, "uploading", On(bridge[o].client)) /\ Status(o, "installing") /\ Keep
        /\ UNCHANGED <<timers, link, heard, faults, orphans, unheard>>
    BY <1>5 DEF Install
  <2> QED
    BY <1>1, <1>2, <1>3, <2>1, StatusStep
<1>6. CASE w \in Calls /\ AskedActive(w)
  <2>1. Go(w, "restarting", On(work[w].on)) /\ Status(o, "installing") /\ Keep
        /\ UNCHANGED <<timers, link, heard, faults, orphans, unheard>>
    BY <1>6 DEF AskedActive
  <2> QED
    BY <1>1, <1>2, <1>3, <2>1, StatusStep
<1>7. CASE w \in Calls /\ AskedInactive(w)
  <2>1. Go(w, "uploading", On(bridge[o].client)) /\ Status(o, "installing") /\ Keep
        /\ UNCHANGED <<timers, link, heard, faults, orphans, unheard>>
    BY <1>7 DEF AskedInactive
  <2> QED
    BY <1>1, <1>2, <1>3, <2>1, StatusStep
<1>8. CASE w \in Calls /\ ServiceRestarted(w)
  <2>1. Go(w, "identifying", On(work[w].on)) /\ NotPending(o) /\ Keep
        /\ UNCHANGED <<timers, link, heard, faults, orphans, unheard>>
    BY <1>8 DEF ServiceRestarted
  <2> QED
    BY <1>1, <1>2, <1>3, <2>1, StatusStep
<1> QED
  BY <1>4, <1>5, <1>6, <1>7, <1>8

LEMMA AlreadyRunningStep ==
    ASSUME SetupShape, NEW k \in Clients, AlreadyRunning(k)
    PROVE  Step(k)
<1> DEFINE o == work[k].of
<1>1. k \in Workers /\ On(k) \in 0 .. MaxClients /\ work[k].at \in Awaits
  BY SetupNumbers, OnType DEF AlreadyRunning, Awaits
<1>2. SetupTypeOK /\ o \in Setups /\ Exists(o)
  BY <1>1, WorkerFacts
<1>3. Keep /\ UNCHANGED <<bridge, timers, link, heard, faults, orphans, unheard>>
  BY DEF AlreadyRunning
<1>4. CASE bridge[o].closing
  <2>1. End(k) /\ NoFault
    BY <1>3, <1>4 DEF AlreadyRunning, NoFault
  <2>2. Moves(k) /\ work'[k].at = "ended"
    BY <1>1, <1>3, <2>1, EndFrom
  <2>3. Keeps(k, o) /\ Told(k, o) /\ Linked(k, o)
    BY <1>2, <1>3, <1>4, <2>2, SameBridge, SameLink, EndsClosing
  <2> QED
    BY <1>1, <2>2, <2>3 DEF Step
<1>5. CASE ~bridge[o].closing
  <2>1. Go(k, "identifying", On(k)) /\ "identifying" \in Awaits \ {"resolving", "verifying"}
    BY <1>5 DEF AlreadyRunning, Awaits
  <2> QED
    BY <1>1, <1>3, <2>1, NextCommand
<1> QED
  BY <1>4, <1>5

LEMMA InstalledStep ==
    ASSUME SetupShape, NEW w \in Workers, Installed(w)
    PROVE  Step(w)
<1> DEFINE o == work[w].of
           client == IF w \in Calls THEN bridge[o].client ELSE w
<1>1. work[w].at \in Awaits /\ work[w].at = "scripting"
  BY DEF Installed, Awaits
<1>2. SetupTypeOK /\ o \in Setups /\ Exists(o) /\ bridge[o].client \in 0 .. MaxClients
      /\ bridge[o].status \in Phases
  BY <1>1, WorkerFacts
<1>3. On(client) \in 0 .. MaxClients
  BY <1>2, SetupNumbers, OnType DEF Workers
<1> HIDE DEF client
<1>4. Keep /\ UNCHANGED <<timers, link, heard, faults, orphans, unheard>>
  BY DEF Installed
<1>5. CASE bridge[o].closing
  <2>1. End(w) /\ NoFault
    BY <1>4, <1>5 DEF Installed, NoFault
  <2>2. Moves(w) /\ work'[w].at = "ended"
    BY <1>1, <1>4, <2>1, EndFrom
  <2>3. Told(w, o) /\ Linked(w, o)
    BY <1>2, <1>4, <1>5, <2>2, SameLink, EndsClosing
  <2>4. Keeps(w, o)
    <3>1. CASE w \in Calls
      <4>1. NotPending(o)
        BY <3>1 DEF Installed
      <4>2. /\ bridge' \in [Setups -> ActiveBridge]
            /\ \A p \in Setups \ {o} : bridge'[p] = bridge[p]
            /\ bridge'[o].client = bridge[o].client /\ bridge'[o].closing = bridge[o].closing
            /\ bridge'[o].pending = FALSE /\ bridge'[o].status = bridge[o].status
        BY <1>2, <4>1, NotPendingKept
      <4> QED
        BY <1>2, <1>4, <4>2, ChangedBridge DEF Exists
    <3>2. CASE w \notin Calls
      <4>1. bridge' = bridge
        BY <3>2 DEF Installed
      <4> QED
        BY <1>2, <1>4, <4>1, SameBridge
    <3> QED
      BY <3>1, <3>2
  <2> QED
    BY <1>1, <2>2, <2>3, <2>4 DEF Step
<1>6. CASE ~bridge[o].closing
  <2>1. Go(w, "identifying", On(client)) /\ "identifying" \in Awaits \ {"resolving", "verifying"}
    BY <1>6 DEF Installed, Awaits, client
  <2>2. CASE w \in Calls
    <3>1. NotPending(o)
      BY <2>2 DEF Installed
    <3> QED
      BY <1>1, <1>2, <1>3, <1>4, <2>1, <3>1, StatusStep
  <2>3. CASE w \notin Calls
    <3>1. bridge' = bridge
      BY <2>3 DEF Installed
    <3> QED
      BY <1>1, <1>3, <1>4, <2>1, <3>1, NextCommand
  <2> QED
    BY <2>2, <2>3
<1> QED
  BY <1>5, <1>6

\* A route's last change: its pending input is used up, and a status that is no phase
\* of the work may be set.
LEMMA RouteEnds ==
    ASSUME SetupShape, NEW c \in Calls, work[c].at \in Awaits, NEW status \in Phases \ Busy,
           bridge' = [bridge EXCEPT ![work[c].of].pending = FALSE, ![work[c].of].status = status],
           End(c), Keep, faults' \in 0 .. MaxFailures,
           UNCHANGED <<timers, link, heard, orphans, unheard>>
    PROVE  Step(c)
<1> DEFINE o == work[c].of
           b == [bridge[o] EXCEPT !.pending = FALSE, !.status = status]
<1>1. c \in Workers
  BY SetupNumbers
<1>2. SetupTypeOK /\ o \in Setups /\ Exists(o)
  BY <1>1, WorkerFacts
<1>3. /\ work' \in [Workers -> Worker] /\ \A v \in Workers \ {c} : work'[v] = work[v]
      /\ work'[c].of = work[c].of /\ work'[c].at = "ended"
  BY <1>1, <1>2, EndMoves
<1>4. Moves(c)
  BY <1>1, <1>3, MovesFrom
<1>5. /\ b \in ActiveBridge /\ b.client = bridge[o].client /\ b.closing = bridge[o].closing
      /\ b.pending = FALSE /\ b.status = status
  <2>1. bridge[o] \in ActiveBridge
    BY <1>2 DEF SetupTypeOK
  <2> QED
    BY <2>1 DEF ActiveBridge
<1>6. bridge' = [bridge EXCEPT ![o] = b]
  BY <1>2 DEF SetupTypeOK
<1>7. status # "none"
  BY DEF Phases, Resting, Busy
<1> HIDE DEF b
<1>8. /\ bridge' \in [Setups -> ActiveBridge] /\ bridge'[o] = b
      /\ \A p \in Setups \ {o} : bridge'[p] = bridge[p]
  BY <1>2, <1>5, <1>6, BridgeKept
<1>9. Keeps(c, o) /\ Told(c, o) /\ Linked(c, o)
  <2>1. Keeps(c, o)
    BY <1>2, <1>5, <1>7, <1>8, ChangedBridge
  <2>2. Told(c, o)
    BY <1>3, <1>5, <1>8 DEF Told
  <2> QED
    BY <1>2, <2>1, <2>2, SameLink
<1> QED
  BY <1>1, <1>4, <1>9 DEF Step

LEMMA RestartFailsStep ==
    ASSUME SetupShape, NEW c \in Calls, RestartFails(c)
    PROVE  Step(c)
<1>1. work[c].at \in Awaits /\ "error" \in Phases \ Busy
  BY DEF RestartFails, Awaits, Phases, Busy
<1>2. faults' \in 0 .. MaxFailures
  BY MayFailType DEF RestartFails, SetupShape, OfBridge, OfWorker, OfClient
<1>3. bridge' = [bridge EXCEPT ![work[c].of].pending = FALSE, ![work[c].of].status = "error"]
  BY DEF RestartFails
<1> QED
  BY <1>1, <1>2, <1>3, RouteEnds DEF RestartFails

LEMMA RouteFailsStep ==
    ASSUME SetupShape, NEW c \in Calls, RouteFails(c)
    PROVE  Step(c)
<1> DEFINE o == work[c].of
<1>1. c \in Workers /\ work[c].at \in Awaits
  BY SetupNumbers DEF RouteFails, Awaits
<1>2. SetupTypeOK /\ o \in Setups /\ Exists(o)
  BY <1>1, WorkerFacts
<1>3. /\ End(c) /\ Keep /\ unheard' = unheard \cup {bridge[o].client}
      /\ UNCHANGED <<bridge, timers, link, heard, orphans>>
  BY DEF RouteFails
<1>4. Moves(c) /\ work'[c].at = "ended"
  <2>1. MayFail(c) \/ NoFault
    BY DEF RouteFails
  <2> QED
    BY <1>1, <1>3, <2>1, EndFrom
<1>5. Keeps(c, o) /\ Linked(c, o)
  BY <1>2, <1>3, SameBridge, SameLink
<1>6. Told(c, o)
  BY <1>3, <1>4 DEF Told
<1> QED
  BY <1>1, <1>4, <1>5, <1>6 DEF Step

LEMMA NotInstalledStep ==
    ASSUME SetupShape, NEW w \in Workers, NotInstalled(w)
    PROVE  Step(w)
<1> DEFINE o == work[w].of
<1>1. work[w].at \in Awaits /\ work[w].at = "scripting"
  BY DEF NotInstalled, Awaits
<1>2. SetupTypeOK /\ o \in Setups /\ Exists(o) /\ bridge[o].client \in 0 .. MaxClients
      /\ bridge[o].status \in Phases
  BY <1>1, WorkerFacts
<1>3. faults' \in 0 .. MaxFailures /\ Keep /\ UNCHANGED <<link, orphans, unheard>>
  <2>1. MayFail(w) \/ NoFault
    BY DEF NotInstalled
  <2> QED
    BY <1>2, <2>1, MayFailType, FaultType DEF NotInstalled
<1>4. CASE work[w].mode = "system"
  <2> DEFINE to == [work[w] EXCEPT !.at = "uploading", !.mode = "fallback",
                                   !.on = On(bridge[o].client)]
  <2>1. /\ NotPending(o) /\ UNCHANGED <<timers, heard>>
        /\ work' = [work EXCEPT ![w].at = "uploading", ![w].mode = "fallback",
                                ![w].on = On(bridge[o].client)]
    BY <1>4 DEF NotInstalled
  <2>2. /\ to \in Worker /\ to.of = o /\ to.at = "uploading"
    <3>1. On(bridge[o].client) \in 0 .. MaxClients
      BY <1>2, OnType
    <3>2. work[w] \in Worker
      BY <1>2 DEF SetupTypeOK
    <3> QED
      BY <3>1, <3>2 DEF Worker, Awaits
  <2>3. work' = [work EXCEPT ![w] = to] /\ work \in [Workers -> Worker]
    BY <1>2, <2>1 DEF SetupTypeOK
  <2> HIDE DEF to
  <2>4. /\ work' \in [Workers -> Worker] /\ \A v \in Workers \ {w} : work'[v] = work[v]
        /\ work'[w].of = work[w].of /\ work'[w].at = "uploading"
    BY <2>2, <2>3
  <2>5. Moves(w)
    BY <1>1, <1>3, <2>1, <2>4, MovesFrom DEF Awaits
  <2>6. Told(w, o) /\ Linked(w, o)
    BY <1>2, <1>3, <2>4, GoesOn, SameLink
  <2>7. /\ bridge' \in [Setups -> ActiveBridge]
        /\ \A p \in Setups \ {o} : bridge'[p] = bridge[p]
        /\ bridge'[o].client = bridge[o].client /\ bridge'[o].closing = bridge[o].closing
        /\ bridge'[o].pending = FALSE /\ bridge'[o].status = bridge[o].status
    BY <1>2, <2>1, NotPendingKept
  <2>8. Keeps(w, o)
    BY <1>2, <2>1, <2>7, ChangedBridge DEF Exists
  <2> QED
    BY <1>1, <2>5, <2>6, <2>8 DEF Step
<1>5. CASE work[w].mode # "system" /\ w \in Calls
  <2> DEFINE status == IF bridge[o].closing THEN bridge[o].status ELSE "tunnel_open"
             b == [bridge[o] EXCEPT !.pending = FALSE, !.status = status]
  <2>1. /\ bridge' = [bridge EXCEPT ![o].pending = FALSE,
                                    ![o].status = IF bridge[o].closing THEN @ ELSE "tunnel_open"]
        /\ End(w) /\ UNCHANGED <<timers, heard>>
    BY <1>5 DEF NotInstalled
  <2>2. bridge \in [Setups -> ActiveBridge] /\ bridge[o] \in ActiveBridge
    BY <1>2 DEF SetupTypeOK
  <2>3. bridge' = [bridge EXCEPT ![o] = b]
    BY <1>2, <2>1, <2>2 DEF ActiveBridge
  <2>4. "tunnel_open" \in Phases \ Busy
    BY DEF Phases, Resting, Busy
  <2>5. /\ b \in ActiveBridge /\ b.client = bridge[o].client /\ b.closing = bridge[o].closing
        /\ b.pending = FALSE /\ b.status = status
    BY <1>2, <2>2, <2>4 DEF ActiveBridge
  <2>6. b.status # "none" /\ (~bridge[o].closing => b.status \notin Busy)
    BY <1>2, <2>4, <2>5 DEF Exists
  <2> HIDE DEF b, status
  <2>7. /\ bridge' \in [Setups -> ActiveBridge] /\ bridge'[o] = b
        /\ \A p \in Setups \ {o} : bridge'[p] = bridge[p]
    BY <1>2, <2>3, <2>5, BridgeKept
  <2>8. /\ work' \in [Workers -> Worker] /\ \A v \in Workers \ {w} : work'[v] = work[v]
        /\ work'[w].of = work[w].of /\ work'[w].at = "ended"
    BY <1>2, <2>1, EndMoves
  <2>9. Moves(w) /\ Linked(w, o)
    BY <1>1, <1>2, <1>3, <2>1, <2>8, MovesFrom, SameLink
  <2>10. Keeps(w, o)
    BY <1>2, <2>1, <2>5, <2>6, <2>7, ChangedBridge
  <2>11. Told(w, o)
    BY <2>6, <2>7, <2>8 DEF Told
  <2> QED
    BY <1>1, <2>9, <2>10, <2>11 DEF Step
<1>6. CASE work[w].mode # "system" /\ w \notin Calls
  BY <1>1, <1>3, <1>6, SkippedStep DEF NotInstalled
<1> QED
  BY <1>4, <1>5, <1>6

LEMMA VerifiedStep ==
    ASSUME SetupShape, NEW w \in Workers, Verified(w)
    PROVE  Step(w)
<1> DEFINE o == work[w].of
<1>1. work[w].at \in Awaits /\ work[w].at = "verifying"
  BY DEF Verified, Awaits
<1>2. SetupTypeOK /\ o \in Setups /\ Exists(o) /\ bridge[o].status \in Phases
  BY <1>1, WorkerFacts
<1>3. Keep /\ faults' \in 0 .. MaxFailures /\ UNCHANGED <<link, orphans, unheard>>
  BY <1>2 DEF Verified, SetupTypeOK
<1>4. PICK status \in Phases :
          Finished(w, status) /\ (status \notin Busy \/ status = bridge[o].status)
  <2>1. "telemetry_active" \in Phases \ Busy
    BY DEF Phases, Resting, Busy
  <2> QED
    BY <1>2, <2>1 DEF Verified
<1>5. /\ Keeps(w, o)
      /\ work' \in [Workers -> Worker] /\ \A v \in Workers \ {w} : work'[v] = work[v]
      /\ work'[w].of = work[w].of /\ work'[w].at = "ended"
      /\ heard' = heard \/ (w \in Clients /\ heard' = heard \cup {w})
      /\ bridge'[o].status = status
  BY <1>1, <1>4, FinishedKept
<1>6. Moves(w) /\ Linked(w, o)
  BY <1>1, <1>2, <1>3, <1>5, MovesFrom, SameLink
<1>7. Told(w, o)
  BY <1>1, <1>4, <1>5 DEF Told
<1> QED
  BY <1>1, <1>5, <1>6, <1>7 DEF Step

LEMMA WorkerSteps ==
    ASSUME SetupShape,
           \/ \E k \in Clients : RunStep(k)
           \/ \E c \in Calls : RouteStep(c)
           \/ \E w \in Workers : InstallStep(w)
    PROVE  \E w \in Workers : Step(w)
<1>1. ASSUME NEW k \in Clients, RunStep(k) PROVE Step(k)
  <2>1. k \in Workers
    BY SetupNumbers
  <2> QED
    BY <1>1, <2>1, ResolvedStep, ResolveFailsStep, ConnectedStep, ConnectFailsStep, AnswerSteps,
       ForwardedStep, RunFailsStep, SkipStep, NeedsPasswordStep, StatusSteps, AlreadyRunningStep
       DEF RunStep
<1>2. ASSUME NEW c \in Calls, RouteStep(c) PROVE Step(c)
  <2>1. c \in Workers
    BY SetupNumbers
  <2> QED
    BY <1>2, <2>1, StatusSteps, RestartFailsStep, RouteFailsStep DEF RouteStep
<1>3. ASSUME NEW w \in Workers, InstallStep(w) PROVE Step(w)
  BY <1>3, AnswerSteps, InstalledStep, NotInstalledStep, StatusSteps, VerifiedStep DEF InstallStep
<1> QED
  BY <1>1, <1>2, <1>3, SetupNumbers

-----------------------------------------------------------------------------
(* A bridge is given up, a client begins *)

Closes(p) ==
    /\ p \in Setups /\ Exists(p)
    /\ bridge'[p].client = bridge[p].client /\ bridge'[p].pending = bridge[p].pending
    /\ bridge'[p].closing /\ bridge'[p].status # "none"
    /\ timers' \in [Setups -> Nat] /\ timers'[p] = 0
    /\ \A q \in Setups \ {p} : timers'[q] = timers[q]
    /\ link' \in [Clients -> Links]
    /\ \A j \in Clients : j # bridge[p].client => link'[j] = link[j]
    /\ link'[bridge[p].client] \notin {"connecting", "up"}
    /\ link[bridge[p].client] = "new" => link'[bridge[p].client] = "new"
    /\ unheard' = unheard \/ unheard' = unheard \cup {bridge[p].client}
    /\ UnderWay(p) # {} => bridge[p].client \in unheard'

Begins(k, o) ==
    /\ k \in Clients /\ o \in Setups
    /\ owner[k] = 0 /\ work[k].of = 0 /\ work[k].at = "none" /\ link[k] = "new" /\ k \notin heard
    /\ owner' \in [Clients -> 0 .. MaxSetups] /\ owner'[k] = o
    /\ \A j \in Clients \ {k} : owner'[j] = owner[j]
    /\ work' \in [Workers -> Worker] /\ work'[k].of = o /\ work'[k].at = "resolving"
    /\ \A v \in Workers \ {k} : work'[v] = work[v]
    /\ bridge'[o].client = k /\ ~bridge'[o].closing /\ bridge'[o].status = "connecting"

LEMMA EndedLinks ==
    ASSUME SetupTypeOK, NEW k \in Clients
    PROVE  /\ Ended(k) \in [Clients -> Links]
           /\ \A j \in Clients : j # k => Ended(k)[j] = link[j]
           /\ Ended(k)[k] \notin {"connecting", "up"}
           /\ link[k] \notin {"connecting", "up"} => Ended(k)[k] = link[k]
<1>1. link \in [Clients -> Links]
  BY DEF SetupTypeOK
<1> QED
  BY <1>1 DEF Ended, Links

LEMMA CleanupCloses ==
    ASSUME SetupShape, NEW p \in Setups, Exists(p), Cleanup(p),
           bridge'[p].client = bridge[p].client, bridge'[p].pending = bridge[p].pending,
           bridge'[p].closing, bridge'[p].status # "none"
    PROVE  Closes(p)
<1>1. SetupTypeOK /\ bridge[p].client \in Clients
  BY DEF SetupShape, OfBridge, OfWorker, OfClient
<1>2. /\ link' = Ended(bridge[p].client) /\ timers' = [timers EXCEPT ![p] = 0]
      /\ unheard' = IF UnderWay(p) = {} THEN unheard ELSE unheard \cup {bridge[p].client}
  BY DEF Cleanup
<1>3. timers \in [Setups -> Nat]
  BY <1>1 DEF SetupTypeOK
<1>4. timers' \in [Setups -> Nat] /\ timers'[p] = 0 /\ \A q \in Setups \ {p} : timers'[q] = timers[q]
  BY <1>2, <1>3
<1>5. /\ link' \in [Clients -> Links]
      /\ \A j \in Clients : j # bridge[p].client => link'[j] = link[j]
      /\ link'[bridge[p].client] \notin {"connecting", "up"}
      /\ link[bridge[p].client] = "new" => link'[bridge[p].client] = "new"
  BY <1>1, <1>2, EndedLinks
<1> QED
  BY <1>1, <1>2, <1>4, <1>5 DEF Closes

LEMMA StartBegins ==
    ASSUME SetupShape, NEW k \in Clients, NEW o \in Setups, owner[k] = 0, Start(k, o),
           bridge'[o].client = k, ~bridge'[o].closing, bridge'[o].status = "connecting"
    PROVE  Begins(k, o)
<1>1. k \in Workers /\ o \in 0 .. MaxSetups /\ 0 \in 0 .. MaxClients
  BY SetupNumbers
<1>2. work[k].of = 0 /\ work[k].at = "none" /\ link[k] = "new"
  BY <1>1 DEF SetupShape, OfBridge, OfWorker, OfClient
<1>3. k \notin heard
  BY <1>2 DEF SetupShape, OfBridge, OfWorker, OfClient
<1>4. /\ owner \in [Clients -> 0 .. MaxSetups] /\ work \in [Workers -> Worker]
  BY DEF SetupShape, OfBridge, OfWorker, OfClient, SetupTypeOK
<1>5. [at |-> "resolving", of |-> o, on |-> 0, mode |-> "setup"] \in Worker
  BY <1>1 DEF Worker, Awaits
<1>6. /\ owner' \in [Clients -> 0 .. MaxSetups] /\ owner'[k] = o
      /\ \A j \in Clients \ {k} : owner'[j] = owner[j]
  BY <1>1, <1>4 DEF Start
<1>7. /\ work' \in [Workers -> Worker]
      /\ work'[k] = [at |-> "resolving", of |-> o, on |-> 0, mode |-> "setup"]
      /\ \A v \in Workers \ {k} : work'[v] = work[v]
  BY <1>1, <1>4, <1>5 DEF Start
<1> QED
  BY <1>2, <1>3, <1>6, <1>7 DEF Begins

LEMMA CurrentFacts ==
    ASSUME SetupShape, current # 0
    PROVE  /\ current \in Setups /\ Exists(current) /\ bridge[current].client \in Clients
           /\ owner[bridge[current].client] = current
<1>1. current \in Setups /\ Exists(current)
  BY SetupNumbers DEF SetupShape, OfBridge, OfWorker, OfClient, SetupTypeOK, Exists
<1> QED
  BY <1>1 DEF SetupShape, OfBridge, OfWorker, OfClient

LEMMA SetupFacts ==
    ASSUME SetupShape, NEW k \in Clients, NEW o \in Setups, Setup(k, o)
    PROVE  /\ Begins(k, o) /\ ~Exists(o) /\ current' = o /\ current # o
           /\ bridge' \in [Setups -> ActiveBridge] /\ ~bridge'[o].pending
           /\ \A p \in Setups \ {o, current} : bridge'[p] = bridge[p]
           /\ current # 0 => Closes(current)
           /\ current = 0 => UNCHANGED <<timers, link, unheard>>
           /\ UNCHANGED <<heard, faults, orphans, crossed>>
<1> DEFINE fresh == [status |-> "connecting", closing |-> FALSE, client |-> k,
                     pending |-> FALSE, retryAttempt |-> 0]
<1>1. SetupTypeOK /\ bridge \in [Setups -> ActiveBridge] /\ ~Exists(o) /\ owner[k] = 0 /\ Start(k, o)
      /\ current' = o /\ UNCHANGED <<heard, faults, orphans, crossed>>
  BY DEF Setup, Exists, Fresh, SetupShape, OfBridge, OfWorker, OfClient, SetupTypeOK
<1>2. current # o
  BY <1>1, CurrentFacts, SetupNumbers
<1>3. fresh \in ActiveBridge
  <2>1. k \in 0 .. MaxClients /\ 0 \in 0 .. MaxAttempts
    BY SetupNumbers, SetupAssumption
  <2> QED
    BY <2>1 DEF ActiveBridge, Phases, Busy
<1>4. fresh.client = k /\ ~fresh.closing /\ fresh.status = "connecting" /\ ~fresh.pending
  OBVIOUS
<1>5. bridge' = [p \in Setups |->
         IF p = o THEN fresh
         ELSE IF p = current THEN [bridge[p] EXCEPT !.closing = TRUE] ELSE bridge[p]]
  BY DEF Setup
<1> HIDE DEF fresh
<1>6. \A p \in Setups : [bridge[p] EXCEPT !.closing = TRUE] \in ActiveBridge
  BY <1>1 DEF ActiveBridge
<1>7. bridge' \in [Setups -> ActiveBridge] /\ bridge'[o] = fresh
      /\ \A p \in Setups \ {o, current} : bridge'[p] = bridge[p]
  BY <1>1, <1>3, <1>5, <1>6
<1>8. Begins(k, o)
  BY <1>1, <1>4, <1>7, StartBegins
<1>9. ASSUME current # 0 PROVE Closes(current)
  <2>1. current \in Setups /\ Exists(current)
    BY <1>9, CurrentFacts
  <2>2. Cleanup(current)
    BY <1>9 DEF Setup
  <2>3. bridge[current] \in ActiveBridge
    BY <1>1, <2>1
  <2>4. bridge'[current] = [bridge[current] EXCEPT !.closing = TRUE]
    BY <1>2, <1>5, <2>1
  <2>5. /\ bridge'[current].client = bridge[current].client /\ bridge'[current].closing
        /\ bridge'[current].pending = bridge[current].pending
        /\ bridge'[current].status = bridge[current].status
    BY <2>3, <2>4 DEF ActiveBridge
  <2> QED
    BY <2>1, <2>2, <2>5, CleanupCloses DEF Exists
<1>10. ASSUME current = 0 PROVE UNCHANGED <<timers, link, unheard>>
  BY <1>10 DEF Setup
<1> QED
  BY <1>1, <1>2, <1>4, <1>7, <1>8, <1>9, <1>10

LEMMA CloseFacts ==
    ASSUME SetupShape, Disconnect \/ Remove
    PROVE  /\ current # 0 /\ Closes(current) /\ bridge' \in [Setups -> ActiveBridge]
           /\ \A p \in Setups \ {current} : bridge'[p] = bridge[p]
           /\ \/ current' = 0
              \/ current' = current /\ bridge'[current].status = "disconnected"
           /\ UNCHANGED <<owner, heard, work, faults, orphans, crossed>>
<1>1. current # 0 /\ Cleanup(current) /\ UNCHANGED <<owner, heard, work, faults, orphans, crossed>>
  BY DEF Disconnect, Remove
<1>2. current \in Setups /\ Exists(current)
  BY <1>1, CurrentFacts
<1>3. SetupTypeOK /\ bridge \in [Setups -> ActiveBridge] /\ bridge[current] \in ActiveBridge
  BY <1>2 DEF SetupShape, OfBridge, OfWorker, OfClient, SetupTypeOK
<1>4. CASE Disconnect
  <2> DEFINE b == [bridge[current] EXCEPT !.status = "disconnected", !.closing = TRUE]
  <2>1. /\ b \in ActiveBridge /\ b.client = bridge[current].client /\ b.closing
        /\ b.pending = bridge[current].pending /\ b.status = "disconnected"
    BY <1>3 DEF ActiveBridge, Phases
  <2>2. bridge' = [bridge EXCEPT ![current] = b] /\ current' = current
    BY <1>2, <1>3, <1>4 DEF Disconnect
  <2> HIDE DEF b
  <2>3. /\ bridge' \in [Setups -> ActiveBridge] /\ bridge'[current] = b
        /\ \A p \in Setups \ {current} : bridge'[p] = bridge[p]
    BY <1>2, <1>3, <2>1, <2>2, BridgeKept
  <2>4. Closes(current)
    BY <1>1, <1>2, <2>1, <2>3, CleanupCloses
  <2> QED
    BY <1>1, <2>1, <2>2, <2>3, <2>4
<1>5. CASE Remove
  <2> DEFINE b == [bridge[current] EXCEPT !.closing = TRUE]
  <2>1. /\ b \in ActiveBridge /\ b.client = bridge[current].client /\ b.closing
        /\ b.pending = bridge[current].pending /\ b.status = bridge[current].status
    BY <1>3 DEF ActiveBridge
  <2>2. bridge' = [bridge EXCEPT ![current] = b] /\ current' = 0
    BY <1>2, <1>3, <1>5 DEF Remove
  <2> HIDE DEF b
  <2>3. /\ bridge' \in [Setups -> ActiveBridge] /\ bridge'[current] = b
        /\ \A p \in Setups \ {current} : bridge'[p] = bridge[p]
    BY <1>2, <1>3, <2>1, <2>2, BridgeKept
  <2>4. Closes(current)
    BY <1>1, <1>2, <2>1, <2>3, CleanupCloses DEF Exists
  <2> QED
    BY <1>1, <2>2, <2>3, <2>4
<1> QED
  BY <1>4, <1>5

LEMMA RetryFacts ==
    ASSUME SetupShape, NEW k \in Clients, NEW o \in Setups, Retry(o, k)
    PROVE  LET old == bridge[o].client IN
           /\ Begins(k, o) /\ Exists(o) /\ timers[o] > 0 /\ ~bridge[o].closing
           /\ old \in Clients /\ owner[old] = o
           /\ bridge' \in [Setups -> ActiveBridge] /\ bridge'[o].pending = bridge[o].pending
           /\ \A p \in Setups \ {o} : bridge'[p] = bridge[p]
           /\ timers' \in [Setups -> Nat] /\ timers'[o] = timers[o] - 1
           /\ \A p \in Setups \ {o} : timers'[p] = timers[p]
           /\ link' \in [Clients -> Links] /\ \A j \in Clients : j # old => link'[j] = link[j]
           /\ link'[old] \notin {"connecting", "up"}
           /\ link[old] \notin {"connecting", "up"} => link'[old] = link[old]
           /\ crossed' = IF link[old] = "broken" /\ old \in heard THEN crossed \cup {o} ELSE crossed
           /\ UNCHANGED <<current, heard, faults, orphans, unheard>>
<1> DEFINE old == bridge[o].client
           b == [bridge[o] EXCEPT !.client = k, !.status = "connecting"]
<1>1. SetupTypeOK /\ bridge \in [Setups -> ActiveBridge] /\ timers \in [Setups -> Nat]
  BY DEF SetupShape, OfBridge, OfWorker, OfClient, SetupTypeOK
<1>2. /\ timers[o] > 0 /\ ~bridge[o].closing /\ owner[k] = 0 /\ Start(k, o)
      /\ timers' = [timers EXCEPT ![o] = @ - 1] /\ link' = Ended(old)
      /\ bridge' = [bridge EXCEPT ![o].client = k, ![o].status = "connecting"]
      /\ crossed' = IF link[old] = "broken" /\ old \in heard THEN crossed \cup {o} ELSE crossed
      /\ UNCHANGED <<current, heard, faults, orphans, unheard>>
  BY DEF Retry, Fresh
<1>3. Exists(o) /\ old \in Clients /\ owner[old] = o
  BY <1>1, <1>2 DEF SetupShape, OfBridge, OfWorker, OfClient
<1>4. /\ b \in ActiveBridge /\ b.client = k /\ b.closing = bridge[o].closing
      /\ b.pending = bridge[o].pending /\ b.status = "connecting"
  <2>1. bridge[o] \in ActiveBridge /\ k \in 0 .. MaxClients
    BY <1>1, SetupNumbers
  <2> QED
    BY <2>1 DEF ActiveBridge, Phases, Busy
<1>5. bridge' = [bridge EXCEPT ![o] = b]
  BY <1>1, <1>2
<1> HIDE DEF b, old
<1>6. /\ bridge' \in [Setups -> ActiveBridge] /\ bridge'[o] = b
      /\ \A p \in Setups \ {o} : bridge'[p] = bridge[p]
  BY <1>1, <1>4, <1>5, BridgeKept
<1>7. Begins(k, o)
  BY <1>2, <1>4, <1>6, StartBegins
<1>8. /\ timers' \in [Setups -> Nat] /\ timers'[o] = timers[o] - 1
      /\ \A p \in Setups \ {o} : timers'[p] = timers[p]
  BY <1>1, <1>2
<1>9. /\ link' \in [Clients -> Links] /\ \A j \in Clients : j # old => link'[j] = link[j]
      /\ link'[old] \notin {"connecting", "up"}
      /\ link[old] \notin {"connecting", "up"} => link'[old] = link[old]
  BY <1>1, <1>2, <1>3, EndedLinks
<1>10. bridge'[o].pending = bridge[o].pending
  BY <1>4, <1>6
<1> QED
  BY <1>2, <1>3, <1>6, <1>7, <1>8, <1>9, <1>10 DEF old

LEMMA RouteFacts ==
    ASSUME SetupShape, NEW c \in Calls, Password(c) \/ SkipSudo(c)
    PROVE  /\ current \in Setups /\ Exists(current) /\ c \in Workers /\ c \notin Clients
           /\ bridge[current].status = "needs_sudo_password" /\ bridge[current].pending
           /\ work[c].of = 0 /\ work[c].at = "none"
           /\ work' \in [Workers -> Worker] /\ work'[c].of = current
           /\ work'[c].at \in {"asking", "uploading"}
           /\ \A v \in Workers \ {c} : work'[v] = work[v]
           /\ bridge' \in [Setups -> ActiveBridge]
           /\ \A p \in Setups \ {current} : bridge'[p] = bridge[p]
           /\ bridge'[current].client = bridge[current].client
           /\ bridge'[current].closing = bridge[current].closing
           /\ bridge'[current].pending /\ bridge'[current].status # "none"
           /\ crossed' = IF UnderWay(current) = {} THEN crossed ELSE crossed \cup {current}
           /\ UNCHANGED <<current, timers, link, owner, heard, faults, orphans, unheard>>
<1> DEFINE on == IF Password(c) THEN bridge[current].client ELSE On(bridge[current].client)
           place == IF Password(c) THEN "asking" ELSE "uploading"
           mode == IF Password(c) THEN "system" ELSE "user"
<1>1. Route(c, place, on, mode)
  BY DEF Password, SkipSudo
<1>2. c \in Workers /\ c \notin Clients
  BY SetupNumbers
<1>3. /\ current # 0 /\ work[c].at = "none"
      /\ bridge[current].status = "needs_sudo_password" /\ bridge[current].pending
      /\ work' = [work EXCEPT ![c] = [at |-> place, of |-> current, on |-> on, mode |-> mode]]
      /\ crossed' = IF UnderWay(current) = {} THEN crossed ELSE crossed \cup {current}
      /\ UNCHANGED <<current, timers, link, owner, heard, faults, orphans, unheard>>
  BY <1>1 DEF Route
<1>4. current \in Setups /\ Exists(current) /\ bridge[current].client \in Clients
  BY <1>3, CurrentFacts
<1>5. work[c].of = 0
  BY <1>2, <1>3 DEF SetupShape, OfBridge, OfWorker, OfClient
<1>6. [at |-> place, of |-> current, on |-> on, mode |-> mode] \in Worker
  <2>1. on \in 0 .. MaxClients
    BY <1>4, SetupNumbers, OnType
  <2>2. place \in Awaits /\ mode \in {"setup", "system", "user", "fallback"}
    BY DEF Awaits
  <2>3. current \in 0 .. MaxSetups
    BY <1>4, SetupNumbers
  <2> HIDE DEF on, place, mode
  <2> QED
    BY <2>1, <2>2, <2>3 DEF Worker
<1>7. place \in {"asking", "uploading"}
  OBVIOUS
<1> HIDE DEF on, place, mode
<1>8. /\ work' \in [Workers -> Worker] /\ work'[c].of = current
      /\ work'[c].at \in {"asking", "uploading"}
      /\ \A v \in Workers \ {c} : work'[v] = work[v]
  <2>1. work \in [Workers -> Worker]
    BY DEF SetupShape, OfBridge, OfWorker, OfClient, SetupTypeOK
  <2>2. work'[c] = [at |-> place, of |-> current, on |-> on, mode |-> mode]
    BY <1>2, <1>3, <2>1
  <2> QED
    BY <1>2, <1>3, <1>6, <1>7, <2>1, <2>2
<1>9. SetupTypeOK /\ bridge \in [Setups -> ActiveBridge]
  BY DEF SetupShape, OfBridge, OfWorker, OfClient, SetupTypeOK
<1>10. /\ bridge' \in [Setups -> ActiveBridge]
       /\ \A p \in Setups \ {current} : bridge'[p] = bridge[p]
       /\ bridge'[current].client = bridge[current].client
       /\ bridge'[current].closing = bridge[current].closing
       /\ bridge'[current].pending = bridge[current].pending /\ bridge'[current].status # "none"
  <2>1. CASE Password(c)
    <3>1. bridge' = bridge
      BY <2>1 DEF Password
    <3> QED
      BY <1>4, <1>9, <3>1 DEF Exists
  <2>2. CASE SkipSudo(c)
    <3>1. Status(current, "installing") /\ "installing" \in Phases
      BY <2>2 DEF SkipSudo, Phases, Busy
    <3> QED
      BY <1>4, <1>9, <3>1, StatusKept
  <2> QED
    BY <2>1, <2>2
<1> QED
  BY <1>2, <1>3, <1>4, <1>5, <1>8, <1>10

\* An event of a session, with and without runSetup's handlers.
LEMMA EventFacts ==
    ASSUME SetupShape, NEW k \in Clients, Broken(k) \/ Closed(k)
    PROVE  LET o == owner[k] IN
           /\ link[k] \notin {"new", "connecting", "gone"} /\ link'[k] \in {"broken", "gone"}
           /\ link' \in [Clients -> Links] /\ \A j \in Clients \ {k} : link'[j] = link[j]
           /\ faults' \in 0 .. MaxFailures
           /\ UNCHANGED <<current, owner, crossed, heard, work, orphans>>
           /\ unheard' = unheard \/ unheard' = unheard \cup {k}
           /\ \/ /\ k \notin heard /\ UNCHANGED <<bridge, timers>>
                 /\ link'[k] = "gone" => k \in unheard'
              \/ /\ k \in heard /\ o \in Setups /\ Exists(o) /\ work[k].at = "ended"
                 /\ bridge' \in [Setups -> ActiveBridge] /\ timers' \in [Setups -> Nat]
                 /\ \A p \in Setups \ {o} : bridge'[p] = bridge[p] /\ timers'[p] = timers[p]
                 /\ bridge'[o].client = bridge[o].client /\ bridge'[o].closing = bridge[o].closing
                 /\ bridge'[o].status # "none" /\ bridge'[o].pending = bridge[o].pending
                 /\ bridge[o].closing => bridge' = bridge /\ timers' = timers
                 /\ ~bridge[o].closing => bridge'[o].status = "error"
                 /\ \/ timers'[o] = timers[o]
                    \/ timers'[o] = 1 /\ ~bridge[o].closing /\ ~bridge[o].pending
<1> DEFINE o == owner[k]
<1>1. SetupTypeOK /\ link \in [Clients -> Links] /\ k \in Workers
  BY SetupNumbers DEF SetupShape, OfBridge, OfWorker, OfClient, SetupTypeOK
<1>2. PICK next \in {"broken", "gone"} :
          /\ link' = [link EXCEPT ![k] = next]
          /\ IF k \in heard THEN \E transient \in BOOLEAN : Errored(o, transient)
             ELSE UNCHANGED <<bridge, timers>>
          /\ next = "gone" => IF k \in heard THEN unheard' = unheard
                              ELSE unheard' = unheard \cup {k}
          /\ next = "broken" => unheard' = unheard
  BY DEF Broken, Closed
<1>3. link[k] \notin {"new", "connecting", "gone"} /\ (Fault \/ NoFault)
      /\ UNCHANGED <<current, owner, crossed, heard, work, orphans>>
  BY DEF Broken, Closed, Keep
<1>4. faults' \in 0 .. MaxFailures
  BY <1>1, <1>3, FaultType
<1>5. /\ link'[k] = next /\ link' \in [Clients -> Links]
      /\ \A j \in Clients \ {k} : link'[j] = link[j]
  BY <1>1, <1>2 DEF Links
<1>6. CASE k \notin heard
  BY <1>2, <1>3, <1>4, <1>5, <1>6
<1>7. CASE k \in heard
  <2>1. work[k].at = "ended" /\ owner[k] = work[k].of
    BY <1>7 DEF SetupShape, OfBridge, OfWorker, OfClient
  <2>2. o # 0 /\ o \in 0 .. MaxSetups /\ Exists(o)
    BY <1>1, <2>1 DEF SetupShape, OfBridge, OfWorker, OfClient, SetupTypeOK
  <2>3. o \in Setups
    BY <2>2, SetupNumbers
  <2>4. PICK transient \in BOOLEAN : Errored(o, transient)
    BY <1>2, <1>7
  <2>5. /\ bridge' \in [Setups -> ActiveBridge] /\ timers' \in [Setups -> Nat]
        /\ \A p \in Setups \ {o} : bridge'[p] = bridge[p] /\ timers'[p] = timers[p]
        /\ bridge'[o].client = bridge[o].client /\ bridge'[o].closing = bridge[o].closing
        /\ bridge'[o].status # "none" /\ bridge'[o].pending = bridge[o].pending
        /\ bridge[o].closing => bridge' = bridge /\ timers' = timers
        /\ ~bridge[o].closing => bridge'[o].status = "error"
        /\ timers'[o] = timers[o] \/ (timers'[o] = 1 /\ ~bridge[o].closing /\ ~bridge[o].pending)
    BY <1>1, <2>2, <2>3, <2>4, ErroredKept
  <2>6. unheard' = unheard
    BY <1>2, <1>7
  <2> QED
    BY <1>3, <1>4, <1>5, <1>7, <2>1, <2>2, <2>3, <2>5, <2>6
<1> QED
  BY <1>6, <1>7

-----------------------------------------------------------------------------
(* Type correctness *)

LEMMA StepShape ==
    ASSUME SetupShape, NEW w \in Workers, Step(w)
    PROVE  SetupShape'
<1>1. /\ SetupTypeOK /\ w \in Workers /\ work[w].at \in Awaits /\ work[w].of \in Setups
      /\ Exists(work[w].of) /\ bridge[work[w].of].client \in Clients
      /\ Moves(w) /\ Keeps(w, work[w].of) /\ Linked(w, work[w].of)
  BY WorkerFacts DEF Step
<1>2. SetupTypeOK'
  <2>1. current' \in 0 .. MaxSetups
    BY <1>1, SetupNumbers DEF SetupShape, SetupTypeOK, Exists, Moves, Keeps, Linked
  <2>2. bridge' \in [Setups -> ActiveBridge] /\ timers' \in [Setups -> Nat]
    BY <1>1 DEF SetupShape, SetupTypeOK, Exists, Moves, Keeps, Linked
  <2>3. link' \in [Clients -> Links] /\ owner' \in [Clients -> 0 .. MaxSetups]
    BY <1>1 DEF SetupShape, SetupTypeOK, Exists, Moves, Keeps, Linked
  <2>4. heard' \subseteq Clients /\ work' \in [Workers -> Worker] /\ faults' \in 0 .. MaxFailures
    BY <1>1 DEF SetupShape, SetupTypeOK, Exists, Moves, Keeps, Linked
  <2>5. orphans' \subseteq Clients /\ unheard' \subseteq Clients /\ crossed' \subseteq Setups
    BY <1>1 DEF SetupShape, SetupTypeOK, Exists, Moves, Keeps, Linked
  <2>6. current' # 0 => bridge'[current'].status # "none"
    BY <1>1, SetupNumbers DEF SetupShape, SetupTypeOK, Exists, Moves, Keeps, Linked
  <2>7. \A p \in Setups : bridge'[p].closing => timers'[p] = 0
    BY <1>1 DEF SetupShape, SetupTypeOK, Exists, Moves, Keeps, Linked
  <2> QED
    BY <2>1, <2>2, <2>3, <2>4, <2>5, <2>6, <2>7 DEF SetupTypeOK
<1>3. ASSUME NEW p \in Setups PROVE OfBridge(p)'
  <2>1. OfBridge(p) /\ SetupTypeOK
    BY DEF SetupShape
  <2>2. (Exists(p) => bridge[p].client \in Clients /\ owner[bridge[p].client] = p)'
    BY <1>1, <2>1, SetupNumbers DEF OfBridge, Exists, Moves, Keeps, Linked
  <2>3. (~Exists(p) => timers[p] = 0 /\ ~bridge[p].pending /\ ~bridge[p].closing)'
    BY <1>1, <2>1, SetupNumbers DEF OfBridge, Exists, Moves, Keeps, Linked
  <2> QED
    BY <2>2, <2>3 DEF OfBridge
<1>4. ASSUME NEW v \in Workers PROVE OfWorker(v)'
  <2>1. OfWorker(v) /\ SetupTypeOK /\ work[v].of \in 0 .. MaxSetups
    BY DEF SetupShape, SetupTypeOK, Worker
  <2>2. (work[v].at = "none" <=> work[v].of = 0)'
    BY <1>1, <2>1, SetupNumbers DEF OfWorker, Awaits, Moves, Keeps, Linked
  <2>3. (work[v].of # 0 => Exists(work[v].of))'
    BY <1>1, <2>1, SetupNumbers DEF OfWorker, Exists, Moves, Keeps, Linked
  <2> QED
    BY <2>2, <2>3 DEF OfWorker
<1>5. ASSUME NEW j \in Clients PROVE OfClient(j)'
  <2>1. OfClient(j) /\ SetupTypeOK /\ j \in Workers
    BY SetupNumbers DEF SetupShape
  <2>2. (owner[j] = work[j].of)'
    BY <1>1, <2>1 DEF OfClient, Moves, Keeps, Linked
  <2>3. (work[j].at \in {"none", "resolving"} => link[j] = "new")'
    BY <1>1, <2>1 DEF OfClient, Awaits, Moves, Keeps, Linked
  <2>4. (j \in heard => work[j].at = "ended")'
    BY <1>1, <2>1 DEF OfClient, Awaits, Moves, Keeps, Linked
  <2> QED
    BY <2>2, <2>3, <2>4 DEF OfClient
<1>6. QED
  BY <1>2, <1>3, <1>4, <1>5 DEF SetupShape

LEMMA SetupShapeStep ==
    ASSUME SetupShape, NEW k \in Clients, NEW o \in Setups, Setup(k, o)
    PROVE  SetupShape'
<1>1. /\ Begins(k, o) /\ ~Exists(o) /\ current' = o /\ current # o
      /\ bridge' \in [Setups -> ActiveBridge] /\ ~bridge'[o].pending
      /\ \A p \in Setups \ {o, current} : bridge'[p] = bridge[p]
      /\ current # 0 => Closes(current)
      /\ current = 0 => UNCHANGED <<timers, link, unheard>>
      /\ UNCHANGED <<heard, faults, orphans, crossed>>
  BY SetupFacts
<1>2. SetupTypeOK'
  <2>1. current' \in 0 .. MaxSetups
    BY <1>1, SetupNumbers DEF SetupShape, SetupTypeOK, Exists, Begins, Closes
  <2>2. bridge' \in [Setups -> ActiveBridge] /\ timers' \in [Setups -> Nat]
    BY <1>1 DEF SetupShape, SetupTypeOK, Exists, Begins, Closes
  <2>3. link' \in [Clients -> Links] /\ owner' \in [Clients -> 0 .. MaxSetups]
    BY <1>1 DEF SetupShape, SetupTypeOK, Exists, Begins, Closes
  <2>4. heard' \subseteq Clients /\ work' \in [Workers -> Worker] /\ faults' \in 0 .. MaxFailures
    BY <1>1 DEF SetupShape, SetupTypeOK, Exists, Begins, Closes
  <2>5. orphans' \subseteq Clients /\ unheard' \subseteq Clients /\ crossed' \subseteq Setups
    BY <1>1, CurrentFacts, SetupNumbers DEF SetupShape, SetupTypeOK, Exists, Begins, Closes
  <2>6. current' # 0 => bridge'[current'].status # "none"
    BY <1>1, SetupNumbers DEF SetupShape, SetupTypeOK, Exists, Begins, Closes
  <2>7. \A p \in Setups : bridge'[p].closing => timers'[p] = 0
    BY <1>1, CurrentFacts, SetupNumbers DEF SetupShape, SetupTypeOK, Exists, Begins, Closes
  <2> QED
    BY <2>1, <2>2, <2>3, <2>4, <2>5, <2>6, <2>7 DEF SetupTypeOK
<1>3. ASSUME NEW p \in Setups PROVE OfBridge(p)'
  <2>1. OfBridge(p) /\ SetupTypeOK
    BY DEF SetupShape
  <2>2. (Exists(p) => bridge[p].client \in Clients /\ owner[bridge[p].client] = p)'
    BY <1>1, <2>1, SetupNumbers DEF OfBridge, Exists, Begins, Closes
  <2>3. (~Exists(p) => timers[p] = 0 /\ ~bridge[p].pending /\ ~bridge[p].closing)'
    BY <1>1, <2>1, SetupNumbers DEF OfBridge, Exists, Begins, Closes
  <2> QED
    BY <2>2, <2>3 DEF OfBridge
<1>4. ASSUME NEW v \in Workers PROVE OfWorker(v)'
  <2>1. OfWorker(v) /\ SetupTypeOK /\ work[v].of \in 0 .. MaxSetups
    BY DEF SetupShape, SetupTypeOK, Worker
  <2>2. (work[v].at = "none" <=> work[v].of = 0)'
    BY <1>1, <2>1, SetupNumbers DEF OfWorker, Awaits, Begins, Closes
  <2>3. (work[v].of # 0 => Exists(work[v].of))'
    BY <1>1, <2>1, SetupNumbers DEF OfWorker, Exists, Begins, Closes
  <2> QED
    BY <2>2, <2>3 DEF OfWorker
<1>5. ASSUME NEW j \in Clients PROVE OfClient(j)'
  <2>1. OfClient(j) /\ SetupTypeOK /\ j \in Workers
    BY SetupNumbers DEF SetupShape
  <2>2. (owner[j] = work[j].of)'
    BY <1>1, <2>1 DEF OfClient, Begins, Closes
  <2>3. (work[j].at \in {"none", "resolving"} => link[j] = "new")'
    BY <1>1, <2>1 DEF OfClient, Awaits, Begins, Closes
  <2>4. (j \in heard => work[j].at = "ended")'
    BY <1>1, <2>1 DEF OfClient, Awaits, Begins, Closes
  <2> QED
    BY <2>2, <2>3, <2>4 DEF OfClient
<1>6. QED
  BY <1>2, <1>3, <1>4, <1>5 DEF SetupShape

LEMMA CloseShapeStep ==
    ASSUME SetupShape, Disconnect \/ Remove
    PROVE  SetupShape'
<1>1. /\ current # 0 /\ Closes(current) /\ bridge' \in [Setups -> ActiveBridge]
      /\ \A p \in Setups \ {current} : bridge'[p] = bridge[p]
      /\ current' = 0 \/ current' = current
      /\ UNCHANGED <<owner, heard, work, faults, orphans, crossed>>
  BY CloseFacts
<1>2. SetupTypeOK'
  <2>1. current' \in 0 .. MaxSetups
    BY <1>1, SetupNumbers DEF SetupShape, SetupTypeOK, Exists, Closes
  <2>2. bridge' \in [Setups -> ActiveBridge] /\ timers' \in [Setups -> Nat]
    BY <1>1 DEF SetupShape, SetupTypeOK, Exists, Closes
  <2>3. link' \in [Clients -> Links] /\ owner' \in [Clients -> 0 .. MaxSetups]
    BY <1>1 DEF SetupShape, SetupTypeOK, Exists, Closes
  <2>4. heard' \subseteq Clients /\ work' \in [Workers -> Worker] /\ faults' \in 0 .. MaxFailures
    BY <1>1 DEF SetupShape, SetupTypeOK, Exists, Closes
  <2>5. orphans' \subseteq Clients /\ unheard' \subseteq Clients /\ crossed' \subseteq Setups
    BY <1>1, CurrentFacts, SetupNumbers DEF SetupShape, SetupTypeOK, Exists, Closes
  <2>6. current' # 0 => bridge'[current'].status # "none"
    BY <1>1, SetupNumbers DEF SetupShape, SetupTypeOK, Exists, Closes
  <2>7. \A p \in Setups : bridge'[p].closing => timers'[p] = 0
    BY <1>1, CurrentFacts, SetupNumbers DEF SetupShape, SetupTypeOK, Exists, Closes
  <2> QED
    BY <2>1, <2>2, <2>3, <2>4, <2>5, <2>6, <2>7 DEF SetupTypeOK
<1>3. ASSUME NEW p \in Setups PROVE OfBridge(p)'
  <2>1. OfBridge(p) /\ SetupTypeOK
    BY DEF SetupShape
  <2>2. (Exists(p) => bridge[p].client \in Clients /\ owner[bridge[p].client] = p)'
    BY <1>1, <2>1, SetupNumbers DEF OfBridge, Exists, Closes
  <2>3. (~Exists(p) => timers[p] = 0 /\ ~bridge[p].pending /\ ~bridge[p].closing)'
    BY <1>1, <2>1, SetupNumbers DEF OfBridge, Exists, Closes
  <2> QED
    BY <2>2, <2>3 DEF OfBridge
<1>4. ASSUME NEW v \in Workers PROVE OfWorker(v)'
  <2>1. OfWorker(v) /\ SetupTypeOK /\ work[v].of \in 0 .. MaxSetups
    BY DEF SetupShape, SetupTypeOK, Worker
  <2>2. (work[v].at = "none" <=> work[v].of = 0)'
    BY <1>1, <2>1, SetupNumbers DEF OfWorker, Awaits, Closes
  <2>3. (work[v].of # 0 => Exists(work[v].of))'
    BY <1>1, <2>1, SetupNumbers DEF OfWorker, Exists, Closes
  <2> QED
    BY <2>2, <2>3 DEF OfWorker
<1>5. ASSUME NEW j \in Clients PROVE OfClient(j)'
  <2>1. OfClient(j) /\ SetupTypeOK /\ j \in Workers
    BY SetupNumbers DEF SetupShape
  <2>2. (owner[j] = work[j].of)'
    BY <1>1, <2>1 DEF OfClient, Closes
  <2>3. (work[j].at \in {"none", "resolving"} => link[j] = "new")'
    BY <1>1, <2>1 DEF OfClient, Awaits, Closes
  <2>4. (j \in heard => work[j].at = "ended")'
    BY <1>1, <2>1 DEF OfClient, Awaits, Closes
  <2> QED
    BY <2>2, <2>3, <2>4 DEF OfClient
<1>6. QED
  BY <1>2, <1>3, <1>4, <1>5 DEF SetupShape

LEMMA RouteShapeStep ==
    ASSUME SetupShape, NEW c \in Calls, Password(c) \/ SkipSudo(c)
    PROVE  SetupShape'
<1>1. /\ current \in Setups /\ Exists(current) /\ c \in Workers /\ c \notin Clients
      /\ work[c].of = 0 /\ work[c].at = "none"
      /\ work' \in [Workers -> Worker] /\ work'[c].of = current
      /\ work'[c].at \in {"asking", "uploading"}
      /\ \A v \in Workers \ {c} : work'[v] = work[v]
      /\ bridge' \in [Setups -> ActiveBridge]
      /\ \A p \in Setups \ {current} : bridge'[p] = bridge[p]
      /\ bridge'[current].client = bridge[current].client
      /\ bridge'[current].closing = bridge[current].closing
      /\ bridge'[current].pending /\ bridge'[current].status # "none"
      /\ crossed' = IF UnderWay(current) = {} THEN crossed ELSE crossed \cup {current}
      /\ UNCHANGED <<current, timers, link, owner, heard, faults, orphans, unheard>>
  BY RouteFacts
<1>2. SetupTypeOK'
  <2>1. current' \in 0 .. MaxSetups
    BY <1>1, SetupNumbers DEF SetupShape, SetupTypeOK, Exists
  <2>2. bridge' \in [Setups -> ActiveBridge] /\ timers' \in [Setups -> Nat]
    BY <1>1 DEF SetupShape, SetupTypeOK, Exists
  <2>3. link' \in [Clients -> Links] /\ owner' \in [Clients -> 0 .. MaxSetups]
    BY <1>1 DEF SetupShape, SetupTypeOK, Exists
  <2>4. heard' \subseteq Clients /\ work' \in [Workers -> Worker] /\ faults' \in 0 .. MaxFailures
    BY <1>1 DEF SetupShape, SetupTypeOK, Exists
  <2>5. orphans' \subseteq Clients /\ unheard' \subseteq Clients /\ crossed' \subseteq Setups
    BY <1>1 DEF SetupShape, SetupTypeOK, Exists
  <2>6. current' # 0 => bridge'[current'].status # "none"
    BY <1>1, SetupNumbers DEF SetupShape, SetupTypeOK, Exists
  <2>7. \A p \in Setups : bridge'[p].closing => timers'[p] = 0
    BY <1>1 DEF SetupShape, SetupTypeOK, Exists
  <2> QED
    BY <2>1, <2>2, <2>3, <2>4, <2>5, <2>6, <2>7 DEF SetupTypeOK
<1>3. ASSUME NEW p \in Setups PROVE OfBridge(p)'
  <2>1. OfBridge(p) /\ SetupTypeOK
    BY DEF SetupShape
  <2>2. (Exists(p) => bridge[p].client \in Clients /\ owner[bridge[p].client] = p)'
    BY <1>1, <2>1, SetupNumbers DEF OfBridge, Exists
  <2>3. (~Exists(p) => timers[p] = 0 /\ ~bridge[p].pending /\ ~bridge[p].closing)'
    BY <1>1, <2>1, SetupNumbers DEF OfBridge, Exists
  <2> QED
    BY <2>2, <2>3 DEF OfBridge
<1>4. ASSUME NEW v \in Workers PROVE OfWorker(v)'
  <2>1. OfWorker(v) /\ SetupTypeOK /\ work[v].of \in 0 .. MaxSetups
    BY DEF SetupShape, SetupTypeOK, Worker
  <2>2. (work[v].at = "none" <=> work[v].of = 0)'
    BY <1>1, <2>1, SetupNumbers DEF OfWorker, Awaits
  <2>3. (work[v].of # 0 => Exists(work[v].of))'
    BY <1>1, <2>1, SetupNumbers DEF OfWorker, Exists
  <2> QED
    BY <2>2, <2>3 DEF OfWorker
<1>5. ASSUME NEW j \in Clients PROVE OfClient(j)'
  <2>1. OfClient(j) /\ SetupTypeOK /\ j \in Workers
    BY SetupNumbers DEF SetupShape
  <2>2. (owner[j] = work[j].of)'
    BY <1>1, <2>1 DEF OfClient
  <2>3. (work[j].at \in {"none", "resolving"} => link[j] = "new")'
    BY <1>1, <2>1 DEF OfClient, Awaits
  <2>4. (j \in heard => work[j].at = "ended")'
    BY <1>1, <2>1 DEF OfClient, Awaits
  <2> QED
    BY <2>2, <2>3, <2>4 DEF OfClient
<1>6. QED
  BY <1>2, <1>3, <1>4, <1>5 DEF SetupShape

LEMMA EventShapeStep ==
    ASSUME SetupShape, NEW k \in Clients, Broken(k) \/ Closed(k)
    PROVE  SetupShape'
<1>1. /\ link[k] \notin {"new", "connecting", "gone"} /\ link'[k] \in {"broken", "gone"}
      /\ link' \in [Clients -> Links] /\ \A j \in Clients \ {k} : link'[j] = link[j]
      /\ faults' \in 0 .. MaxFailures
      /\ UNCHANGED <<current, owner, crossed, heard, work, orphans>>
      /\ unheard' = unheard \/ unheard' = unheard \cup {k}
  BY EventFacts
<1>2. \/ UNCHANGED <<bridge, timers>>
      \/ LET o == owner[k] IN
         /\ o \in Setups /\ Exists(o)
         /\ bridge' \in [Setups -> ActiveBridge] /\ timers' \in [Setups -> Nat]
         /\ \A p \in Setups \ {o} : bridge'[p] = bridge[p] /\ timers'[p] = timers[p]
         /\ bridge'[o].client = bridge[o].client /\ bridge'[o].closing = bridge[o].closing
         /\ bridge'[o].status # "none" /\ bridge'[o].pending = bridge[o].pending
         /\ bridge[o].closing => timers' = timers
  BY EventFacts
<1>3. SetupTypeOK'
  <2>1. current' \in 0 .. MaxSetups
    BY <1>1, <1>2, SetupNumbers DEF SetupShape, SetupTypeOK, Exists
  <2>2. bridge' \in [Setups -> ActiveBridge] /\ timers' \in [Setups -> Nat]
    BY <1>1, <1>2 DEF SetupShape, SetupTypeOK, Exists
  <2>3. link' \in [Clients -> Links] /\ owner' \in [Clients -> 0 .. MaxSetups]
    BY <1>1, <1>2 DEF SetupShape, SetupTypeOK, Exists
  <2>4. heard' \subseteq Clients /\ work' \in [Workers -> Worker] /\ faults' \in 0 .. MaxFailures
    BY <1>1, <1>2 DEF SetupShape, SetupTypeOK, Exists
  <2>5. orphans' \subseteq Clients /\ unheard' \subseteq Clients /\ crossed' \subseteq Setups
    BY <1>1, <1>2 DEF SetupShape, SetupTypeOK, Exists
  <2>6. current' # 0 => bridge'[current'].status # "none"
    BY <1>1, <1>2, SetupNumbers DEF SetupShape, SetupTypeOK, Exists
  <2>7. \A p \in Setups : bridge'[p].closing => timers'[p] = 0
    BY <1>1, <1>2 DEF SetupShape, SetupTypeOK, Exists
  <2> QED
    BY <2>1, <2>2, <2>3, <2>4, <2>5, <2>6, <2>7 DEF SetupTypeOK
<1>4. ASSUME NEW p \in Setups PROVE OfBridge(p)'
  <2>1. OfBridge(p) /\ SetupTypeOK
    BY DEF SetupShape
  <2>2. (Exists(p) => bridge[p].client \in Clients /\ owner[bridge[p].client] = p)'
    BY <1>1, <1>2, <2>1, SetupNumbers DEF OfBridge, Exists
  <2>3. (~Exists(p) => timers[p] = 0 /\ ~bridge[p].pending /\ ~bridge[p].closing)'
    BY <1>1, <1>2, <2>1, SetupNumbers DEF OfBridge, Exists
  <2> QED
    BY <2>2, <2>3 DEF OfBridge
<1>5. ASSUME NEW v \in Workers PROVE OfWorker(v)'
  <2>1. OfWorker(v) /\ SetupTypeOK /\ work[v].of \in 0 .. MaxSetups
    BY DEF SetupShape, SetupTypeOK, Worker
  <2>2. (work[v].at = "none" <=> work[v].of = 0)'
    BY <1>1, <1>2, <2>1, SetupNumbers DEF OfWorker, Awaits
  <2>3. (work[v].of # 0 => Exists(work[v].of))'
    BY <1>1, <1>2, <2>1, SetupNumbers DEF OfWorker, Exists
  <2> QED
    BY <2>2, <2>3 DEF OfWorker
<1>6. ASSUME NEW j \in Clients PROVE OfClient(j)'
  <2>1. OfClient(j) /\ SetupTypeOK /\ j \in Workers
    BY SetupNumbers DEF SetupShape
  <2>2. (owner[j] = work[j].of)'
    BY <1>1, <1>2, <2>1 DEF OfClient
  <2>3. (work[j].at \in {"none", "resolving"} => link[j] = "new")'
    BY <1>1, <1>2, <2>1 DEF OfClient, Awaits
  <2>4. (j \in heard => work[j].at = "ended")'
    BY <1>1, <1>2, <2>1 DEF OfClient, Awaits
  <2> QED
    BY <2>2, <2>3, <2>4 DEF OfClient
<1>7. QED
  BY <1>3, <1>4, <1>5, <1>6 DEF SetupShape

LEMMA RetryShapeStep ==
    ASSUME SetupShape, NEW k \in Clients, NEW o \in Setups, Retry(o, k)
    PROVE  SetupShape'
<1>1. /\ Begins(k, o) /\ Exists(o) /\ timers[o] > 0 /\ ~bridge[o].closing
      /\ bridge[o].client \in Clients /\ owner[bridge[o].client] = o
      /\ bridge' \in [Setups -> ActiveBridge] /\ bridge'[o].pending = bridge[o].pending
      /\ \A p \in Setups \ {o} : bridge'[p] = bridge[p]
      /\ timers' \in [Setups -> Nat] /\ timers'[o] = timers[o] - 1
      /\ \A p \in Setups \ {o} : timers'[p] = timers[p]
      /\ link' \in [Clients -> Links]
      /\ \A j \in Clients : j # bridge[o].client => link'[j] = link[j]
      /\ link[bridge[o].client] \notin {"connecting", "up"} =>
             link'[bridge[o].client] = link[bridge[o].client]
      /\ crossed' \in {crossed, crossed \cup {o}}
      /\ UNCHANGED <<current, heard, faults, orphans, unheard>>
  BY RetryFacts
<1>2. SetupTypeOK'
  <2>1. current' \in 0 .. MaxSetups
    BY <1>1, SetupNumbers DEF SetupShape, SetupTypeOK, Exists, Begins
  <2>2. bridge' \in [Setups -> ActiveBridge] /\ timers' \in [Setups -> Nat]
    BY <1>1 DEF SetupShape, SetupTypeOK, Exists, Begins
  <2>3. link' \in [Clients -> Links] /\ owner' \in [Clients -> 0 .. MaxSetups]
    BY <1>1 DEF SetupShape, SetupTypeOK, Exists, Begins
  <2>4. heard' \subseteq Clients /\ work' \in [Workers -> Worker] /\ faults' \in 0 .. MaxFailures
    BY <1>1 DEF SetupShape, SetupTypeOK, Exists, Begins
  <2>5. orphans' \subseteq Clients /\ unheard' \subseteq Clients /\ crossed' \subseteq Setups
    BY <1>1 DEF SetupShape, SetupTypeOK, Exists, Begins
  <2>6. current' # 0 => bridge'[current'].status # "none"
    BY <1>1, SetupNumbers DEF SetupShape, SetupTypeOK, Exists, Begins
  <2>7. \A p \in Setups : bridge'[p].closing => timers'[p] = 0
    BY <1>1 DEF SetupShape, SetupTypeOK, Exists, Begins
  <2> QED
    BY <2>1, <2>2, <2>3, <2>4, <2>5, <2>6, <2>7 DEF SetupTypeOK
<1>3. ASSUME NEW p \in Setups PROVE OfBridge(p)'
  <2>1. OfBridge(p) /\ SetupTypeOK
    BY DEF SetupShape
  <2>2. (Exists(p) => bridge[p].client \in Clients /\ owner[bridge[p].client] = p)'
    BY <1>1, <2>1, SetupNumbers DEF OfBridge, Exists, Begins
  <2>3. (~Exists(p) => timers[p] = 0 /\ ~bridge[p].pending /\ ~bridge[p].closing)'
    BY <1>1, <2>1, SetupNumbers DEF OfBridge, Exists, Begins
  <2> QED
    BY <2>2, <2>3 DEF OfBridge
<1>4. ASSUME NEW v \in Workers PROVE OfWorker(v)'
  <2>1. OfWorker(v) /\ SetupTypeOK /\ work[v].of \in 0 .. MaxSetups
    BY DEF SetupShape, SetupTypeOK, Worker
  <2>2. (work[v].at = "none" <=> work[v].of = 0)'
    BY <1>1, <2>1, SetupNumbers DEF OfWorker, Awaits, Begins
  <2>3. (work[v].of # 0 => Exists(work[v].of))'
    BY <1>1, <2>1, SetupNumbers DEF OfWorker, Exists, Begins
  <2> QED
    BY <2>2, <2>3 DEF OfWorker
<1>5. ASSUME NEW j \in Clients PROVE OfClient(j)'
  <2>1. OfClient(j) /\ SetupTypeOK /\ j \in Workers
    BY SetupNumbers DEF SetupShape
  <2>2. (owner[j] = work[j].of)'
    BY <1>1, <2>1 DEF OfClient, Begins
  <2>3. (work[j].at \in {"none", "resolving"} => link[j] = "new")'
    BY <1>1, <2>1 DEF OfClient, Awaits, Begins
  <2>4. (j \in heard => work[j].at = "ended")'
    BY <1>1, <2>1 DEF OfClient, Awaits, Begins
  <2> QED
    BY <2>2, <2>3, <2>4 DEF OfClient
<1>6. QED
  BY <1>2, <1>3, <1>4, <1>5 DEF SetupShape

LEMMA ShapeInit ==
    ASSUME SetupInit PROVE SetupShape
<1>1. /\ 0 \in 0 .. MaxSetups /\ 0 \in 0 .. MaxClients /\ 0 \in 0 .. MaxAttempts
      /\ 0 \in 0 .. MaxFailures
  BY SetupAssumption
<1>2. [status |-> "none", closing |-> FALSE, client |-> 0, pending |-> FALSE, retryAttempt |-> 0]
      \in ActiveBridge
  BY <1>1 DEF ActiveBridge
<1>3. [at |-> "none", of |-> 0, on |-> 0, mode |-> "setup"] \in Worker
  BY <1>1 DEF Worker
<1>4. SetupTypeOK
  BY <1>1, <1>2, <1>3 DEF SetupInit, SetupTypeOK, Links
<1>5. (\A k \in Clients : k \in Workers)
  BY SetupNumbers
<1> QED
  BY <1>4, <1>5 DEF SetupInit, SetupShape, OfBridge, OfWorker, OfClient, Exists

\* What a step is, for every proof that goes on from here.
LEMMA Cases ==
    ASSUME SetupShape, [SetupNext]_setupVars
    PROVE  \/ \E w \in Workers : Step(w)
           \/ \E k \in Clients, o \in Setups : Setup(k, o) \/ Retry(o, k)
           \/ Disconnect \/ Remove
           \/ \E c \in Calls : Password(c) \/ SkipSudo(c)
           \/ \E k \in Clients : Broken(k) \/ Closed(k)
           \/ UNCHANGED setupVars
BY WorkerSteps DEF SetupNext

LEMMA ShapeStep ==
    ASSUME SetupShape, [SetupNext]_setupVars PROVE SetupShape'
<1>1. CASE UNCHANGED setupVars
  BY <1>1 DEF setupVars, SetupShape, SetupTypeOK, OfBridge, OfWorker, OfClient, Exists
<1> QED
  BY <1>1, Cases, StepShape, SetupShapeStep, CloseShapeStep, RouteShapeStep, EventShapeStep,
     RetryShapeStep

LEMMA AlwaysShape == SetupSpec => []SetupShape
BY ShapeInit, ShapeStep, PTL DEF SetupSpec

\* The types of the bridges, sessions and workers, and that no timer is left of a
\* bridge that was given up.
THEOREM SetupTypeCorrect == SetupSpec => []SetupTypeOK
<1>1. SetupShape => SetupTypeOK
  BY DEF SetupShape
<1> QED
  BY <1>1, AlwaysShape, PTL

-----------------------------------------------------------------------------
(* Whose a session is                                                      *)

\* Of the bridges that are not closing at most the listed one exists; the session
\* that is open or being opened is its client's.
OwnInv ==
    /\ \A o \in Setups : Exists(o) /\ ~bridge[o].closing => o = current
    /\ \A k \in Clients \ orphans : link[k] \in {"connecting", "up"} =>
          owner[k] # 0 /\ bridge[owner[k]].client = k /\ ~bridge[owner[k]].closing

LEMMA OwnerFacts ==
    ASSUME SetupShape, NEW k \in Clients, owner[k] # 0
    PROVE  owner[k] \in Setups /\ Exists(owner[k]) /\ k \in Workers /\ work[k].of = owner[k]
<1>1. k \in Workers /\ owner[k] \in 0 .. MaxSetups /\ OfClient(k) /\ OfWorker(k)
  BY SetupNumbers DEF SetupShape, SetupTypeOK
<1>2. owner[k] \in Setups
  BY <1>1, SetupNumbers
<1> QED
  BY <1>1, <1>2 DEF OfClient, OfWorker

\* The session that is open is the current bridge's.
LEMMA OpenIsCurrent ==
    ASSUME SetupShape, OwnInv, NEW k \in Clients \ orphans, link[k] \in {"connecting", "up"}
    PROVE  current # 0 /\ owner[k] = current /\ bridge[current].client = k /\ ~bridge[current].closing
<1>1. owner[k] # 0 /\ bridge[owner[k]].client = k /\ ~bridge[owner[k]].closing
  BY DEF OwnInv
<1>2. owner[k] \in Setups /\ Exists(owner[k])
  BY <1>1, OwnerFacts
<1>3. owner[k] = current
  BY <1>1, <1>2 DEF OwnInv
<1> QED
  BY <1>1, <1>3

LEMMA OwnStep ==
    ASSUME SetupShape, OwnInv, [SetupNext]_setupVars PROVE OwnInv'
<1>1. ASSUME NEW w \in Workers, Step(w) PROVE OwnInv'
  <2> DEFINE o == work[w].of
  <2>1. /\ o \in Setups /\ Exists(o) /\ Moves(w) /\ Keeps(w, o) /\ Linked(w, o)
    BY <1>1, WorkerFacts DEF Step
  <2>2. ASSUME NEW p \in Setups, (Exists(p) /\ ~bridge[p].closing)' PROVE p = current'
    <3>1. Exists(p) /\ ~bridge[p].closing
      BY <2>1, <2>2 DEF Keeps, Exists
    <3> QED
      BY <2>1, <3>1 DEF OwnInv, Moves
  <2>3. ASSUME NEW k \in Clients \ orphans', link'[k] \in {"connecting", "up"}
        PROVE  owner'[k] # 0 /\ bridge'[owner'[k]].client = k /\ ~bridge'[owner'[k]].closing
    <3>1. owner' = owner /\ k \notin orphans
      BY <2>1 DEF Moves, Linked
    <3>2. ASSUME owner[k] # 0, bridge[owner[k]].client = k, ~bridge[owner[k]].closing
          PROVE  owner'[k] # 0 /\ bridge'[owner'[k]].client = k /\ ~bridge'[owner'[k]].closing
      <4>1. owner[k] \in Setups
        BY <3>2, OwnerFacts
      <4> QED
        BY <2>1, <3>1, <3>2, <4>1 DEF Keeps
    <3>3. CASE link[k] \in {"connecting", "up"}
      BY <3>1, <3>2, <3>3 DEF OwnInv
    <3>4. CASE link[k] \notin {"connecting", "up"}
      <4>1. k = w /\ w \in Clients
        BY <2>1, <2>3, <3>4 DEF Linked
      <4>2. bridge[o].client = w /\ ~bridge[o].closing
        BY <2>1, <2>3, <3>4, <4>1 DEF Linked
      <4>3. owner[k] = o
        BY <4>1 DEF SetupShape, OfClient
      <4> QED
        BY <2>1, <3>2, <4>1, <4>2, <4>3, SetupNumbers
    <3> QED
      BY <3>3, <3>4
  <2> QED
    BY <2>2, <2>3 DEF OwnInv
<1>2. ASSUME NEW k \in Clients, NEW o \in Setups, Setup(k, o) PROVE OwnInv'
  <2>1. /\ Begins(k, o) /\ ~Exists(o) /\ current' = o /\ current # o
        /\ \A p \in Setups \ {o, current} : bridge'[p] = bridge[p]
        /\ current # 0 => Closes(current)
        /\ current = 0 => UNCHANGED <<timers, link, unheard>>
        /\ UNCHANGED <<heard, faults, orphans, crossed>>
    BY <1>2, SetupFacts
  <2>2. ASSUME NEW p \in Setups, (Exists(p) /\ ~bridge[p].closing)' PROVE p = current'
    <3>1. CASE p = o
      BY <2>1, <3>1
    <3>2. CASE p = current /\ p # o
      BY <2>1, <2>2, <3>2, CurrentFacts, SetupNumbers DEF Closes
    <3>3. CASE p \notin {o, current}
      BY <2>1, <2>2, <3>3 DEF OwnInv, Exists
    <3> QED
      BY <3>1, <3>2, <3>3
  <2>3. ASSUME NEW j \in Clients \ orphans', link'[j] \in {"connecting", "up"}
        PROVE  FALSE
    <3>1. link[j] = link'[j]
      BY <2>1, <2>3 DEF Closes
    <3>2. current # 0 /\ bridge[current].client = j
      BY <2>1, <2>3, <3>1, OpenIsCurrent
    <3> QED
      BY <2>1, <2>3, <3>2 DEF Closes
  <2> QED
    BY <2>2, <2>3 DEF OwnInv
<1>3. ASSUME NEW k \in Clients, NEW o \in Setups, Retry(o, k) PROVE OwnInv'
  <2> DEFINE old == bridge[o].client
  <2>1. /\ Begins(k, o) /\ Exists(o) /\ ~bridge[o].closing
        /\ \A p \in Setups \ {o} : bridge'[p] = bridge[p]
        /\ \A j \in Clients : j # old => link'[j] = link[j]
        /\ link'[old] \notin {"connecting", "up"}
        /\ UNCHANGED <<current, heard, faults, orphans, unheard>>
    BY <1>3, RetryFacts
  <2>2. o = current
    BY <2>1 DEF OwnInv
  <2>3. ASSUME NEW p \in Setups, (Exists(p) /\ ~bridge[p].closing)' PROVE p = current'
    BY <2>1, <2>2, <2>3 DEF OwnInv, Exists
  <2>4. ASSUME NEW j \in Clients \ orphans', link'[j] \in {"connecting", "up"}
        PROVE  FALSE
    <3>1. link[j] = link'[j] /\ j # old
      BY <2>1, <2>4
    <3> QED
      BY <2>1, <2>2, <2>4, <3>1, OpenIsCurrent
  <2> QED
    BY <2>3, <2>4 DEF OwnInv
<1>4. CASE Disconnect \/ Remove
  <2>1. /\ current # 0 /\ Closes(current)
        /\ \A p \in Setups \ {current} : bridge'[p] = bridge[p]
        /\ UNCHANGED <<owner, heard, work, faults, orphans, crossed>>
    BY <1>4, CloseFacts
  <2>2. ASSUME NEW p \in Setups, (Exists(p) /\ ~bridge[p].closing)' PROVE p = current'
    BY <2>1, <2>2 DEF OwnInv, Exists, Closes
  <2>3. ASSUME NEW j \in Clients \ orphans', link'[j] \in {"connecting", "up"}
        PROVE  FALSE
    <3>1. link[j] = link'[j] /\ j # bridge[current].client
      BY <2>1, <2>3 DEF Closes
    <3> QED
      BY <2>1, <2>3, <3>1, OpenIsCurrent
  <2> QED
    BY <2>2, <2>3 DEF OwnInv
<1>5. ASSUME NEW c \in Calls, Password(c) \/ SkipSudo(c) PROVE OwnInv'
  <2>1. /\ current \in Setups /\ Exists(current)
        /\ \A p \in Setups \ {current} : bridge'[p] = bridge[p]
        /\ bridge'[current].client = bridge[current].client
        /\ bridge'[current].closing = bridge[current].closing
        /\ UNCHANGED <<current, timers, link, owner, heard, faults, orphans, unheard>>
    BY <1>5, RouteFacts
  <2>2. ASSUME NEW p \in Setups, (Exists(p) /\ ~bridge[p].closing)' PROVE p = current'
    BY <2>1, <2>2 DEF OwnInv, Exists
  <2>3. ASSUME NEW j \in Clients \ orphans', link'[j] \in {"connecting", "up"}
        PROVE  owner'[j] # 0 /\ bridge'[owner'[j]].client = j /\ ~bridge'[owner'[j]].closing
    BY <2>1, <2>3, OpenIsCurrent
  <2> QED
    BY <2>2, <2>3 DEF OwnInv
<1>6. ASSUME NEW k \in Clients, Broken(k) \/ Closed(k) PROVE OwnInv'
  <2>1. /\ link'[k] \in {"broken", "gone"}
        /\ \A j \in Clients \ {k} : link'[j] = link[j]
        /\ UNCHANGED <<current, owner, crossed, heard, work, orphans>>
    BY <1>6, EventFacts
  <2>2. \A p \in Setups : /\ bridge'[p].client = bridge[p].client
                          /\ bridge'[p].closing = bridge[p].closing
                          /\ Exists(p)' => Exists(p)
    BY <1>6, EventFacts DEF Exists
  <2>3. ASSUME NEW p \in Setups, (Exists(p) /\ ~bridge[p].closing)' PROVE p = current'
    BY <2>1, <2>2, <2>3 DEF OwnInv
  <2>4. ASSUME NEW j \in Clients \ orphans', link'[j] \in {"connecting", "up"}
        PROVE  owner'[j] # 0 /\ bridge'[owner'[j]].client = j /\ ~bridge'[owner'[j]].closing
    <3>1. link[j] = link'[j]
      BY <2>1, <2>4
    <3>2. current # 0 /\ owner[j] = current /\ bridge[current].client = j /\ ~bridge[current].closing
      BY <2>1, <2>4, <3>1, OpenIsCurrent
    <3> QED
      BY <2>1, <2>2, <3>2, CurrentFacts
  <2> QED
    BY <2>3, <2>4 DEF OwnInv
<1>7. CASE UNCHANGED setupVars
  BY <1>7 DEF setupVars, OwnInv, Exists
<1> QED
  BY <1>1, <1>2, <1>3, <1>4, <1>5, <1>6, <1>7, Cases

\* Every session that is open is the one of the listed bridge, unless its client was
\* given up before it began to connect.
THEOREM NoSessionIsLeft == SetupSpec => []SessionsOwned
<1>1. SetupInit => OwnInv
  BY DEF SetupInit, OwnInv, Exists
<1>2. SetupShape /\ OwnInv /\ [SetupNext]_setupVars => OwnInv'
  BY OwnStep
<1>3. SetupShape /\ OwnInv => SessionsOwned
  BY OpenIsCurrent DEF SessionsOwned
<1> QED
  BY <1>1, <1>2, <1>3, AlwaysShape, PTL DEF SetupSpec

-----------------------------------------------------------------------------
(* One thing at a time                                                     *)

Open(o) == Exists(o) /\ ~bridge[o].closing

\* A route was or may be wanted for.
RouteWanted(o) == bridge[o].pending \/ \E c \in Calls : work[c].of = o

\* Retries are due when nothing is under way, by the last client's doing: the other
\* clients with handlers are gone.  A bridge that a route may work on has a client
\* without handlers, and no retry is due.
OneFor(o) ==
    /\ \A v, w \in UnderWay(o) : v = w
    /\ timers[o] \in {0, 1}
    /\ timers[o] = 1 => UnderWay(o) = {}
    /\ \A k \in UnderWay(o) \cap Clients : k = bridge[o].client
    /\ timers[o] = 1 /\ bridge[o].client \in heard => link[bridge[o].client] \in {"broken", "gone"}
    /\ \A k \in heard : owner[k] = o /\ k # bridge[o].client => link[k] = "gone"
    /\ RouteWanted(o) => /\ bridge[o].client \notin heard /\ work[bridge[o].client].at = "ended"
                    /\ timers[o] = 0

OneInv == \A o \in Setups \ crossed : Open(o) => OneFor(o)

\* What concerns o stays as it is.
Same(o) ==
    /\ bridge'[o] = bridge[o] /\ timers'[o] = timers[o]
    /\ \A v \in Workers : work[v].of = o \/ work'[v].of = o => work'[v] = work[v]
    /\ \A k \in Clients : owner[k] = o \/ owner'[k] = o =>
          owner'[k] = owner[k] /\ link'[k] = link[k] /\ (k \in heard' <=> k \in heard)

LEMMA SameWork ==
    ASSUME NEW o, \A v \in Workers : work[v].of = o \/ work'[v].of = o => work'[v] = work[v]
    PROVE  UnderWay(o)' = UnderWay(o)
BY DEF UnderWay

LEMMA OneSame ==
    ASSUME SetupShape, SetupShape', NEW o \in Setups, Same(o), Open(o)', Open(o) => OneFor(o)
    PROVE  OneFor(o)'
<1>1. Open(o) /\ OneFor(o)
  BY DEF Same, Open, Exists
<1>2. UnderWay(o)' = UnderWay(o)
  BY SameWork DEF Same
<1>3. bridge[o].client \in Clients /\ owner[bridge[o].client] = o /\ bridge[o].client \in Workers
      /\ work[bridge[o].client].of = o
  BY <1>1, SetupNumbers DEF SetupShape, OfBridge, OfClient, Open
<1>4. heard' \subseteq Clients /\ heard \subseteq Clients
  BY DEF SetupShape, SetupTypeOK
<1>5. RouteWanted(o)' => RouteWanted(o)
  BY SetupNumbers DEF RouteWanted, Same
<1>6. /\ link'[bridge[o].client] = link[bridge[o].client]
      /\ bridge[o].client \in heard' <=> bridge[o].client \in heard
      /\ work'[bridge[o].client] = work[bridge[o].client]
  BY <1>3 DEF Same
<1>7. ASSUME NEW k \in heard', owner'[k] = o, k # bridge'[o].client PROVE link'[k] = "gone"
  BY <1>1, <1>4, <1>7 DEF Same, OneFor
<1> QED
  BY <1>1, <1>2, <1>3, <1>5, <1>6, <1>7 DEF OneFor, Same

\* The client of o, its owner and its place.
LEMMA ClientFacts ==
    ASSUME SetupShape, NEW o \in Setups, Exists(o)
    PROVE  /\ bridge[o].client \in Clients /\ bridge[o].client \in Workers
           /\ owner[bridge[o].client] = o /\ work[bridge[o].client].of = o
           /\ heard \subseteq Clients /\ timers[o] \in Nat
           /\ \A k \in Clients : k \in Workers /\ owner[k] = work[k].of /\ k \notin Calls
           /\ \A k \in heard : work[k].at = "ended"
BY SetupNumbers DEF SetupShape, SetupTypeOK, OfBridge, OfClient

\* While something is under way there is only that, and no retry is due.
LEMMA OneUnderWay ==
    ASSUME SetupShape, NEW o \in Setups, Open(o), OneFor(o), NEW w \in UnderWay(o)
    PROVE  /\ UnderWay(o) = {w} /\ timers[o] = 0
           /\ w \in Clients => bridge[o].client = w /\ w \notin heard /\ ~RouteWanted(o)
           /\ w \in Calls => RouteWanted(o)
<1>1. UnderWay(o) = {w} /\ timers[o] = 0
  BY DEF OneFor
<1>2. w \in Workers /\ work[w].of = o /\ work[w].at # "ended"
  BY DEF UnderWay, Awaits
<1>3. ASSUME w \in Clients PROVE bridge[o].client = w /\ w \notin heard /\ ~RouteWanted(o)
  <2>1. bridge[o].client = w
    BY <1>3 DEF OneFor
  <2>2. ~RouteWanted(o)
    BY <1>2, <2>1 DEF OneFor
  <2> QED
    BY <1>2, <1>3, <2>1, <2>2, ClientFacts DEF Open
<1>4. w \in Calls => RouteWanted(o)
  BY <1>2 DEF RouteWanted
<1> QED
  BY <1>1, <1>3, <1>4

\* Nothing is under way once the client has its handlers, and no route is wanted.
LEMMA HeardIsIdle ==
    ASSUME SetupShape, NEW o \in Setups, Open(o), OneFor(o), NEW k \in heard, owner[k] = o,
           link[k] # "gone"
    PROVE  k = bridge[o].client /\ UnderWay(o) = {} /\ ~RouteWanted(o)
<1>1. k = bridge[o].client
  BY DEF OneFor
<1>2. ~RouteWanted(o)
  BY <1>1 DEF OneFor
<1>3. ASSUME NEW w \in UnderWay(o) PROVE FALSE
  <2>1. w \in Workers /\ work[w].at # "ended"
    BY DEF UnderWay, Awaits
  <2>2. w \notin Calls /\ w \in Clients
    BY <1>2, <2>1, OneUnderWay DEF Workers
  <2> QED
    BY <1>1, <2>2, OneUnderWay
<1> QED
  BY <1>1, <1>2, <1>3

LEMMA OneWorkerStep ==
    ASSUME SetupShape, SetupShape', OneInv, NEW w \in Workers, Step(w),
           NEW o \in Setups \ crossed', Open(o)'
    PROVE  OneFor(o)'
<1> DEFINE of == work[w].of
<1>1. /\ of \in Setups /\ Exists(of) /\ Moves(w) /\ Keeps(w, of) /\ Linked(w, of)
      /\ work[w].at \in Awaits
  BY WorkerFacts DEF Step
<1>2. CASE o # of
  <2>1. \A k \in Clients : owner[k] = work[k].of
    BY DEF SetupShape, OfClient
  <2>2. Same(o)
    BY <1>1, <1>2, <2>1, SetupNumbers DEF Same, Moves, Keeps, Linked
  <2>3. Open(o) => OneFor(o)
    BY <1>1 DEF OneInv, Moves
  <2> QED
    BY <2>2, <2>3, OneSame
<1>3. CASE o = of
  <2> DEFINE c == bridge[o].client
  <2>1. Open(o)
    BY <1>1, <1>3 DEF Open, Keeps
  <2>2. OneFor(o) /\ w \in UnderWay(o)
    BY <1>1, <1>3, <2>1 DEF OneInv, Moves, UnderWay
  <2>3. /\ UnderWay(o) = {w} /\ timers[o] = 0
        /\ w \in Clients => c = w /\ w \notin heard /\ ~RouteWanted(o)
        /\ w \in Calls => RouteWanted(o)
    BY <2>1, <2>2, OneUnderWay
  <2>4. /\ c \in Clients /\ c \in Workers /\ heard \subseteq Clients
        /\ \A k \in Clients : k \in Workers /\ owner[k] = work[k].of /\ k \notin Calls
    BY <2>1, ClientFacts DEF Open
  <2>5. UnderWay(o)' \subseteq {w} /\ (work'[w].at = "ended" => UnderWay(o)' = {})
    <3>1. \A v \in Workers : v # w => work'[v] = work[v]
      BY <1>1 DEF Moves
    <3>2. "ended" \notin Awaits
      BY DEF Awaits
    <3> QED
      BY <2>3, <3>1, <3>2 DEF UnderWay
  <2>6. /\ bridge'[o].client = c /\ timers'[o] \in {0, 1}
        /\ timers'[o] = 1 => w \in Clients /\ work'[w].at = "ended" /\ heard' = heard
    BY <1>1, <1>3, <2>3 DEF Keeps
  <2>7. w \in Clients \/ w \in Calls
    BY DEF Workers
  <2>8. ASSUME NEW k \in heard', owner'[k] = o, k # c PROVE link'[k] = "gone"
    <3>1. k \in heard /\ owner[k] = o /\ k # w
      <4>1. owner' = owner /\ (heard' = heard \/ (w \in Clients /\ heard' = heard \cup {w}))
        BY <1>1 DEF Moves
      <4>2. k # w
        BY <2>3, <2>4, <2>7, <2>8, <4>1
      <4> QED
        BY <2>8, <4>1, <4>2
    <3>2. link[k] = "gone"
      BY <2>2, <2>8, <3>1 DEF OneFor
    <3> QED
      BY <1>1, <2>4, <3>1, <3>2 DEF Linked
  <2>9. ASSUME RouteWanted(o)' PROVE c \notin heard' /\ work'[c].at = "ended" /\ timers'[o] = 0
    <3>1. CASE w \in Calls
      <4>1. c \notin heard /\ work[c].at = "ended" /\ c # w
        BY <2>2, <2>3, <2>4, <3>1 DEF OneFor
      <4>2. timers' = timers /\ heard' = heard
        BY <1>1, <1>3, <3>1 DEF Keeps
      <4>3. work'[c] = work[c]
        BY <1>1, <2>4, <4>1 DEF Moves
      <4> QED
        BY <2>3, <4>1, <4>2, <4>3
    <3>2. CASE w \in Clients
      <4>1. c = w /\ w \notin heard /\ ~RouteWanted(o)
        BY <2>3, <3>2
      <4>2. \A v \in Calls : v \in Workers /\ v # w
        BY <3>2, SetupNumbers
      <4>3. \A v \in Calls : work'[v].of # o
        BY <1>1, <4>1, <4>2 DEF Moves, RouteWanted
      <4>4. bridge'[o].pending /\ ~bridge[o].pending
        BY <2>9, <4>1, <4>3 DEF RouteWanted
      <4> QED
        BY <1>1, <1>3, <2>1, <4>1, <4>4 DEF Keeps, Open
    <3> QED
      BY <2>7, <3>1, <3>2
  <2>10. \A v \in UnderWay(o)' \cap Clients : v = c
    BY <2>3, <2>5
  <2>11. timers'[o] = 1 => UnderWay(o)' = {} /\ c \notin heard'
    BY <2>3, <2>5, <2>6
  <2>12. \A u, v \in UnderWay(o)' : u = v
    BY <2>5
  <2> HIDE DEF c
  <2> QED
    BY <2>6, <2>8, <2>9, <2>10, <2>11, <2>12 DEF OneFor
<1> QED
  BY <1>2, <1>3

\* A client that begins is the only thing under way for its bridge, of which no route
\* is wanted and whose earlier clients are gone.
LEMMA BeginsOne ==
    ASSUME SetupShape, NEW k, NEW o, Begins(k, o), UnderWay(o) = {}, timers'[o] = 0,
           ~bridge'[o].pending, \A c \in Calls : work[c].of # o, heard' = heard,
           \A j \in heard : owner[j] = o => link'[j] = "gone"
    PROVE  UnderWay(o)' = {k} /\ OneFor(o)'
<1>1. k \in Workers /\ k \notin Calls /\ \A c \in Calls : c \in Workers /\ c # k
  BY SetupNumbers DEF Begins
<1>2. UnderWay(o)' = {k}
  <2>1. "resolving" \in Awaits
    BY DEF Awaits
  <2> QED
    BY <1>1, <2>1 DEF Begins, UnderWay
<1>3. ~RouteWanted(o)'
  BY <1>1 DEF Begins, RouteWanted
<1>4. \A j \in heard' : owner'[j] = o => link'[j] = "gone"
  BY DEF Begins, SetupShape, SetupTypeOK
<1>5. bridge'[o].client = k /\ timers'[o] = 0
  BY DEF Begins
<1> QED
  BY <1>2, <1>3, <1>4, <1>5 DEF OneFor

LEMMA NobodyYet ==
    ASSUME SetupShape, NEW o \in Setups, ~Exists(o)
    PROVE  /\ \A v \in Workers : work[v].of # o
           /\ UnderWay(o) = {} /\ timers[o] = 0
           /\ \A k \in Clients : owner[k] # o
           /\ heard \subseteq Clients
<1>1. \A v \in Workers : work[v].of # o
  BY SetupNumbers DEF SetupShape, OfWorker
<1>2. \A k \in Clients : owner[k] # o
  BY <1>1, SetupNumbers DEF SetupShape, OfClient
<1> QED
  BY <1>1, <1>2 DEF SetupShape, SetupTypeOK, OfBridge, UnderWay

LEMMA OneSetupStep ==
    ASSUME SetupShape, SetupShape', OneInv, NEW k \in Clients, NEW p \in Setups, Setup(k, p),
           NEW o \in Setups \ crossed', Open(o)'
    PROVE  OneFor(o)'
<1>1. /\ Begins(k, p) /\ ~Exists(p) /\ current' = p /\ current # p
      /\ ~bridge'[p].pending
      /\ \A q \in Setups \ {p, current} : bridge'[q] = bridge[q]
      /\ current # 0 => Closes(current)
      /\ current = 0 => UNCHANGED <<timers, link, unheard>>
      /\ UNCHANGED <<heard, faults, orphans, crossed>>
  BY SetupFacts
<1>2. \A c \in Calls : c \in Workers
  BY SetupNumbers
<1>3. CASE o = p
  <2>1. timers'[o] = 0
    BY <1>1, <1>3, NobodyYet DEF Closes
  <2> QED
    BY <1>1, <1>2, <1>3, <2>1, NobodyYet, BeginsOne
<1>4. CASE o # p
  <2>1. o # current
    BY <1>1, SetupNumbers DEF Closes, Open
  <2>2. Same(o)
    <3>1. \A j \in Clients : owner[j] = o \/ owner'[j] = o =>
             j # k /\ (current # 0 => j # bridge[current].client)
      <4>1. \A j \in Clients : owner[j] = o \/ owner'[j] = o => j # k /\ owner[j] = o
        BY <1>1, <1>4, SetupNumbers DEF Begins
      <4> QED
        BY <2>1, <4>1, CurrentFacts
    <3>2. \A v \in Workers : work[v].of = o \/ work'[v].of = o => v # k
      BY <1>1, <1>4, SetupNumbers DEF Begins
    <3>3. bridge'[o] = bridge[o] /\ timers'[o] = timers[o]
      BY <1>1, <1>4, <2>1 DEF Closes
    <3>4. \A j \in Clients : (current # 0 => j # bridge[current].client) => link'[j] = link[j]
      BY <1>1 DEF Closes
    <3>5. \A j \in Clients : owner[j] = o \/ owner'[j] = o =>
             owner'[j] = owner[j] /\ link'[j] = link[j] /\ heard' = heard
      BY <1>1, <3>1, <3>4 DEF Begins
    <3>6. \A v \in Workers : work[v].of = o \/ work'[v].of = o => work'[v] = work[v]
      BY <1>1, <3>2 DEF Begins
    <3> QED
      BY <3>3, <3>5, <3>6 DEF Same
  <2>3. Open(o) => OneFor(o)
    BY <1>1 DEF OneInv
  <2> QED
    BY <2>2, <2>3, OneSame
<1> QED
  BY <1>3, <1>4

LEMMA OneRetryStep ==
    ASSUME SetupShape, SetupShape', OneInv, NEW k \in Clients, NEW p \in Setups, Retry(p, k),
           NEW o \in Setups \ crossed', Open(o)'
    PROVE  OneFor(o)' /\ (o = p => UnderWay(o)' = {k})
<1> DEFINE old == bridge[p].client
<1>1. /\ Begins(k, p) /\ Exists(p) /\ timers[p] > 0 /\ ~bridge[p].closing
      /\ old \in Clients /\ owner[old] = p
      /\ bridge'[p].pending = bridge[p].pending
      /\ \A q \in Setups \ {p} : bridge'[q] = bridge[q]
      /\ timers' \in [Setups -> Nat] /\ timers'[p] = timers[p] - 1
      /\ \A q \in Setups \ {p} : timers'[q] = timers[q]
      /\ \A j \in Clients : j # old => link'[j] = link[j]
      /\ link[old] \notin {"connecting", "up"} => link'[old] = link[old]
      /\ crossed' = IF link[old] = "broken" /\ old \in heard THEN crossed \cup {p} ELSE crossed
      /\ UNCHANGED <<current, heard, faults, orphans, unheard>>
  BY RetryFacts
<1> HIDE DEF old
<1>2. CASE o = p
  <2>1. o \notin crossed /\ (old \in heard => link[old] # "broken")
    BY <1>1, <1>2
  <2>2. Open(o) /\ OneFor(o)
    BY <1>1, <1>2, <2>1 DEF OneInv, Open
  <2>3. timers[o] = 1 /\ UnderWay(o) = {} /\ ~RouteWanted(o)
    BY <1>1, <1>2, <2>2 DEF OneFor
  <2>4. \A j \in heard : owner[j] = o => link'[j] = "gone"
    <3>1. ASSUME NEW j \in heard, owner[j] = o PROVE link'[j] = "gone"
      <4>1. j \in Clients
        BY DEF SetupShape, SetupTypeOK
      <4>2. CASE j = old
        <5>1. link[old] = "gone"
          BY <1>2, <2>1, <2>2, <2>3, <3>1, <4>2 DEF OneFor, old
        <5> QED
          BY <1>1, <4>2, <5>1
      <4>3. CASE j # old
        BY <1>1, <1>2, <2>2, <3>1, <4>1, <4>3 DEF OneFor, old
      <4> QED
        BY <4>2, <4>3
    <3> QED
      BY <3>1
  <2>5. timers'[o] = 0 /\ ~bridge'[o].pending /\ \A c \in Calls : work[c].of # o
    BY <1>1, <1>2, <2>3 DEF RouteWanted
  <2> QED
    BY <1>1, <1>2, <2>3, <2>4, <2>5, BeginsOne
<1>3. CASE o # p
  <2>1. Same(o)
    <3>1. \A j \in Clients : owner[j] = o \/ owner'[j] = o => j # k /\ j # old
      BY <1>1, <1>3, SetupNumbers DEF Begins
    <3>2. \A v \in Workers : work[v].of = o \/ work'[v].of = o => v # k
      BY <1>1, <1>3, SetupNumbers DEF Begins
    <3>3. \A j \in Clients : owner[j] = o \/ owner'[j] = o =>
             owner'[j] = owner[j] /\ link'[j] = link[j] /\ heard' = heard
      BY <1>1, <3>1 DEF Begins
    <3>4. \A v \in Workers : work[v].of = o \/ work'[v].of = o => work'[v] = work[v]
      BY <1>1, <3>2 DEF Begins
    <3> QED
      BY <1>1, <1>3, <3>3, <3>4 DEF Same
  <2>2. Open(o) => OneFor(o)
    BY <1>1 DEF OneInv
  <2> QED
    BY <1>3, <2>1, <2>2, OneSame
<1> QED
  BY <1>2, <1>3

LEMMA OneCloseStep ==
    ASSUME SetupShape, SetupShape', OneInv, Disconnect \/ Remove,
           NEW o \in Setups \ crossed', Open(o)'
    PROVE  OneFor(o)'
<1>1. /\ current # 0 /\ Closes(current)
      /\ \A p \in Setups \ {current} : bridge'[p] = bridge[p]
      /\ UNCHANGED <<owner, heard, work, faults, orphans, crossed>>
  BY CloseFacts
<1>2. o # current
  BY <1>1 DEF Closes, Open
<1>3. \A j \in Clients : owner[j] = o => j # bridge[current].client
  BY <1>1, <1>2, CurrentFacts
<1>4. Same(o)
  BY <1>1, <1>2, <1>3 DEF Same, Closes
<1>5. Open(o) => OneFor(o)
  BY <1>1 DEF OneInv
<1> QED
  BY <1>4, <1>5, OneSame

LEMMA OneRouteStep ==
    ASSUME SetupShape, SetupShape', OneInv, NEW c \in Calls, Password(c) \/ SkipSudo(c),
           NEW o \in Setups \ crossed', Open(o)'
    PROVE  OneFor(o)'
<1>1. /\ current \in Setups /\ Exists(current) /\ c \in Workers /\ c \notin Clients
      /\ bridge[current].pending /\ work[c].of = 0
      /\ work'[c].of = current /\ work'[c].at \in {"asking", "uploading"}
      /\ \A v \in Workers \ {c} : work'[v] = work[v]
      /\ \A p \in Setups \ {current} : bridge'[p] = bridge[p]
      /\ bridge'[current].client = bridge[current].client
      /\ bridge'[current].closing = bridge[current].closing
      /\ crossed' = IF UnderWay(current) = {} THEN crossed ELSE crossed \cup {current}
      /\ UNCHANGED <<current, timers, link, owner, heard, faults, orphans, unheard>>
  BY RouteFacts
<1>2. CASE o # current
  <2>1. \A v \in Workers : work[v].of = o \/ work'[v].of = o => v # c
    BY <1>1, <1>2, SetupNumbers
  <2>2. Same(o)
    BY <1>1, <1>2, <2>1 DEF Same
  <2>3. Open(o) => OneFor(o)
    BY <1>1 DEF OneInv
  <2> QED
    BY <2>2, <2>3, OneSame
<1>3. CASE o = current
  <2>1. UnderWay(o) = {} /\ o \notin crossed
    BY <1>1, <1>3
  <2>2. Open(o) /\ OneFor(o)
    BY <1>1, <1>3, <2>1 DEF OneInv, Open
  <2>3. /\ bridge[o].client \notin heard /\ work[bridge[o].client].at = "ended" /\ timers[o] = 0
    BY <1>1, <1>3, <2>2 DEF OneFor, RouteWanted
  <2>4. bridge[o].client \in Workers /\ bridge[o].client # c
    BY <1>1, <1>3, ClientFacts
  <2>5. UnderWay(o)' \subseteq {c}
    BY <1>1, <2>1 DEF UnderWay
  <2>6. work'[bridge[o].client].at = "ended"
    BY <1>1, <2>3, <2>4
  <2>7. \A j \in heard' : owner'[j] = o /\ j # bridge'[o].client => link'[j] = "gone"
    BY <1>1, <1>3, <2>2 DEF OneFor
  <2>8. bridge'[o].client = bridge[o].client /\ timers'[o] = 0 /\ heard' = heard
    BY <1>1, <1>3, <2>3
  <2>9. \A u, v \in UnderWay(o)' : u = v
    BY <2>5
  <2>10. \A j \in UnderWay(o)' \cap Clients : j = bridge'[o].client
    BY <1>1, <2>5
  <2> QED
    BY <2>3, <2>6, <2>7, <2>8, <2>9, <2>10 DEF OneFor
<1> QED
  BY <1>2, <1>3

LEMMA OneEventStep ==
    ASSUME SetupShape, SetupShape', OneInv, NEW k \in Clients, Broken(k) \/ Closed(k),
           NEW o \in Setups \ crossed', Open(o)'
    PROVE  OneFor(o)'
<1> DEFINE of == owner[k]
<1>1. /\ link[k] \notin {"new", "connecting", "gone"} /\ link'[k] \in {"broken", "gone"}
      /\ \A j \in Clients \ {k} : link'[j] = link[j]
      /\ UNCHANGED <<current, owner, crossed, heard, work, orphans>>
  BY EventFacts
<1>2. /\ bridge'[o].client = bridge[o].client /\ bridge'[o].pending = bridge[o].pending
      /\ Open(o)' => Open(o)
  BY EventFacts DEF Open, Exists
<1>3. Open(o) /\ OneFor(o)
  BY <1>1, <1>2 DEF OneInv
<1>4. UnderWay(o)' = UnderWay(o) /\ (RouteWanted(o)' <=> RouteWanted(o))
  BY <1>1, <1>2 DEF UnderWay, RouteWanted
<1>5. /\ bridge[o].client \in Clients /\ owner[bridge[o].client] = o /\ heard \subseteq Clients
      /\ work' = work
  BY <1>1, <1>3, ClientFacts DEF Open
<1>6. \A j \in heard' : owner'[j] = o /\ j # bridge'[o].client => link'[j] = "gone"
  BY <1>1, <1>2, <1>3, <1>5 DEF OneFor
<1>7. /\ \A v, w \in UnderWay(o)' : v = w
      /\ \A j \in UnderWay(o)' \cap Clients : j = bridge'[o].client
  BY <1>2, <1>3, <1>4 DEF OneFor
<1>8. CASE k \in heard /\ of = o
  <2>1. k = bridge[o].client /\ UnderWay(o) = {} /\ ~RouteWanted(o)
    BY <1>1, <1>3, <1>8, HeardIsIdle
  <2>2. timers'[o] \in {0, 1}
    <3>1. timers'[o] = timers[o] \/ timers'[o] = 1
      BY <1>8, EventFacts
    <3> QED
      BY <1>3, <3>1 DEF OneFor
  <2> QED
    BY <1>1, <1>2, <1>4, <1>6, <1>7, <2>1, <2>2 DEF OneFor
<1>9. CASE ~(k \in heard /\ of = o)
  <2>1. timers'[o] = timers[o]
    BY <1>9, EventFacts
  <2>2. k = bridge[o].client => k \notin heard
    BY <1>5, <1>9
  <2>3. timers'[o] = 1 /\ bridge'[o].client \in heard' => link'[bridge'[o].client] \in {"broken", "gone"}
    BY <1>1, <1>2, <1>3, <1>5, <2>1, <2>2 DEF OneFor
  <2>4. RouteWanted(o)' => /\ bridge'[o].client \notin heard' /\ work'[bridge'[o].client].at = "ended"
                      /\ timers'[o] = 0
    BY <1>1, <1>2, <1>3, <1>4, <2>1 DEF OneFor
  <2> QED
    BY <1>3, <1>4, <1>6, <1>7, <2>1, <2>3, <2>4 DEF OneFor
<1> QED
  BY <1>8, <1>9

LEMMA OneStep ==
    ASSUME SetupShape, OneInv, [SetupNext]_setupVars PROVE OneInv'
<1>1. SetupShape'
  BY ShapeStep
<1>2. CASE UNCHANGED setupVars
  BY <1>2 DEF setupVars, OneInv, OneFor, Open, Exists, RouteWanted, UnderWay
<1>3. ASSUME NEW o \in Setups \ crossed', Open(o)', ~UNCHANGED setupVars PROVE OneFor(o)'
  BY <1>1, <1>3, Cases, OneWorkerStep, OneSetupStep, OneRetryStep, OneCloseStep, OneRouteStep,
     OneEventStep
<1> QED
  BY <1>2, <1>3 DEF OneInv

LEMMA AlwaysOne == SetupSpec => []OneInv
<1>1. SetupInit => OneInv
  BY DEF SetupInit, OneInv, Open, Exists
<1> QED
  BY <1>1, OneStep, AlwaysShape, PTL DEF SetupSpec

\* Of a bridge that is not closing there is at most one worker under way or retry due:
\* its setup, a retry or a route - but for the bridges whose route began during another
\* one's first command, or that were closed after the retry.
THEOREM SetupsAreSequential == SetupSpec => []OneAtATime
<1>1. SetupShape /\ OneInv => OneAtATime
  <2> SUFFICES ASSUME SetupShape, OneInv, NEW o \in Setups \ crossed, ~bridge[o].closing
               PROVE  Cardinality(UnderWay(o)) + timers[o] <= 1
    BY DEF OneAtATime
  <2>1. CASE UnderWay(o) = {}
    <3>1. timers[o] \in {0, 1}
      BY NobodyYet DEF OneInv, OneFor, Open
    <3> QED
      BY <2>1, <3>1, FS_EmptySet
  <2>2. CASE UnderWay(o) # {}
    <3>1. Exists(o)
      BY <2>2, NobodyYet
    <3>2. PICK w \in UnderWay(o) : TRUE
      BY <2>2
    <3>3. UnderWay(o) = {w} /\ timers[o] = 0
      BY <3>1, <3>2, OneUnderWay DEF OneInv, Open
    <3>4. Cardinality({w}) = 1
      BY FS_Singleton
    <3> QED
      BY <3>3, <3>4
  <2> QED
    BY <2>1, <2>2
<1> QED
  BY <1>1, AlwaysShape, AlwaysOne, PTL

-----------------------------------------------------------------------------
(* What the status says                                                    *)

\* Of the listed bridge, unless its end could not be heard: nothing works on it once it
\* is disconnected; without its session it is in error, and nothing works on it; and
\* its status is a phase of the work only while there is work, of which the last part
\* leaves it as it is.
TrueFor(o) ==
    IF bridge[o].closing THEN bridge[o].status = "disconnected" /\ UnderWay(o) = {}
    ELSE /\ UnderWay(o) = {} => bridge[o].status \notin Busy
         /\ link[bridge[o].client] = "gone" => bridge[o].status = "error" /\ UnderWay(o) = {}
         /\ \A w \in UnderWay(o) : work[w].at = "verifying" => bridge[o].status \notin Busy

Watched == current # 0 /\ current \notin crossed /\ bridge[current].client \notin unheard

TrueInv == Watched => TrueFor(current)

LEMMA TrueWorkerStep ==
    ASSUME SetupShape, OneInv, TrueInv, NEW w \in Workers, Step(w), Watched'
    PROVE  TrueFor(current)'
<1> DEFINE o == current  of == work[w].of
<1>1. /\ of \in Setups /\ Exists(of) /\ Moves(w) /\ Keeps(w, of) /\ Told(w, of) /\ Linked(w, of)
      /\ work[w].at \in Awaits
  BY WorkerFacts DEF Step
<1>2. current' = o /\ o # 0 /\ o \notin crossed
  BY <1>1 DEF Moves, Watched
<1>3. /\ o \in Setups /\ Exists(o) /\ bridge[o].client \in Clients /\ bridge[o].client \in Workers
      /\ work[bridge[o].client].of = o
  BY <1>2, CurrentFacts, ClientFacts
<1>4. bridge'[o].client = bridge[o].client /\ bridge'[o].closing = bridge[o].closing
  BY <1>1, <1>3 DEF Keeps
<1>5. Watched /\ TrueFor(o) /\ bridge[o].client \notin unheard'
  BY <1>1, <1>2, <1>4 DEF Watched, TrueInv, Moves
<1>6. CASE of # o
  <2>1. bridge'[o] = bridge[o]
    BY <1>1, <1>3, <1>6 DEF Keeps
  <2>2. UnderWay(o)' = UnderWay(o) /\ \A v \in UnderWay(o) : work'[v] = work[v]
    <3>1. \A v \in Workers : work[v].of = o \/ work'[v].of = o => work'[v] = work[v]
      BY <1>1, <1>6 DEF Moves
    <3>2. UnderWay(o)' = {v \in Workers : work'[v].of = o /\ work'[v].at \in Awaits}
      BY <1>2 DEF UnderWay
    <3> QED
      BY <3>1, <3>2 DEF UnderWay
  <2>3. link'[bridge[o].client] = link[bridge[o].client]
    BY <1>1, <1>3, <1>6 DEF Linked
  <2> QED
    BY <1>2, <1>5, <2>1, <2>2, <2>3 DEF TrueFor
<1>7. CASE of = o
  <2>1. w \in UnderWay(o)
    BY <1>1, <1>7 DEF UnderWay
  <2>2. ~bridge[o].closing
    BY <1>5, <2>1 DEF TrueFor
  <2>3. Open(o) /\ OneFor(o)
    BY <1>2, <1>3, <2>2 DEF OneInv, Open
  <2>4. UnderWay(o) = {w} /\ (w \in Clients => bridge[o].client = w)
    BY <1>3, <2>1, <2>3, OneUnderWay
  <2>5. UnderWay(o)' \subseteq {w} /\ (work'[w].at = "ended" <=> UnderWay(o)' = {})
    <3>1. \A v \in Workers : v # w => work'[v] = work[v]
      BY <1>1 DEF Moves
    <3>2. "ended" \notin Awaits /\ (work'[w].at = "ended" \/ work'[w].at \in Awaits) /\ work'[w].of = o
      BY <1>1, <1>7 DEF Awaits, Moves
    <3>3. UnderWay(o)' = {v \in Workers : work'[v].of = o /\ work'[v].at \in Awaits}
      BY <1>2 DEF UnderWay
    <3>4. UnderWay(o)' \subseteq {w} /\ (w \in UnderWay(o)' <=> work'[w].at # "ended")
      BY <2>4, <3>1, <3>2, <3>3 DEF UnderWay
    <3> QED
      BY <3>4
  <2>6. UnderWay(o)' = {} => bridge'[o].status \notin Busy
    BY <1>1, <1>5, <1>7, <2>1, <2>2, <2>5 DEF Told, TrueFor
  <2>7. ASSUME link'[bridge[o].client] = "gone"
        PROVE  bridge'[o].status = "error" /\ UnderWay(o)' = {}
    <3>1. link[bridge[o].client] # "gone"
      BY <1>5, <2>1, <2>2 DEF TrueFor
    <3>2. bridge[o].client = w /\ w \in Clients
      BY <1>1, <1>3, <2>7, <3>1 DEF Linked
    <3>3. work'[w].at = "ended" /\ bridge'[o].status = "error"
      BY <1>1, <1>7, <2>2, <2>7, <3>1, <3>2 DEF Linked
    <3> QED
      BY <2>5, <3>3
  <2>8. \A v \in UnderWay(o)' : work'[v].at = "verifying" => bridge'[o].status \notin Busy
    BY <1>1, <1>7, <2>5 DEF Told
  <2> QED
    BY <1>2, <1>4, <2>2, <2>6, <2>7, <2>8 DEF TrueFor
<1> QED
  BY <1>6, <1>7

LEMMA TrueOperatorStep ==
    ASSUME SetupShape, OneInv, TrueInv, Watched',
           \/ \E k \in Clients, o \in Setups : Setup(k, o)
           \/ Disconnect \/ Remove
           \/ \E c \in Calls : Password(c) \/ SkipSudo(c)
    PROVE  TrueFor(current)'
<1>1. ASSUME NEW k \in Clients, NEW o \in Setups, Setup(k, o) PROVE TrueFor(current)'
  <2>1. /\ Begins(k, o) /\ ~Exists(o) /\ current' = o /\ current # o
        /\ current # 0 => Closes(current)
        /\ current = 0 => UNCHANGED <<timers, link, unheard>>
    BY <1>1, SetupFacts
  <2>2. UnderWay(o)' = {k} /\ work'[k].at = "resolving"
    <3>1. UnderWay(o) = {} /\ k \in Workers /\ "resolving" \in Awaits
      BY <2>1, NobodyYet, SetupNumbers DEF Awaits
    <3> QED
      BY <2>1, <3>1 DEF Begins, UnderWay
  <2>3. link'[k] = "new"
    BY <2>1 DEF Begins, Closes
  <2> QED
    BY <2>1, <2>2, <2>3 DEF Begins, TrueFor
<1>2. CASE Disconnect \/ Remove
  <2>1. /\ current' = 0 \/ (current' = current /\ bridge'[current].status = "disconnected")
        /\ UNCHANGED <<owner, heard, work, faults, orphans, crossed>>
    BY <1>2, CloseFacts
  <2>2. current' = current /\ bridge'[current].status = "disconnected" /\ Closes(current)
    BY <1>2, <2>1, CloseFacts DEF Watched
  <2>3. UnderWay(current)' = UnderWay(current)
    BY <2>1, <2>2 DEF UnderWay
  <2>4. UnderWay(current) = {}
    BY <2>2 DEF Watched, Closes
  <2> QED
    BY <2>2, <2>3, <2>4 DEF TrueFor, Closes
<1>3. ASSUME NEW c \in Calls, Password(c) \/ SkipSudo(c) PROVE TrueFor(current)'
  <2>1. /\ current \in Setups /\ Exists(current) /\ c \in Workers
        /\ bridge[current].status = "needs_sudo_password"
        /\ work'[c].of = current /\ work'[c].at \in {"asking", "uploading"}
        /\ \A v \in Workers \ {c} : work'[v] = work[v]
        /\ bridge'[current].client = bridge[current].client
        /\ bridge'[current].closing = bridge[current].closing
        /\ crossed' = IF UnderWay(current) = {} THEN crossed ELSE crossed \cup {current}
        /\ UNCHANGED <<current, timers, link, owner, heard, faults, orphans, unheard>>
    BY <1>3, RouteFacts
  <2>2. UnderWay(current) = {} /\ Watched
    BY <2>1 DEF Watched
  <2>3. TrueFor(current)
    BY <2>2 DEF TrueInv
  <2>4. ~bridge[current].closing /\ link[bridge[current].client] # "gone"
    BY <2>1, <2>3 DEF TrueFor
  <2>5. UnderWay(current)' = {c}
    BY <2>1, <2>2 DEF UnderWay, Awaits
  <2> QED
    BY <2>1, <2>4, <2>5 DEF TrueFor
<1> QED
  BY <1>1, <1>2, <1>3

LEMMA TrueRetryStep ==
    ASSUME SetupShape, SetupShape', OneInv, TrueInv, Watched',
           NEW k \in Clients, NEW o \in Setups, Retry(o, k)
    PROVE  TrueFor(current)'
<1> DEFINE old == bridge[o].client
<1>1. /\ Begins(k, o) /\ Exists(o) /\ timers[o] > 0 /\ ~bridge[o].closing
      /\ old \in Clients /\ owner[old] = o
      /\ \A q \in Setups \ {o} : bridge'[q] = bridge[q]
      /\ \A j \in Clients : j # old => link'[j] = link[j]
      /\ crossed' = IF link[old] = "broken" /\ old \in heard THEN crossed \cup {o} ELSE crossed
      /\ UNCHANGED <<current, heard, faults, orphans, unheard>>
  BY RetryFacts
<1>2. current # 0 /\ current \in Setups /\ Exists(current) /\ bridge[current].client \in Clients
      /\ owner[bridge[current].client] = current
  BY <1>1, CurrentFacts DEF Watched
<1>3. CASE o = current
  <2>1. Open(o)'
    BY <1>1 DEF Open, Exists, Begins
  <2>2. UnderWay(o)' = {k}
    BY <1>1, <1>3, <2>1, OneRetryStep DEF Watched
  <2>3. link'[k] = "new" /\ work'[k].at = "resolving"
    BY <1>1, SetupNumbers DEF Begins
  <2> QED
    BY <1>1, <1>3, <2>2, <2>3 DEF TrueFor, Begins
<1>4. CASE o # current
  <2>1. bridge'[current] = bridge[current] /\ Watched
    BY <1>1, <1>2, <1>4 DEF Watched
  <2>2. TrueFor(current)
    BY <2>1 DEF TrueInv
  <2>3. \A v \in Workers : work[v].of = current \/ work'[v].of = current => work'[v] = work[v]
    BY <1>1, <1>2, <1>4 DEF Begins
  <2>4. UnderWay(current)' = UnderWay(current) /\ \A v \in UnderWay(current) : work'[v] = work[v]
    <3>1. UnderWay(current)' = {v \in Workers : work'[v].of = current /\ work'[v].at \in Awaits}
      BY <1>1 DEF UnderWay
    <3> QED
      BY <2>3, <3>1 DEF UnderWay
  <2>5. link'[bridge[current].client] = link[bridge[current].client]
    BY <1>1, <1>2, <1>4
  <2> QED
    BY <1>1, <2>1, <2>2, <2>4, <2>5 DEF TrueFor
<1> QED
  BY <1>3, <1>4

LEMMA TrueEventStep ==
    ASSUME SetupShape, OneInv, TrueInv, Watched', NEW k \in Clients, Broken(k) \/ Closed(k)
    PROVE  TrueFor(current)'
<1>1. /\ link[k] \notin {"new", "connecting", "gone"} /\ link'[k] \in {"broken", "gone"}
      /\ \A j \in Clients \ {k} : link'[j] = link[j]
      /\ UNCHANGED <<current, owner, crossed, heard, work, orphans>>
      /\ unheard' = unheard \/ unheard' = unheard \cup {k}
      /\ k \notin heard => UNCHANGED bridge /\ (link'[k] = "gone" => k \in unheard')
  BY EventFacts
<1>2. /\ current # 0 /\ current \in Setups /\ Exists(current) /\ bridge[current].client \in Clients
      /\ owner[bridge[current].client] = current
  BY <1>1, CurrentFacts DEF Watched
<1>3. /\ bridge'[current].client = bridge[current].client
      /\ bridge'[current].closing = bridge[current].closing
  BY <1>2, EventFacts
<1>4. Watched /\ TrueFor(current)
  BY <1>1, <1>2, <1>3 DEF Watched, TrueInv
<1>5. UnderWay(current)' = UnderWay(current) /\ work' = work
  BY <1>1 DEF UnderWay
<1>6. CASE k \in heard /\ owner[k] = current /\ ~bridge[current].closing
  <2>1. bridge'[current].status = "error"
    BY <1>6, EventFacts
  <2>2. Open(current) /\ OneFor(current)
    BY <1>2, <1>4, <1>6 DEF OneInv, Open, Watched
  <2>3. UnderWay(current) = {}
    BY <1>1, <1>2, <1>6, <2>2, HeardIsIdle
  <2> QED
    BY <1>1, <1>3, <1>5, <1>6, <2>1, <2>3 DEF TrueFor, Busy
<1>7. CASE ~(k \in heard /\ owner[k] = current /\ ~bridge[current].closing)
  <2>1. bridge'[current] = bridge[current]
    BY <1>2, <1>7, EventFacts
  <2>2. ~bridge[current].closing /\ link'[bridge[current].client] = "gone"
           => link[bridge[current].client] = "gone"
    <3>1. CASE k # bridge[current].client
      BY <1>1, <1>2, <3>1
    <3>2. CASE k = bridge[current].client
      BY <1>1, <1>2, <1>3, <1>7, <3>2 DEF Watched
    <3> QED
      BY <3>1, <3>2
  <2> QED
    BY <1>1, <1>4, <1>5, <2>1, <2>2 DEF TrueFor
<1> QED
  BY <1>6, <1>7

LEMMA TrueStep ==
    ASSUME SetupShape, OneInv, TrueInv, [SetupNext]_setupVars PROVE TrueInv'
<1>1. SetupShape'
  BY ShapeStep
<1>2. CASE UNCHANGED setupVars
  BY <1>2 DEF setupVars, TrueInv, TrueFor, Watched, UnderWay
<1>3. ASSUME Watched', ~UNCHANGED setupVars PROVE TrueFor(current)'
  BY <1>1, <1>3, Cases, TrueWorkerStep, TrueOperatorStep, TrueRetryStep, TrueEventStep
<1> QED
  BY <1>2, <1>3 DEF TrueInv

\* The status of a listed bridge that nothing works on is no phase of the work, and
\* says that the tunnel is there only while its session is - but for the bridges of
\* which the end could not be heard, or that two worked on.
THEOREM StatusCanBeTrusted == SetupSpec => []StatusIsTrue
<1>1. SetupInit => TrueInv
  BY DEF SetupInit, TrueInv, Watched
<1>2. SetupSpec => []TrueInv
  BY <1>1, TrueStep, AlwaysShape, AlwaysOne, PTL DEF SetupSpec
<1>3. TrueInv => StatusIsTrue
  BY DEF TrueInv, TrueFor, Watched, StatusIsTrue, Busy, Resting
<1> QED
  BY <1>2, <1>3, PTL
=============================================================================
