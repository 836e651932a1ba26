---------------------------- MODULE FleetSignals ----------------------------
(***************************************************************************)
(* Targets and the fleet's policies: the table of targets with its file    *)
(* (OpenClawTargetStore), a sync loop for each enabled target              *)
(* (OpenClawSyncManager, OpenClawCronSync), the problems the server sees   *)
(* in a target under its policy, the alerts it posts to webhooks, and the  *)
(* batches of policies that need an operator's confirmation.               *)
(*                                                                         *)
(* Handlers run without an await, so each is one action; only a webhook's  *)
(* answer comes later.  A target is the machine, or the local directory,   *)
(* it mirrors: one that is deleted and comes back has a new id, and so     *)
(* nothing that was kept of the old one.  A sync loop's reading of         *)
(* jobs.json cannot fail (readJobs catches), so it always succeeds; its    *)
(* poll interval is taken to be below every policy's maxSyncLagMs.         *)
(***************************************************************************)
EXTENDS Integers, FiniteSets, Sequences, Functions

CONSTANTS
    Targets, Remote,    \* the targets there may be; those of bridges' machines
    Local,              \* the target the server makes when it has none
    Options,            \* what else PATCH may change of a target
    DefaultOptions,
    Policies, Default,  \* policy profiles, and the one every target begins with
    DefaultDemands,
    DemandChoices,      \* what policies may demand
    Destinations,       \* the operator's webhooks
    SettingChoices,     \* the destinations and routing rules there may be
    Tables,             \* the tables an earlier life of the server may have left
    Threshold,          \* SMART_FLEET_APPROVAL_CRITICAL_THRESHOLD
    Tokens,             \* approval tokens
    None,
    MaxChanges, MaxFaults, MaxRestarts     \* bounds on what happens to the system

Demands == {"version", "auth"}
Codes == Demands \cup {"config", "sync", "stopped"}
Kinds == {"drift", "violation"}
Ranks == 1 .. 3
Record == [enabled : BOOLEAN, options : Options]
Report == [heard : BOOLEAN, config : BOOLEAN, silence : 0 .. 2]
Batch == [items : SUBSET (Targets \X Policies), restart : BOOLEAN]
Rule == [dests : SUBSET Destinations, targets : SUBSET Targets, floor : Ranks]
Settings == [dests : [Destinations -> [on : BOOLEAN, floor : Ranks]], rules : SUBSET Rule]
Alert == [dest : Destinations, kind : Kinds, target : Targets, codes : SUBSET Codes]
Key == [dest : Destinations, kind : Kinds, target : Targets, count : Nat]
Problem == Destinations \X Targets \X Kinds \X Codes

ASSUME FleetAssumption ==
    /\ IsFiniteSet(Targets) /\ Remote \subseteq Targets /\ Local \in Targets \ Remote
    /\ Default \in Policies /\ DefaultDemands \subseteq Demands /\ DemandChoices \subseteq SUBSET Demands
    /\ DefaultOptions \in Options
    /\ SettingChoices \subseteq Settings /\ Tables \subseteq [Targets -> Record \cup {None}]
    /\ Threshold \in Nat /\ MaxChanges \in Nat /\ MaxFaults \in Nat /\ MaxRestarts \in Nat
    /\ None \notin Options /\ None \notin Record /\ None \notin Batch
    /\ \A demands \in SUBSET Demands : demands # None

VARIABLES
    store,      \* OpenClawTargetStore.targets: None, or enabled and options
    saved,      \* openclaw-targets.json
    sync,       \* OpenClawSyncManager.instances: None, or the options it polls with
    report,     \* of each target: bridgeReportedStateByTargetId, whether openclaw.json
                \* differs from what it reports, and how many lag limits it is silent
    profiles,   \* fleetPolicyProfiles: None, or what the policy demands
    policyOf,   \* fleetTargetPolicyId
    seen,       \* the drift and violation signatures of each target
    settings,   \* fleetAlertDestinations and fleetAlertRouteRules
    kept,       \* fleet-alerts.json
    posts,      \* webhook requests under way
    cooling,    \* keys of fleetAlertLastSentAtByDestination within the cooldown
    pending,    \* fleetPendingApprovals that are not expired: the batch of each token
    spent,      \* counters of the bounds

    \* History, in no code.
    unsaved,    \* the last write of the table failed
    broken,     \* targets whose last change could not be saved
    settled,    \* problems that a destination was told of, or kept from by the
                \* settings, a cooldown or a failed request, as long as they last
    asked,      \* of each token, the batch it was given for
    used        \* of each token, the batches it let through

storeVars == <<store, saved, sync, unsaved, broken>>
policyVars == <<profiles, policyOf>>
alertVars == <<settings, kept, cooling>>
signalVars == <<seen, posts, settled>>
tokenVars == <<pending, asked, used>>
vars == <<storeVars, policyVars, alertVars, signalVars, tokenVars, report, spent>>

\* At most MaxChanges changes by operators and bridges, and MaxFaults faults.
Change == spent.changes < MaxChanges /\ spent' = [spent EXCEPT !.changes = @ + 1]
ChangeAndFault ==
    /\ spent.changes < MaxChanges /\ spent.faults < MaxFaults
    /\ spent' = [spent EXCEPT !.changes = @ + 1, !.faults = @ + 1]

Known == {t \in Targets : store[t] # None}
EnabledIn(table) == {t \in Targets : table[t] # None /\ table[t].enabled}
Running(t) == sync[t] # None

------------------------------------------------------------------------------
(* What the server sees in a target *)

\* Of a bridge that has reported.  The lag of a target that is synced is the
\* age of the server's own reading; only without a sync loop is it the
\* bridge's silence (computeSyncLagMs).
Drifts(running, r, demands) ==
    IF r.heard THEN (demands \cap {"version"})
                        \cup (IF r.config THEN {"config"} ELSE {})
                        \cup (IF ~running /\ r.silence > 0 THEN {"sync"} ELSE {})
               ELSE {}

Violations(running, r, demands) ==
    Drifts(running, r, demands) \cup (demands \cap {"auth"})
                                \cup (IF running THEN {} ELSE {"stopped"})

\* One lag limit of silence makes drift_sync a warning, two make it critical.
Problems(running, r, demands) ==
    [drift |-> Drifts(running, r, demands),
     violation |-> Violations(running, r, demands),
     critical |-> r.silence = 2]

\* computeFleetHealthScore below 40, of a target without a sync loop, which
\* has neither jobs nor a lag of its own: a target with one has at least 49.
Critical(t, running, r, demands) ==
    /\ ~running
    /\ 100 - 15 - 20 - (IF t \in Remote /\ ~r.heard THEN 20 ELSE 0)
           - (IF r.heard /\ r.silence > 0 THEN 10 ELSE 0)
           - 8 * Cardinality(Drifts(running, r, demands))
           - 5 * Cardinality(Violations(running, r, demands)) < 40

Rank(codes, critical) ==
    IF "sync" \in codes /\ critical THEN 3
    ELSE IF codes \cap {"config", "version"} # {} THEN 2 ELSE 1

------------------------------------------------------------------------------
(* Signals *)

\* A destination gets an alert if it is on and a rule routes it there.
Routed(conf, a, rank) ==
    /\ conf.dests[a.dest].on /\ conf.dests[a.dest].floor <= rank
    /\ \/ conf.rules = {}
       \/ \E r \in conf.rules : a.dest \in r.dests /\ a.target \in r.targets /\ r.floor <= rank

KeyOf(a) == [dest |-> a.dest, kind |-> a.kind, target |-> a.target, count |-> Cardinality(a.codes)]
ProblemsOf(a, codes) == {<<a.dest, a.target, a.kind, c>> : c \in codes}

Unseen == [drift |-> {}, violation |-> {}]
Signals == [seen |-> seen, posts |-> posts, settled |-> settled]
IsSignals(s) == seen' = s.seen /\ posts' = s.posts /\ settled' = s.settled

\* Mutant: the signature of a list is its length.
SignatureCounts(now, before) == Cardinality(now) # Cardinality(before)
Signature(now, before) == now # before

\* maybeBroadcastFleetTargetSignals of the targets in the domain of `now': a
\* list that differs from its signature replaces it and is posted to whom it
\* is routed, unless the key, which has only its length, is in its cooldown.
\* A drift's signature also has its value: the lag in ms, never twice the
\* same, and the reported hash (`moved': another one than before).
Announce(s, now, moved, conf, cool) ==
    LET new(t, k) == \/ Signature(now[t][k], s.seen[t][k])
                     \/ k = "drift" /\ (t \in moved \/ "sync" \in now[t].drift)
        alerts == {[dest |-> d, kind |-> k, target |-> t, codes |-> now[t][k]] :
                     d \in Destinations, k \in Kinds, t \in DOMAIN now}
        due == {a \in alerts : a.codes # {} /\ new(a.target, a.kind)}
        sent == {a \in due : /\ Routed(conf, a, Rank(a.codes, now[a.target].critical))
                             /\ KeyOf(a) \notin cool}
        lasts(p) == p[2] \in DOMAIN now => p[4] \in now[p[2]][p[3]]
        silent == UNION {ProblemsOf(a, a.codes) : a \in due \ sent}
    IN [seen |-> [t \in Targets |-> IF t \in DOMAIN now
                                    THEN [drift |-> now[t].drift, violation |-> now[t].violation]
                                    ELSE s.seen[t]],
        posts |-> s.posts \cup sent,
        settled |-> {p \in s.settled \cup silent : lasts(p)}]

\* What is said of the targets in T, whose loops run or not.
Say(s, T, running, of) ==
    Announce(s, [t \in T |-> Problems(running, report[t], profiles[of[t]])], {}, settings, cooling)

\* startTarget reads jobs.json and reports, before the loop is in instances:
\* whoever starts is said to be stopped.  A target that runs is left alone.
Starts(T) == {t \in T : ~Running(t)}

\* What the answer to a webhook says of the problems it was sent for.
Lasting(a) == ProblemsOf(a, a.codes \cap seen[a.target][a.kind])

\* 2xx: the cooldown begins, at the time of the sending.
Delivered(a) ==
    /\ a \in posts
    /\ posts' = posts \ {a}
    /\ cooling' = cooling \cup {KeyOf(a)}
    /\ settled' = settled \cup Lasting(a)
    /\ UNCHANGED <<storeVars, policyVars, settings, kept, seen, tokenVars, report, spent>>

\* Refused, lost or timed out after 5 s: only a warning is logged, and the
\* signature stays as if it had been told.
Failed(a) ==
    /\ a \in posts /\ spent.faults < MaxFaults
    /\ posts' = posts \ {a}
    /\ settled' = settled \cup Lasting(a)
    /\ spent' = [spent EXCEPT !.faults = @ + 1]
    /\ UNCHANGED <<storeVars, policyVars, alertVars, seen, tokenVars, report>>

Answer(a) == Delivered(a) \/ Failed(a)

\* The 60 s of a cooldown pass.
CooledDown(k) ==
    /\ k \in cooling
    /\ cooling' = cooling \ {k}
    /\ UNCHANGED <<storeVars, policyVars, settings, kept, signalVars, tokenVars, report, spent>>

\* The poll timer of a sync loop.
Refresh(t) ==
    /\ Running(t)
    /\ IsSignals(Say(Signals, {t}, TRUE, policyOf))
    /\ UNCHANGED <<storeVars, policyVars, alertVars, tokenVars, report, spent>>

------------------------------------------------------------------------------
(* The server starts, with what is in its files *)

Booted(table, conf) ==
    LET fresh == [t \in Targets |-> IF t = Local THEN [enabled |-> TRUE, options |-> DefaultOptions]
                                                 ELSE None]
        all == IF \A t \in Targets : table[t] = None THEN fresh ELSE table
        on == EnabledIn(all)
        unheard == [heard |-> FALSE, config |-> FALSE, silence |-> 0]
        nothing == [seen |-> [t \in Targets |-> Unseen], posts |-> {}, settled |-> {}]
    IN [store |-> all,
        sync |-> [t \in Targets |-> IF t \in on THEN all[t].options ELSE None],
        report |-> [t \in Targets |-> unheard],
        signals |-> Announce(nothing, [t \in on |-> Problems(FALSE, unheard, DefaultDemands)],
                             {}, conf, {})]

\* Mutant: the assignments outlive a restart.
KeptAssignments == policyOf
NoAssignments == [t \in Targets |-> Default]

FreshProfiles == [p \in Policies |-> IF p = Default THEN DefaultDemands ELSE None]

Init ==
    /\ kept \in SettingChoices /\ settings = kept
    /\ \E table \in Tables : LET b == Booted(table, kept) IN
         /\ store = b.store /\ saved = b.store /\ sync = b.sync /\ report = b.report
         /\ seen = b.signals.seen /\ posts = b.signals.posts
         /\ settled = b.signals.settled
    /\ unsaved = FALSE /\ broken = {}
    /\ profiles = FreshProfiles /\ policyOf = [t \in Targets |-> Default]
    /\ cooling = {}
    /\ pending = [k \in Tokens |-> None] /\ asked = [k \in Tokens |-> None]
    /\ used = [k \in Tokens |-> <<>>]
    /\ spent = [changes |-> 0, faults |-> 0, restarts |-> 0]

\* Policies, assignments, signatures, cooldowns, tokens and reports were in
\* memory only.
Restart ==
    /\ spent.restarts < MaxRestarts
    /\ spent' = [spent EXCEPT !.restarts = @ + 1]
    /\ LET b == Booted(saved, kept) IN
         /\ store' = b.store /\ saved' = b.store /\ sync' = b.sync /\ report' = b.report
         /\ IsSignals(b.signals)
    /\ unsaved' = FALSE /\ broken' = {}
    /\ profiles' = FreshProfiles /\ policyOf' = NoAssignments
    /\ settings' = kept /\ cooling' = {}
    /\ pending' = [k \in Tokens |-> None]
    /\ UNCHANGED <<kept, asked, used>>

------------------------------------------------------------------------------
(* The table of targets and its sync loops *)

\* save may throw once the table has changed: the handler ends there.
Written(table, ok) ==
    /\ store' = table /\ unsaved' = ~ok
    /\ saved' = IF ok THEN table ELSE saved
    /\ IF ok THEN Change ELSE ChangeAndFault

\* Mutant: restartTarget leaves the loop of a target that is disabled alone.
RestartedEnabled(T, table) ==
    [t \in Targets |-> IF t \in T \cap EnabledIn(table) THEN table[t].options ELSE sync[t]]

\* What restartTarget leaves of the loops of T.
Restarted(T, table) ==
    [t \in Targets |-> IF t \notin T THEN sync[t]
                       ELSE IF t \in EnabledIn(table) THEN table[t].options ELSE None]

\* POST, and create_default_target of the readiness fixes.
AddTarget(t, rec, ok) ==
    /\ store[t] = None
    /\ Written([store EXCEPT ![t] = rec], ok)
    /\ IF ok THEN /\ sync' = Restarted({t}, store')
                  /\ broken' = broken \ {t}
                  /\ IsSignals(Say(Signals, {t} \cap EnabledIn(store'), FALSE, policyOf))
             ELSE /\ broken' = broken \cup {t}
                  /\ UNCHANGED <<sync, signalVars>>
    /\ UNCHANGED <<policyVars, alertVars, tokenVars, report>>

\* PATCH: the loop is started again, with the target as it now is.
PatchTarget(t, rec, ok) ==
    /\ store[t] # None
    /\ Written([store EXCEPT ![t] = rec], ok)
    /\ IF ok THEN /\ sync' = Restarted({t}, store')
                  /\ broken' = broken \ {t}
                  /\ IsSignals(Say(Signals, {t} \cap EnabledIn(store'), FALSE, policyOf))
             ELSE /\ broken' = broken \cup {t}
                  /\ UNCHANGED <<sync, signalVars>>
    /\ UNCHANGED <<policyVars, alertVars, tokenVars, report>>

\* A later target of the same directory has another id: all that is kept
\* under the old one is out of reach.
Forget(R) ==
    /\ seen' = [t \in Targets |-> IF t \in R THEN Unseen ELSE seen[t]]
    /\ posts' = {a \in posts : a.target \notin R}
    /\ cooling' = {k \in cooling : k.target \notin R}
    /\ settled' = {p \in settled : p[2] \notin R}
    /\ report' = [t \in Targets |-> IF t \notin R THEN report[t]
                                    ELSE [heard |-> FALSE, config |-> FALSE, silence |-> 0]]
    /\ policyOf' = [t \in Targets |-> IF t \in R THEN Default ELSE policyOf[t]]
    /\ pending' = [k \in Tokens |->
                     IF pending[k] # None /\ \E i \in pending[k].items : i[1] \in R THEN None
                     ELSE pending[k]]

\* DELETE of one target, or of those a filter selects: all are stopped, then
\* removed one by one, each removal with a write of the file.  When the write
\* for `last' throws, the rest stay in the table.
RemoveTargets(T, R, last, ok) ==
    /\ T # {} /\ T \subseteq Known /\ R \subseteq T /\ last \in R
    /\ ok => R = T
    /\ store' = [t \in Targets |-> IF t \in R THEN None ELSE store[t]]
    /\ saved' = IF ok THEN store'
                ELSE IF R = {last} THEN saved ELSE [store' EXCEPT ![last] = store[last]]
    /\ unsaved' = ~ok
    /\ IF ok THEN Change ELSE ChangeAndFault
    /\ sync' = [t \in Targets |-> IF t \in T THEN None ELSE sync[t]]
    /\ broken' = (broken \ R) \cup (T \ R)
    /\ Forget(R)
    /\ UNCHANGED <<profiles, settings, kept, asked, used>>

\* restart_sync_all of the readiness fixes: stopAll, startAll.
RestartAll ==
    /\ sync' = Restarted(Targets, store)
    /\ broken' = {}
    /\ IsSignals(Say(Signals, EnabledIn(store), FALSE, policyOf))
    /\ Change
    /\ UNCHANGED <<store, saved, unsaved, policyVars, alertVars, tokenVars, report>>

\* The reconciling of one target by an operator, or by the doctor of those
\* that are enabled and not running, or running without a jobs.json.
Reconcile(T) ==
    LET on == T \cap EnabledIn(store)
        started == Say(Signals, on, FALSE, policyOf)
    IN /\ T # {} /\ T \subseteq Known
       /\ \/ \E t \in Targets : T = {t}
          \/ T \subseteq EnabledIn(store) /\ (EnabledIn(store) \cap Starts(Targets)) \subseteq T
       /\ sync' = Restarted(T, store)
       /\ broken' = broken \ T
       /\ IsSignals(Say(Say(started, on, TRUE, policyOf), T \ on, FALSE, policyOf))
       /\ Change
       /\ UNCHANGED <<store, saved, unsaved, policyVars, alertVars, tokenVars, report>>

\* A bridge's cron-sync makes its target, or starts it if it is enabled and
\* does not run, then writes what it mirrors and says what it reports.  When
\* the save of a new target throws the call ends there, as AddTarget's does.
CronSync(t, config, moved) ==
    LET table == IF store[t] # None THEN store
                 ELSE [store EXCEPT ![t] = [enabled |-> TRUE, options |-> DefaultOptions]]
        start == {t} \cap EnabledIn(table) \cap Starts(Targets)
        loops == Restarted(start, table)
        now == [heard |-> TRUE, config |-> config, silence |-> 0]
        demands == profiles[policyOf[t]]
    IN /\ t \in Remote
       /\ IF store[t] = None THEN Written(table, TRUE)
                             ELSE Change /\ UNCHANGED <<store, saved, unsaved>>
       /\ sync' = loops
       /\ broken' = broken \ start
       /\ report' = [report EXCEPT ![t] = now]
       /\ IsSignals(Announce(Say(Signals, start, FALSE, policyOf),
                             [u \in {t} |-> Problems(loops[t] # None, now, demands)],
                             IF moved THEN {t} ELSE {}, settings, cooling))
       /\ UNCHANGED <<policyVars, alertVars, tokenVars>>

\* The bridge says nothing for one more lag limit.
Silent(t) ==
    /\ report[t].heard /\ report[t].silence < 2
    /\ report' = [report EXCEPT ![t].silence = @ + 1]
    /\ UNCHANGED <<storeVars, policyVars, alertVars, signalVars, tokenVars, spent>>

\* openclaw.json is edited on the server, by the command queue or a hand.
EditMirror(t) ==
    /\ report[t].heard /\ ~report[t].config
    /\ Change
    /\ report' = [report EXCEPT ![t].config = TRUE]
    /\ UNCHANGED <<storeVars, policyVars, alertVars, signalVars, tokenVars>>

------------------------------------------------------------------------------
(* Policies, alert settings and approvals *)

\* POST and PATCH of a policy announce nothing: the next refresh does.
EditPolicy(p, demands) ==
    /\ profiles[p] # demands
    /\ Change
    /\ profiles' = [profiles EXCEPT ![p] = demands]
    /\ UNCHANGED <<storeVars, policyOf, report, alertVars, signalVars, tokenVars>>

ApplyPolicy(t, p) ==
    /\ t \in Known /\ profiles[p] # None
    /\ policyOf' = [policyOf EXCEPT ![t] = p]
    /\ IsSignals(Say(Signals, {t}, Running(t), policyOf'))
    /\ Change
    /\ UNCHANGED <<storeVars, profiles, alertVars, tokenVars, report>>

\* The write of fleet-alerts.json may throw once the settings have changed,
\* before or after it has cut the file, which is written in place.
NoSettings == [dests |-> [d \in Destinations |-> [on |-> FALSE, floor |-> 1]], rules |-> {}]

EditSettings(new, ok) ==
    /\ settings' = new
    /\ \/ ok /\ Change /\ kept' = new
       \/ ~ok /\ ChangeAndFault /\ kept' \in {kept, NoSettings}
    /\ UNCHANGED <<storeVars, policyVars, report, cooling, signalVars, tokenVars>>

\* The items of a batch that change the policy of a known target.
Batches == {f \in UNION {[T -> Policies] : T \in (SUBSET Known) \ {{}}} :
              \A t \in DOMAIN f : profiles[f[t]] # None /\ f[t] # policyOf[t]}
BatchOf(f, restart) == [items |-> {<<t, f[t]>> : t \in DOMAIN f}, restart |-> restart]
NeedsApproval(f) ==
    Cardinality({t \in DOMAIN f : Critical(t, Running(t), report[t], profiles[f[t]])}) > Threshold

\* 409, with a token for the batch as it was previewed.
AskApproval(k, f, restart) ==
    /\ NeedsApproval(f) /\ asked[k] = None
    /\ pending' = [pending EXCEPT ![k] = BatchOf(f, restart)]
    /\ asked' = [asked EXCEPT ![k] = BatchOf(f, restart)]
    /\ UNCHANGED <<storeVars, policyVars, alertVars, signalVars, used, report, spent>>

\* After its TTL a token is refused, or swept.
TokenExpires(k) ==
    /\ pending[k] # None
    /\ pending' = [pending EXCEPT ![k] = None]
    /\ UNCHANGED <<storeVars, policyVars, alertVars, signalVars, asked, used, report, spent>>

\* Mutant: a token stays valid after its use.
Kept(k) == pending

\* consumeFleetApprovalToken deletes a token before it looks at what it is for.
Consumed(k) == [pending EXCEPT ![k] = None]

WrongBatch(k, f, restart) ==
    /\ NeedsApproval(f) /\ pending[k] \notin {None, BatchOf(f, restart)}
    /\ pending' = Consumed(k)
    /\ UNCHANGED <<storeVars, policyVars, alertVars, signalVars, asked, used, report, spent>>

\* Item by item the policy is set and what follows from it announced, and the
\* target restarted if that was asked for.
Applied(f, restart) ==
    LET T == DOMAIN f
        again == IF restart THEN T ELSE {}
        set == Say(Say(Signals, {t \in T : Running(t)}, TRUE, policyOf'),
                   Starts(T), FALSE, policyOf')
    IN /\ policyOf' = [t \in Targets |-> IF t \in T THEN f[t] ELSE policyOf[t]]
       /\ IsSignals(Say(set, again \cap EnabledIn(store), FALSE, policyOf'))
       /\ sync' = Restarted(again, store)
       /\ broken' = broken \ again
       /\ Change
       /\ UNCHANGED <<store, saved, unsaved, profiles, alertVars, report>>

\* A batch with a token, when it needs one, or without.
ApplyApproved(k, f, restart) ==
    /\ NeedsApproval(f) /\ pending[k] = BatchOf(f, restart)
    /\ pending' = Consumed(k)
    /\ used' = [used EXCEPT ![k] = Append(@, BatchOf(f, restart))]
    /\ asked' = asked
    /\ Applied(f, restart)

ApplyBatch(f, restart) ==
    /\ ~NeedsApproval(f)
    /\ Applied(f, restart)
    /\ UNCHANGED tokenVars

------------------------------------------------------------------------------
TargetStep ==
    \/ \E t \in Targets, rec \in Record, ok \in BOOLEAN :
         AddTarget(t, rec, ok) \/ PatchTarget(t, rec, ok)
    \/ \E T \in SUBSET Targets, R \in SUBSET Targets, last \in Targets, ok \in BOOLEAN :
         RemoveTargets(T, R, last, ok)
    \/ RestartAll \/ \E T \in SUBSET Targets : Reconcile(T)

BridgeStep ==
    \/ \E t \in Targets, config \in BOOLEAN, moved \in BOOLEAN :
         (moved => config /\ report[t].config) /\ CronSync(t, config, moved)
    \/ \E t \in Targets : Silent(t) \/ EditMirror(t)

PolicyStep ==
    \/ \E p \in Policies, demands \in DemandChoices : EditPolicy(p, demands)
    \/ \E t \in Targets, p \in Policies : ApplyPolicy(t, p)
    \/ \E f \in Batches, restart \in BOOLEAN :
         \/ ApplyBatch(f, restart)
         \/ \E k \in Tokens : \/ AskApproval(k, f, restart) \/ WrongBatch(k, f, restart)
                              \/ ApplyApproved(k, f, restart)
    \/ \E k \in Tokens : TokenExpires(k)

SignalStep ==
    \/ \E t \in Targets : Refresh(t)
    \/ \E a \in posts : Answer(a)
    \/ \E k \in cooling : CooledDown(k)
    \/ \E new \in SettingChoices, ok \in BOOLEAN : EditSettings(new, ok)

Next == TargetStep \/ BridgeStep \/ PolicyStep \/ SignalStep \/ Restart

\* The timers of running loops fire, and webhooks are answered or time out.
Fairness ==
    /\ \A t \in Targets : WF_vars(Refresh(t))
    /\ WF_vars(\E a \in posts : Answer(a))

Spec == Init /\ [][Next]_vars /\ Fairness

------------------------------------------------------------------------------
(* Properties *)

\* Every variable stays in its type: no file, loop or token holds anything
\* the handlers of targets, policies and alerts were not given.
TypeOK ==
    /\ store \in [Targets -> Record \cup {None}] /\ saved \in [Targets -> Record \cup {None}]
    /\ sync \in [Targets -> Options \cup {None}]
    /\ report \in [Targets -> Report]
    /\ profiles \in [Policies -> (SUBSET Demands) \cup {None}] /\ policyOf \in [Targets -> Policies]
    /\ profiles[Default] # None /\ \A t \in Targets : profiles[policyOf[t]] # None
    /\ seen \in [Targets -> [drift : SUBSET Codes, violation : SUBSET Codes]]
    /\ settings \in Settings /\ kept \in Settings
    /\ posts \subseteq Alert /\ cooling \subseteq Key
    /\ pending \in [Tokens -> Batch \cup {None}] /\ asked \in [Tokens -> Batch \cup {None}]
    /\ used \in [Tokens -> Seq(Batch)]
    /\ spent \in [changes : 0 .. MaxChanges, faults : 0 .. MaxFaults, restarts : 0 .. MaxRestarts]
    /\ unsaved \in BOOLEAN /\ broken \subseteq Targets
    /\ settled \subseteq Problem

\* A sync loop runs for the enabled targets and no others, with the options
\* the table has, and the table is in its file: but for the changes whose
\* write failed, until a later one, a reconciling or a restart mends them.
SyncFollowsStore ==
    /\ ~unsaved => saved = store
    /\ \A t \in Targets \ broken :
         sync[t] = IF t \in EnabledIn(store) THEN store[t].options ELSE None

\* A token lets one batch through, once, and it is the batch an operator was
\* shown when it was given: neither the items nor the restart can be swapped.
ApprovedBatches ==
    \A k \in Tokens :
        /\ used[k] \in {<<>>, <<asked[k]>>}
        /\ pending[k] # None => pending[k] = asked[k] /\ used[k] = <<>>

\* A problem of a target that is synced and stays is told to each destination,
\* unless the settings, a cooldown or a failed request kept it from it.
Pressing(p) ==
    /\ Running(p[2])
    /\ p[4] \in Problems(TRUE, report[p[2]], profiles[policyOf[p[2]]])[p[3]]
    /\ p \notin settled
AlertsTold == \A p \in Problem : []<>~Pressing(p)
============================================================================
