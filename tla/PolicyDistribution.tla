------------------------- MODULE PolicyDistribution -------------------------
(***************************************************************************)
(* How a version 4 path decision reaches the classifier: the controller    *)
(* (policy_service_v4.py) decides and numbers, its request threads post    *)
(* outside its lock, the edge (edge_agent_v4.py) installs what is newer    *)
(* and two of its threads send the installed snapshot to the classifier    *)
(* (classifier/policy_snapshot.c), which again takes only what is newer.   *)
(* Decisions expire; the edge then falls back to its bootstrap ranking,    *)
(* which expires in its turn.  The edge serves one post at a time.         *)
(*                                                                         *)
(* One spoke and one application class are modelled, a ranking is its      *)
(* first path, and how an epoch is decided is PathSelection's subject: any *)
(* path here.                                                              *)
(* Bounds: MaxDecision decisions, MaxFlight posts under way.               *)
(***************************************************************************)
EXTENDS Integers, FiniteSets

CONSTANTS
  Ranked,       \* the paths a decision may be for
  Bootstrap,    \* the first configured preference
  Ttl,          \* policy_ttl_s in ticks
  DefaultTtl,   \* lifetime of a snapshot the edge makes itself, in ticks
  OverrideTtl,  \* ttl_s of an override that has one, in ticks
  MaxDecision, MaxFlight

(* Assumed of the constants, where the module is extended. *)
PolicyDistributionAssumption ==
  /\ Bootstrap \in Ranked /\ "none" \notin Ranked
  /\ {Ttl, DefaultTtl, OverrideTtl} \subseteq Nat \ {0}
  /\ MaxDecision \in Nat /\ MaxFlight \in Nat

VARIABLES
  automatic,        \* automatic_decisions of the spoke
  override,         \* overrides of the class
  decision,         \* decisions of the spoke
  decisionVersion,  \* decision_version
  flight,           \* decisions that request threads are posting
  snapshot,         \* the edge's policy_snapshot
  known,            \* the edge's policy_generation and decision_version
  sender,           \* what each of the edge's sending threads is doing
  classifying,      \* the classifier process runs
  active,           \* the classifier's active policy
  measured,         \* history: the path the latest epoch was decided for
  lapsed            \* history: the override ran out after the last decision

controller == <<automatic, override, decision, decisionVersion, measured, lapsed>>
edge == <<snapshot, known>>
classifier == <<classifying, active>>
decisionVars ==
  <<automatic, override, decision, decisionVersion, flight, snapshot, known, sender,
    classifying, active, measured, lapsed>>

Forever == -1
None == [path |-> "none", left |-> Forever]
Left == {Forever} \cup (0..OverrideTtl)
Override == {None} \cup [path : Ranked, left : Left]

\* Snapshots carry the generation of who made them; "edge-expired" is put over
\* whatever the edge holds when it does.
Generation == {"central", "edge-bootstrap", "edge-expired"}
Made == [generation : Generation, version : 1..(MaxDecision + 1), path : Ranked,
         left : 0..Ttl \cup 0..DefaultTtl]
Default == [generation |-> "edge-bootstrap", version |-> 1, path |-> Bootstrap, left |-> DefaultTtl]
\* What sdwan_policy_store_init leaves active.
Fallback == [generation |-> "", version |-> 1, path |-> Bootstrap, left |-> Forever]

Thread == {"monitor", "request"}
Doing == [at : {"idle", "test", "replace", "relabel", "read"}]
         \cup [at : {"label", "send"}, what : Made]

DecisionTypeOK ==
  /\ automatic \in Ranked /\ decision \in Ranked /\ measured \in Ranked
  /\ override \in Override
  /\ decisionVersion \in 0..MaxDecision
  /\ flight \subseteq Made
  /\ snapshot \in Made
  /\ known \in [generation : {"central", "edge-bootstrap"}, version : 1..(MaxDecision + 1)]
  /\ sender \in [Thread -> Doing]
  /\ classifying \in BOOLEAN /\ lapsed \in BOOLEAN
  /\ active \in Made \cup {Fallback}

DecisionInit ==
  /\ automatic = Bootstrap /\ decision = Bootstrap /\ measured = Bootstrap
  /\ override = None
  /\ decisionVersion = 0
  /\ flight = {}
  /\ snapshot = Default
  /\ known = [generation |-> "edge-bootstrap", version |-> 1]
  /\ sender = [t \in Thread |-> [at |-> "idle"]]
  /\ classifying = FALSE
  /\ active = Fallback
  /\ lapsed = FALSE

Expired(s) == s.left = 0
AgedSnapshot(s) == IF s.left > 0 THEN [s EXCEPT !.left = @ - 1] ELSE s

-----------------------------------------------------------------------------
(* The controller *)

\* snapshot_payload under the lock, posted afterwards.
Publish(path) ==
  /\ decisionVersion < MaxDecision
  /\ Cardinality(flight) < MaxFlight
  /\ decision' = path
  /\ decisionVersion' = decisionVersion + 1
  /\ flight' = flight \cup {[generation |-> "central", version |-> decisionVersion + 1,
                             path |-> path, left |-> Ttl]}
  /\ lapsed' = FALSE
  /\ UNCHANGED <<snapshot, known, sender, classifier>>

Overrides(o) == o # None /\ ~Expired(o)

\* Faulty variant: the decision made for an overridden class is not kept.
AutomaticUnlessOverridden(path) == IF Overrides(override) THEN automatic ELSE path
AutomaticAfter(path) == path

\* ingest_metric of the metric that completes an epoch; overrides that ran out
\* are dropped here and nowhere else.
DecideEpoch ==
  \E path \in Ranked :
    /\ automatic' = AutomaticAfter(path)
    /\ measured' = path
    /\ override' = IF Overrides(override) THEN override ELSE None
    /\ Publish(IF Overrides(override) THEN override.path ELSE path)

SetOverride ==
  \E path \in Ranked, left \in {Forever, OverrideTtl} :
    /\ override' = [path |-> path, left |-> left]
    /\ Publish(path)
    /\ UNCHANGED <<automatic, measured>>

ReleaseOverride ==
  /\ override # None
  /\ override' = None
  /\ Publish(automatic)
  /\ UNCHANGED <<automatic, measured>>

-----------------------------------------------------------------------------
(* The edge *)

\* Faulty variant: versions of two generations are compared.
NewerByNumber(s, generation, n) == s.version > n
Newer(s, generation, n) == s.generation # generation \/ s.version > n

Acceptable(s) == ~Expired(s) /\ Newer(s, known.generation, known.version)

\* apply_decision of a posted decision, in the thread of the request.
ApplyDecision ==
  \E s \in flight :
    /\ sender["request"].at = "idle"
    /\ Acceptable(s)
    /\ snapshot' = s
    /\ known' = [generation |-> s.generation, version |-> s.version]
    /\ sender' = [sender EXCEPT !["request"] = [at |-> "test"]]
    /\ flight' = flight \ {s}
    /\ UNCHANGED <<controller, classifier>>

\* 409, or the post does not arrive.
DecisionLost ==
  \E s \in flight :
    /\ flight' = flight \ {s}
    /\ UNCHANGED <<controller, edge, sender, classifier>>

\* The monitor sends in every round in which the classifier runs.
MonitorSends ==
  /\ sender["monitor"].at = "idle"
  /\ classifying
  /\ sender' = [sender EXCEPT !["monitor"] = [at |-> "test"]]
  /\ UNCHANGED <<controller, flight, edge, classifier>>

\* _send_policy_snapshot reads the snapshot, without the lock, to see whether
\* it has expired ...
TestExpiry(t) ==
  /\ sender[t].at = "test"
  /\ sender' = [sender EXCEPT ![t] = [at |-> IF Expired(snapshot) THEN "replace" ELSE "read"]]
  /\ UNCHANGED <<controller, flight, edge, classifier>>

\* ... replaces whatever is installed by then with the bootstrap ranking ...
ReplaceExpired(t) ==
  /\ sender[t].at = "replace"
  /\ snapshot' = Default
  /\ sender' = [sender EXCEPT ![t] = [at |-> "relabel"]]
  /\ UNCHANGED <<controller, flight, known, classifier>>

\* ... copies whatever is installed by then ...
CopySnapshot(t) ==
  /\ sender[t].at = "relabel"
  /\ sender' = [sender EXCEPT ![t] = [at |-> "label", what |-> snapshot]]
  /\ UNCHANGED <<controller, flight, edge, classifier>>

\* ... and puts the copy, under another generation, over whatever is ...
LabelExpired(t) ==
  /\ sender[t].at = "label"
  /\ snapshot' = [sender[t].what EXCEPT !.generation = "edge-expired"]
  /\ sender' = [sender EXCEPT ![t] = [at |-> "read"]]
  /\ UNCHANGED <<controller, flight, known, classifier>>

\* ... reads it again to serialise it ...
ReadSnapshot(t) ==
  /\ sender[t].at = "read"
  /\ sender' = [sender EXCEPT ![t] = [at |-> "send", what |-> snapshot]]
  /\ UNCHANGED <<controller, flight, edge, classifier>>

\* sdwan_policy_update_json
ClassifierTakes(s) == ~Expired(s) /\ Newer(s, active.generation, active.version)

\* ... and sends it to the classifier's socket, if there is one.
SendSnapshot(t) ==
  /\ sender[t].at = "send"
  /\ sender' = [sender EXCEPT ![t] = [at |-> "idle"]]
  /\ active' = IF classifying /\ ClassifierTakes(sender[t].what) THEN sender[t].what ELSE active
  /\ UNCHANGED <<controller, flight, edge, classifying>>

\* The classifier ends; started again by the monitor it knows only its fallback.
ClassifierEnds ==
  /\ classifying
  /\ classifying' = FALSE
  /\ active' = Fallback
  /\ UNCHANGED <<controller, flight, edge, sender>>

StartClassifier ==
  /\ ~classifying
  /\ sender["monitor"].at = "idle"
  /\ classifying' = TRUE
  /\ sender' = [sender EXCEPT !["monitor"] = [at |-> "test"]]
  /\ UNCHANGED <<controller, flight, edge, active>>

Sending(t) ==
  \/ TestExpiry(t) \/ ReplaceExpired(t) \/ CopySnapshot(t) \/ LabelExpired(t)
  \/ ReadSnapshot(t) \/ SendSnapshot(t)

DecisionTick ==
  /\ override' = AgedSnapshot(override)
  /\ lapsed' = (lapsed \/ (Overrides(override) /\ ~Overrides(override')))
  /\ flight' = {AgedSnapshot(s) : s \in flight}
  /\ snapshot' = AgedSnapshot(snapshot)
  /\ active' = AgedSnapshot(active)
  /\ sender' = [t \in Thread |-> IF sender[t].at \in {"label", "send"}
                                 THEN [sender[t] EXCEPT !.what = AgedSnapshot(@)] ELSE sender[t]]
  /\ UNCHANGED <<automatic, measured, decision, decisionVersion, known, classifying>>

DecisionNext ==
  \/ DecideEpoch \/ SetOverride \/ ReleaseOverride
  \/ ApplyDecision \/ DecisionLost
  \/ MonitorSends \/ StartClassifier \/ ClassifierEnds
  \/ \E t \in Thread : Sending(t)
  \/ DecisionTick

DecisionSpec == DecisionInit /\ [][DecisionNext]_decisionVars

\* Both threads of the edge go on, and the monitor's rounds with them.
Fairness ==
  /\ WF_decisionVars(MonitorSends) /\ WF_decisionVars(StartClassifier)
  /\ \A t \in Thread : WF_decisionVars(Sending(t))

-----------------------------------------------------------------------------
(***************************************************************************)
(* The controller's decision is the override's path while there is one and *)
(* the path of the latest epoch otherwise, through any succession of       *)
(* epochs, overrides, replacements and releases; only an override that ran *)
(* out since the last decision still shows (policy_service_v4.py:147-240). *)
(***************************************************************************)
DecisionExplained ==
  ~lapsed => decision = IF Overrides(override) THEN override.path ELSE measured

(***************************************************************************)
(* A classifier that stays up ends up choosing the path the edge has       *)
(* installed, if the edge keeps that for long enough, whatever was lost,   *)
(* restarted or sent out of order before; but for a ranking that the edge  *)
(* made itself and that the classifier refuses over an earlier one of the  *)
(* same generation (policy_snapshot.c:122).  It does refuse one: a         *)
(* bootstrap ranking that is renewed when its lifetime ends keeps its      *)
(* version (edge_agent_v4.py:572-574), so that the classifier then leaves  *)
(* every flow where it is; and a decision that comes between the           *)
(* assignments of _send_policy_snapshot (:589-592) is relabelled with its  *)
(* own, higher version, which no later bootstrap ranking exceeds.  In both *)
(* cases the "explicit bootstrap ranking after expiry" of                  *)
(* sdwan_v4/ARCHITECTURE.md:78 does not reach the packets until the next   *)
(* decision.                                                               *)
(***************************************************************************)
\* What sdwan_policy_choose makes of a flow: none leaves it on its path.
Choice == IF Expired(active) THEN "none" ELSE active.path

Refused ==
  /\ snapshot.generation = "edge-expired" /\ active.generation = "edge-expired"
  /\ active.version >= snapshot.version

ClassifierFollows ==
  <>[]classifying /\ <>[][FALSE]_snapshot => <>[](Choice = snapshot.path \/ Refused)
=============================================================================
