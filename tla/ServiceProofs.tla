--------------------------- MODULE ServiceProofs ----------------------------
(***************************************************************************)
(* Theorems about the services beside the data plane: EvidenceBundle for   *)
(* all tools, fact kinds and claim types; DesiredPaths, SpokeActivation,   *)
(* DestinationPolicy, AddressPlan and ChatSessions for any sites, threads, *)
(* transports, policies, networks and sessions.                            *)
(***************************************************************************)
EXTENDS EvidenceBundle, DesiredPaths, SpokeActivation, DestinationPolicy, AddressPlan,
        ChatSessions, TLAPS

-----------------------------------------------------------------------------
(***************************************************************************)
(* What the bundle holds, and what a server has read of it, was gathered;  *)
(* as long as no append has overwritten another the bundle holds all of    *)
(* it.  The task is done once there is a verdict.                          *)
(***************************************************************************)
NothingMadeUp ==
  /\ facts \subseteq gathered
  /\ \A a \in Attempt : server[a].read \subseteq gathered

NothingLost == ~raced => facts = gathered

DoneWhenFinal == verdict # "open" => step = "done"

Supported ==
  /\ BundleTypeOK
  /\ NothingMadeUp /\ NothingLost /\ DoneWhenFinal
  /\ ShownAsGathered

(***************************************************************************)
(* The verdict on any answer from any facts that were gathered: the model  *)
(* of evidence.py, whatever the agent cites.                               *)
(***************************************************************************)
LEMMA ValidShowsSupport ==
  ASSUME NEW answer, NEW known, Valid(answer, known),
         NEW claim \in answer.claims
  PROVE  /\ Evidence(claim, known) \subseteq known
         /\ \A f \in Evidence(claim, known) : f.kind \in Compatible[claim.type]
         /\ claim.type \in CompletePath => Evidence(claim, known) = Supports(claim.type, known)
BY DEF Valid, Evidence, Supports

LEMMA JudgementSound ==
  ASSUME NEW answer \in Answer, facts \subseteq gathered, gathered \subseteq Fact,
         raced \in BOOLEAN, NothingLost,
         outcome' = Judgement(answer, facts), raced' = raced
  PROVE  /\ outcome' \in [valid : BOOLEAN, claimed : SUBSET ClaimType,
                          shown : SUBSET Fact, known : SUBSET Fact]
         /\ ShownAsGathered'
<1>1. CASE ~Valid(answer, facts)
  BY <1>1 DEF Judgement, NoOutcome, ShownAsGathered
<1>2. CASE Valid(answer, facts)
  <2> DEFINE claimed == {claim.type : claim \in answer.claims}
             shown == UNION {Evidence(claim, facts) : claim \in answer.claims}
  <2>1. outcome' = [valid |-> TRUE, claimed |-> claimed, shown |-> shown, known |-> gathered]
    BY <1>2 DEF Judgement
  <2>2. \A claim \in answer.claims : claim.type \in ClaimType
    BY DEF Answer, AtMostTwo, Claim
  <2>3. \A f \in shown : f \in facts /\ \E type \in claimed : f.kind \in Compatible[type]
    BY <1>2, ValidShowsSupport
  <2>4. \A type \in claimed \cap CompletePath : Supports(type, facts) \subseteq shown
    BY <1>2, ValidShowsSupport
  <2>5. claimed \subseteq ClaimType /\ shown \subseteq Fact
    BY <2>2, <2>3
  <2>6. /\ outcome'.valid /\ outcome'.claimed = claimed
        /\ outcome'.shown = shown /\ outcome'.known = gathered
    BY <2>1
  <2>7. outcome' \in [valid : BOOLEAN, claimed : SUBSET ClaimType,
                      shown : SUBSET Fact, known : SUBSET Fact]
    BY <2>1, <2>5
  <2>8. ShownAsGathered'
    BY <2>3, <2>4, <2>6 DEF ShownAsGathered, NothingLost
  <2> QED
    BY <2>7, <2>8
<1> QED
  BY <1>1, <1>2

LEMMA ResultsAreFacts ==
  ASSUME BundleAssumption, NEW a \in Attempt, NEW tool \in Tool
  PROVE  Results(a, tool) \subseteq Fact
BY DEF BundleAssumption, Results, Fact

LEMMA SupportedInit ==
  ASSUME BundleAssumption, BundleInit
  PROVE  Supported
<1>1. server \in [Attempt -> [up : BOOLEAN, storing : SUBSET Tool,
                             read : SUBSET Fact, called : SUBSET Tool]]
  BY DEF BundleInit, Unstarted
<1>2. outcome \in [valid : BOOLEAN, claimed : SUBSET ClaimType,
                   shown : SUBSET Fact, known : SUBSET Fact]
  BY DEF BundleInit, NoOutcome
<1>3. BundleTypeOK
  <2>1. attempt \in Attempt
    BY DEF BundleInit, Attempt
  <2>2. step = "agent" /\ verdict = "open" /\ facts = {} /\ gathered = {} /\ raced \in BOOLEAN
    BY DEF BundleInit
  <2> QED
    BY <1>1, <1>2, <2>1, <2>2 DEF BundleTypeOK
<1>4. NothingMadeUp /\ NothingLost /\ DoneWhenFinal
  BY DEF BundleInit, Unstarted, NothingMadeUp, NothingLost, DoneWhenFinal
<1>5. ShownAsGathered
  BY DEF BundleInit, NoOutcome, ShownAsGathered
<1> QED
  BY <1>3, <1>4, <1>5 DEF Supported

(***************************************************************************)
(* The steps of a server.                                                  *)
(***************************************************************************)
LEMMA ServerStep ==
  ASSUME BundleAssumption, Supported, NEW a \in Attempt,
         StartServer(a) \/ ReadBundle(a) \/ WriteBundle(a) \/ StopServer(a)
  PROVE  Supported'
<1> USE DEF Supported, NothingMadeUp, NothingLost, DoneWhenFinal
<1>1. CASE StartServer(a)
  BY <1>1 DEF StartServer, BundleTypeOK, ShownAsGathered
<1>2. CASE ReadBundle(a)
  BY <1>2 DEF ReadBundle, BundleTypeOK, ShownAsGathered
<1>3. CASE WriteBundle(a)
  <2>1. PICK tool \in server[a].storing :
          /\ facts' = server[a].read \cup Results(a, tool)
          /\ gathered' = gathered \cup Results(a, tool)
    BY <1>3 DEF WriteBundle
  <2>2. tool \in Tool
    BY DEF BundleTypeOK
  <2>3. Results(a, tool) \subseteq Fact
    BY <2>2, ResultsAreFacts
  <2>4. server' = [server EXCEPT ![a].storing = {}, ![a].read = {}]
    BY <1>3 DEF WriteBundle
  <2> DEFINE Attempts == [Attempt -> [up : BOOLEAN, storing : SUBSET Tool,
                                     read : SUBSET Fact, called : SUBSET Tool]]
  <2>5. server \in Attempts /\ facts \subseteq Fact /\ gathered \subseteq Fact /\ raced \in BOOLEAN
    BY DEF BundleTypeOK
  <2>6. server' \in Attempts
    BY <2>4, <2>5
  <2>7. server[a].read \subseteq Fact
    BY <2>5
  <2>8. facts' \subseteq Fact /\ gathered' \subseteq Fact
    BY <2>1, <2>3, <2>5, <2>7
  <2>9. raced' \in BOOLEAN
    BY <1>3 DEF WriteBundle
  <2>10. BundleTypeOK'
    BY <1>3, <2>6, <2>8, <2>9 DEF WriteBundle, BundleTypeOK
  <2>11. NothingMadeUp'
    BY <2>1, <2>4 DEF BundleTypeOK
  <2>12. NothingLost'
    BY <1>3, <2>1 DEF WriteBundle, BundleTypeOK
  <2>13. DoneWhenFinal' /\ ShownAsGathered'
    BY <1>3 DEF WriteBundle, ShownAsGathered
  <2> QED
    BY <2>10, <2>11, <2>12, <2>13
<1>4. CASE StopServer(a)
  BY <1>4 DEF StopServer, Unstarted, BundleTypeOK, ShownAsGathered
<1> QED
  BY <1>1, <1>2, <1>3, <1>4

LEMMA SupportedStep ==
  ASSUME BundleAssumption, Supported, [BundleNext]_bundleVars
  PROVE  Supported'
<1>1. CASE EndAttempt
  BY <1>1 DEF EndAttempt, Supported, BundleTypeOK, Attempt, NothingMadeUp, NothingLost, DoneWhenFinal,
              ShownAsGathered
<1>2. CASE GatewayFails
  BY <1>2 DEF GatewayFails, Supported, BundleTypeOK, NothingMadeUp, NothingLost, DoneWhenFinal,
              ShownAsGathered
<1>3. CASE Judge
  <2>1. PICK answer \in Answer : outcome' = Judgement(answer, facts)
    BY <1>3 DEF Judge
  <2>2. /\ outcome' \in [valid : BOOLEAN, claimed : SUBSET ClaimType,
                         shown : SUBSET Fact, known : SUBSET Fact]
        /\ ShownAsGathered'
    BY <1>3, <2>1, JudgementSound DEF Judge, Supported, BundleTypeOK, NothingMadeUp
  <2> QED
    BY <1>3, <2>2 DEF Judge, Supported, BundleTypeOK, NothingMadeUp, NothingLost, DoneWhenFinal
<1>4. CASE Finalize
  BY <1>4 DEF Finalize, Supported, BundleTypeOK, NothingMadeUp, NothingLost, DoneWhenFinal,
              ShownAsGathered
<1>5. ASSUME NEW a \in Attempt, StartServer(a) \/ ReadBundle(a) \/ WriteBundle(a) \/ StopServer(a)
      PROVE  Supported'
  BY <1>5, ServerStep
<1>6. CASE UNCHANGED bundleVars
  BY <1>6 DEF bundleVars, Supported, BundleTypeOK, NothingMadeUp, NothingLost, DoneWhenFinal, ShownAsGathered
<1> QED
  BY <1>1, <1>2, <1>3, <1>4, <1>5, <1>6 DEF BundleNext

-----------------------------------------------------------------------------
(***************************************************************************)
(* A verified answer shows only what tools had stored for its message, of  *)
(* kinds its claims allow; a path claim shows all of it unless two servers *)
(* of the message appended at the same time (evidence.py, and the appends  *)
(* of repository.py that may come between the read and the verdict).       *)
(***************************************************************************)
THEOREM SpecShownAsGathered ==
  ASSUME BundleAssumption
  PROVE  BundleSpec => []ShownAsGathered
<1>1. BundleInit => Supported
  BY SupportedInit
<1>2. Supported /\ [BundleNext]_bundleVars => Supported'
  BY SupportedStep
<1>3. Supported => ShownAsGathered
  BY DEF Supported
<1> QED
  BY <1>1, <1>2, <1>3, PTL DEF BundleSpec

(***************************************************************************)
(* What is left of "immutable evidence bundle": a verdict is never taken   *)
(* back, and the facts are settled once the calls that read the bundle     *)
(* before the verdict have written theirs or ended.                        *)
(***************************************************************************)
THEOREM SpecVerdictStands ==
  ASSUME BundleAssumption
  PROVE  BundleSpec => VerdictStands
<1> DEFINE Stands == [/\ verdict # "open" => verdict' = verdict
                      /\ Settled => Settled' /\ facts' = facts]_bundleVars
<1>1. BundleInit => Supported
  BY SupportedInit
<1>2. Supported /\ [BundleNext]_bundleVars => Supported'
  BY SupportedStep
<1>3. Supported /\ [BundleNext]_bundleVars => Stands
  <2> SUFFICES ASSUME Supported, BundleNext
               PROVE  /\ verdict # "open" => verdict' = verdict
                      /\ Settled => Settled' /\ facts' = facts
    OBVIOUS
  <2> USE DEF Settled, Supported, BundleTypeOK, DoneWhenFinal
  <2>1. CASE EndAttempt \/ GatewayFails \/ Judge \/ Finalize
    BY <2>1 DEF EndAttempt, GatewayFails, Judge, Finalize
  <2>2. ASSUME NEW a \in Attempt, StartServer(a) \/ ReadBundle(a)
        PROVE  /\ verdict # "open" => verdict' = verdict
               /\ Settled => Settled' /\ facts' = facts
    BY <2>2 DEF StartServer, ReadBundle
  <2>3. ASSUME NEW a \in Attempt, WriteBundle(a)
        PROVE  verdict' = verdict /\ ~Settled
    BY <2>3 DEF WriteBundle
  <2>4. ASSUME NEW a \in Attempt, StopServer(a)
        PROVE  /\ verdict' = verdict /\ facts' = facts
               /\ Settled => Settled'
    BY <2>4 DEF StopServer, Unstarted
  <2> QED
    BY <2>1, <2>2, <2>3, <2>4 DEF BundleNext
<1> QED
  BY <1>1, <1>2, <1>3, PTL DEF BundleSpec, VerdictStands

-----------------------------------------------------------------------------
(***************************************************************************)
(* DesiredPaths. A key is known by its number: nothing a hub or a spoke    *)
(* was given is ahead of what is registered. While registrations come one  *)
(* at a time and none dies, both hubs' newest states hold every site whose *)
(* registration is over, so that a spoke is activated by hubs that know it *)
(* and no later state leaves it out.                                       *)
(***************************************************************************)
PathsTyped ==
  /\ keys \in Numbers
  /\ registering \in [Node -> [at : {"no", "stored", "publishing"}, left : SUBSET HubSite,
                               read : Numbers]]
  /\ newest \in [HubSite -> {"none", "published", "verified"}]
  /\ published \in [HubSite -> Numbers] /\ applied \in [HubSite -> Numbers]
  /\ DOMAIN told \subseteq Site
  /\ \A s \in DOMAIN told : told[s] \in [HubSite -> 0..2]
  /\ DOMAIN slotHubs \subseteq DOMAIN told
  /\ \A s \in DOMAIN slotHubs : slotHubs[s] \in [Transport -> HubSite]
  /\ disturbed \in Nat

NoneAhead ==
  /\ \A n, m \in Node : registering[n].read[m] <= keys[m]
  /\ \A h \in HubSite, m \in Node : published[h][m] <= keys[m] /\ applied[h][m] <= keys[m]
  /\ \A h \in HubSite : newest[h] = "verified" => applied[h] = published[h]
  /\ \A s \in DOMAIN told :
       keys[s] # 0 /\ \A h \in HubSite : told[s][h] # 0 /\ told[s][h] <= keys[h]

\* Registrations one at a time, each to its end, and what that is worth.
OneRegisters ==
  \A n, m \in Node : Registering(n) /\ Registering(m) => n = m

PublishesAll ==
  \A n \in Node : registering[n].at = "publishing" =>
    /\ HubKeysKnown /\ registering[n].read = keys
    /\ \A h \in HubSite \ registering[n].left : published[h] = keys

KnownToHub(h) ==
  newest[h] # "none" =>
    /\ HubKeysKnown
    /\ \A s \in Site : keys[s] # 0 /\ (Registering(s) => s \in DOMAIN told) => published[h][s] # 0

Orderly ==
  /\ OneRegisters /\ PublishesAll
  /\ \A h \in HubSite : KnownToHub(h)
  /\ \A s \in DOMAIN told, h \in HubSite : applied[h][s] # 0

Joined ==
  /\ PathsTyped /\ NoneAhead
  /\ disturbed = 0 => Orderly

LEMMA JoinedInit == PathsAssumption /\ PathsInit => Joined
<1> SUFFICES ASSUME PathsAssumption, PathsInit
             PROVE  Joined
  OBVIOUS
<1>1. NoNumbers \in Numbers /\ \A n \in Node : NoNumbers[n] = 0
  BY DEF NoNumbers, Numbers
<1>2. PathsTyped
  BY <1>1 DEF PathsInit, PathsTyped, NotRegistering
<1>3. NoneAhead
  BY <1>1 DEF PathsInit, NoneAhead, NotRegistering
<1>4. Orderly
  BY <1>1 DEF PathsInit, Orderly, OneRegisters, PublishesAll, KnownToHub, Registering, NotRegistering
<1> QED
  BY <1>2, <1>3, <1>4 DEF Joined

LEMMA BeginRegistrationKeeps ==
  ASSUME Joined, NEW n \in Node, BeginRegistration(n)
  PROVE  Joined'
<1> DEFINE stored == [registering[n] EXCEPT !.at = "stored"]
<1>1. /\ registering' = [registering EXCEPT ![n] = stored]
      /\ registering[n].at = "no" /\ stored.at = "stored" /\ stored.read = registering[n].read
      /\ stored \in [at : {"no", "stored", "publishing"}, left : SUBSET HubSite, read : Numbers]
      /\ UNCHANGED <<newest, published, applied, told, slotHubs>>
  BY DEF BeginRegistration, Registering, Joined, PathsTyped
<1> HIDE DEF stored
<1>2. /\ keys' \in Numbers /\ keys'[n] # 0
      /\ \A m \in Node : keys[m] <= keys'[m] /\ (m # n => keys'[m] = keys[m])
  <2>1. keys \in [Node -> 0..2]
    BY DEF Joined, PathsTyped, Numbers
  <2>2. CASE keys[n] < 2 /\ keys' = [keys EXCEPT ![n] = @ + 1]
    <3>1. keys[n] + 1 \in 0..2 /\ keys[n] + 1 # 0
      BY <2>1, <2>2
    <3> QED
      BY <2>1, <2>2, <3>1 DEF Numbers
  <2>3. CASE keys[n] # 0 /\ keys' = keys
    BY <2>1, <2>3 DEF Numbers
  <2> QED
    BY <2>1, <2>2, <2>3 DEF BeginRegistration
<1>3. /\ disturbed' \in Nat
      /\ disturbed' = 0 => disturbed = 0 /\ \A m \in Node : ~Registering(m)
  BY DEF BeginRegistration, Disturb, Joined, PathsTyped
<1>4. PathsTyped'
  BY <1>1, <1>2, <1>3 DEF Joined, PathsTyped
<1>5. NoneAhead'
  <2>1. /\ keys \in [Node -> 0..2] /\ keys' \in [Node -> 0..2]
        /\ \A m \in Node : registering'[m].read = registering[m].read
    BY <1>1, <1>2 DEF Joined, PathsTyped, Numbers
  <2>2. /\ \A h \in HubSite : published[h] \in [Node -> 0..2] /\ applied[h] \in [Node -> 0..2]
        /\ \A m \in Node : registering[m].read \in [Node -> 0..2]
        /\ \A s \in DOMAIN told : told[s] \in [HubSite -> 0..2] /\ s \in Node
        /\ HubSite \subseteq Node
    BY DEF Joined, PathsTyped, Numbers, Node
  <2>3. \A m, k \in Node : registering'[m].read[k] <= keys'[k]
    BY <1>2, <2>1, <2>2 DEF Joined, NoneAhead
  <2>4. \A h \in HubSite, m \in Node : published[h][m] <= keys'[m] /\ applied[h][m] <= keys'[m]
    BY <1>2, <2>1, <2>2 DEF Joined, NoneAhead
  <2>5. \A s \in DOMAIN told :
          keys'[s] # 0 /\ \A h \in HubSite : told[s][h] # 0 /\ told[s][h] <= keys'[h]
    BY <1>2, <2>1, <2>2 DEF Joined, NoneAhead
  <2> QED
    BY <1>1, <2>3, <2>4, <2>5 DEF Joined, NoneAhead
<1>6. ASSUME disturbed' = 0
      PROVE  Orderly'
  <2>1. Orderly /\ \A m \in Node : registering[m].at = "no"
    BY <1>3, <1>6 DEF Joined, Registering
  <2>2. \A m \in Node : registering'[m].at = IF m = n THEN "stored" ELSE "no"
    BY <1>1, <2>1 DEF Joined, PathsTyped
  <2>3. HubKeysKnown => HubKeysKnown'
    BY <1>2 DEF HubKeysKnown, Node
  <2>4. ASSUME NEW h \in HubSite
        PROVE  KnownToHub(h)'
    <3>1. \A s \in Site : s \in Node
      BY DEF Node
    <3>2. \A s \in DOMAIN told : keys[s] # 0
      BY DEF Joined, NoneAhead
    <3> QED
      BY <1>1, <1>2, <2>1, <2>2, <2>3, <3>1, <3>2 DEF KnownToHub, Orderly, Registering
  <2> QED
    BY <1>1, <2>1, <2>2, <2>4 DEF Orderly, OneRegisters, PublishesAll, Registering
<1> QED
  BY <1>4, <1>5, <1>6 DEF Joined

LEMMA ReadAllKeysKeeps ==
  ASSUME Joined, NEW n \in Node, ReadAllKeys(n)
  PROVE  Joined'
<1> DEFINE reading == [at |-> "publishing", left |-> HubSite, read |-> keys]
           next == IF HubKeysKnown THEN reading ELSE NotRegistering
<1>1. /\ registering' = [registering EXCEPT ![n] = next] /\ registering[n].at = "stored"
      /\ UNCHANGED <<keys, newest, published, applied, told, slotHubs, disturbed>>
  BY DEF ReadAllKeys
<1>2. next \in [at : {"no", "stored", "publishing"}, left : SUBSET HubSite, read : Numbers]
  BY DEF Joined, PathsTyped, NotRegistering, NoNumbers, Numbers
<1>3. PathsTyped'
  BY <1>1, <1>2 DEF Joined, PathsTyped
<1>4. NoneAhead'
  <2>1. \A m \in Node : next.read[m] <= keys[m]
    BY DEF Joined, PathsTyped, NotRegistering, NoNumbers, Numbers
  <2> QED
    BY <1>1, <2>1 DEF Joined, PathsTyped, NoneAhead
<1>5. ASSUME disturbed' = 0
      PROVE  Orderly'
  <2>1. Orderly /\ \A m \in Node : m # n => registering[m].at = "no"
    BY <1>1, <1>5 DEF Joined, Orderly, OneRegisters, Registering
  <2>2. /\ registering'[n] = next
        /\ \A m \in Node : m # n => registering'[m] = registering[m]
    BY <1>1 DEF Joined, PathsTyped
  <2>3. OneRegisters'
    BY <2>1, <2>2 DEF OneRegisters, Registering
  <2>4. PublishesAll'
    BY <1>1, <2>1, <2>2 DEF PublishesAll, NotRegistering, HubKeysKnown
  <2>5. ASSUME NEW h \in HubSite
        PROVE  KnownToHub(h)'
    <3>1. CASE HubKeysKnown
      BY <1>1, <2>1, <2>2, <3>1 DEF KnownToHub, Orderly, Registering, HubKeysKnown, Node
    <3>2. CASE ~HubKeysKnown
      BY <1>1, <2>1, <3>2 DEF KnownToHub, Orderly
    <3> QED
      BY <3>1, <3>2
  <2> QED
    BY <1>1, <2>1, <2>3, <2>4, <2>5 DEF Orderly
<1> QED
  BY <1>3, <1>4, <1>5 DEF Joined

LEMMA PublishHubStateKeeps ==
  ASSUME Joined, NEW n \in Node, NEW h \in HubSite, PublishHubState(n, h)
  PROVE  Joined'
<1> DEFINE r == registering[n]
           next == IF r.left = {h} THEN NotRegistering ELSE [r EXCEPT !.left = r.left \ {h}]
<1>1. /\ registering' = [registering EXCEPT ![n] = next] /\ r.at = "publishing"
      /\ published' = [published EXCEPT ![h] = r.read]
      /\ newest' = [newest EXCEPT ![h] = "published"]
      /\ UNCHANGED <<keys, applied, told, slotHubs, disturbed>>
  BY DEF PublishHubState
<1>2. /\ r \in [at : {"no", "stored", "publishing"}, left : SUBSET HubSite, read : Numbers]
      /\ NotRegistering \in [at : {"no", "stored", "publishing"}, left : SUBSET HubSite, read : Numbers]
  BY DEF Joined, PathsTyped, NotRegistering, NoNumbers, Numbers
<1>3. /\ next \in [at : {"no", "stored", "publishing"}, left : SUBSET HubSite, read : Numbers]
      /\ next.read = r.read \/ next.read = NoNumbers
      /\ next.at = "no" \/ (next.at = "publishing" /\ next.read = r.read /\ next.left = r.left \ {h})
      /\ next.at = "no" => r.left = {h}
  BY <1>1, <1>2 DEF NotRegistering
<1>4. PathsTyped'
  BY <1>1, <1>2, <1>3 DEF Joined, PathsTyped
<1>5. NoneAhead'
  <2>1. \A m \in Node : r.read[m] <= keys[m] /\ NoNumbers[m] <= keys[m]
    <3>1. \A m \in Node : NoNumbers[m] = 0 /\ keys[m] \in 0..2
      BY DEF Joined, PathsTyped, NoNumbers, Numbers
    <3> QED
      BY <3>1 DEF Joined, NoneAhead
  <2>2. /\ registering'[n] = next
        /\ \A m \in Node : m # n => registering'[m] = registering[m]
    BY <1>1 DEF Joined, PathsTyped
  <2>3. \A m, k \in Node : registering'[m].read[k] <= keys[k]
    BY <1>3, <2>1, <2>2 DEF Joined, NoneAhead
  <2>4. /\ published'[h] = r.read /\ newest'[h] = "published"
        /\ \A g \in HubSite : g # h => published'[g] = published[g] /\ newest'[g] = newest[g]
    BY <1>1 DEF Joined, PathsTyped
  <2> QED
    BY <1>1, <2>1, <2>3, <2>4 DEF Joined, NoneAhead
<1>6. ASSUME disturbed' = 0
      PROVE  Orderly'
  <2>1. /\ Orderly /\ HubKeysKnown /\ r.read = keys
        /\ \A g \in HubSite \ r.left : published[g] = keys
    BY <1>1, <1>6 DEF Joined, Orderly, PublishesAll
  <2>2. \A m \in Node : m # n => registering[m].at = "no"
    BY <1>1, <2>1 DEF Orderly, OneRegisters, Registering
  <2>3. /\ registering'[n] = next
        /\ \A m \in Node : m # n => registering'[m] = registering[m]
    BY <1>1 DEF Joined, PathsTyped
  <2>4. /\ published'[h] = keys /\ newest'[h] = "published"
        /\ \A g \in HubSite : g # h => published'[g] = published[g] /\ newest'[g] = newest[g]
    BY <1>1, <2>1 DEF Joined, PathsTyped
  <2>5. HubKeysKnown'
    BY <1>1, <2>1 DEF HubKeysKnown
  <2>6. \A g \in HubSite \ (r.left \ {h}) : published'[g] = keys
    BY <2>1, <2>4
  <2>7. OneRegisters'
    BY <2>2, <2>3 DEF OneRegisters, Registering
  <2>8. PublishesAll'
    BY <1>1, <1>3, <2>1, <2>2, <2>3, <2>5, <2>6 DEF PublishesAll
  <2>9. ASSUME NEW g \in HubSite
        PROVE  KnownToHub(g)'
    <3>1. CASE next.at = "no"
      <4>1. published'[g] = keys
        BY <1>3, <2>6, <3>1
      <4> QED
        BY <1>1, <2>5, <4>1 DEF KnownToHub
    <3>2. CASE next.at # "no" /\ g # h
      <4>1. Registering(n) /\ Registering(n)' /\ \A m \in Node : Registering(m)' <=> Registering(m)
        BY <1>1, <2>3, <3>2 DEF Registering
      <4>2. \A s \in Site : s \in Node
        BY DEF Node
      <4> QED
        BY <1>1, <2>1, <2>4, <2>5, <3>2, <4>1, <4>2 DEF KnownToHub, Orderly
    <3>3. CASE g = h
      BY <1>1, <2>4, <2>5, <3>3 DEF KnownToHub
    <3> QED
      BY <3>1, <3>2, <3>3
  <2> QED
    BY <1>1, <2>1, <2>7, <2>8, <2>9 DEF Orderly
<1> QED
  BY <1>4, <1>5, <1>6 DEF Joined

LEMMA RegistrationDiesKeeps ==
  ASSUME Joined, NEW n \in Node, RegistrationDies(n)
  PROVE  Joined'
<1>1. /\ registering' = [registering EXCEPT ![n] = NotRegistering]
      /\ disturbed' \in Nat /\ disturbed' # 0
      /\ UNCHANGED <<keys, newest, published, applied, told, slotHubs>>
  BY DEF RegistrationDies, Disturb, Joined, PathsTyped
<1>2. NotRegistering \in [at : {"no", "stored", "publishing"}, left : SUBSET HubSite, read : Numbers]
  BY DEF NotRegistering, NoNumbers, Numbers
<1>3. \A m \in Node : NotRegistering.read[m] <= keys[m]
  BY DEF NotRegistering, NoNumbers, Joined, PathsTyped, Numbers
<1>4. PathsTyped'
  BY <1>1, <1>2 DEF Joined, PathsTyped
<1>5. NoneAhead'
  BY <1>1, <1>3 DEF Joined, PathsTyped, NoneAhead
<1> QED
  BY <1>1, <1>4, <1>5 DEF Joined

LEMMA HubAppliesKeeps ==
  ASSUME Joined, NEW h \in HubSite, HubApplies(h)
  PROVE  Joined'
<1>1. /\ applied' = [applied EXCEPT ![h] = published[h]] /\ newest[h] = "published"
      /\ newest' = [newest EXCEPT ![h] = "verified"]
      /\ UNCHANGED <<keys, registering, published, told, slotHubs, disturbed>>
  BY DEF HubApplies
<1>2. /\ applied'[h] = published[h] /\ newest'[h] = "verified"
      /\ \A g \in HubSite : g # h => applied'[g] = applied[g] /\ newest'[g] = newest[g]
  BY <1>1 DEF Joined, PathsTyped
<1>3. PathsTyped'
  BY <1>1 DEF Joined, PathsTyped
<1>4. NoneAhead'
  BY <1>1, <1>2 DEF Joined, NoneAhead
<1>5. ASSUME disturbed' = 0
      PROVE  Orderly'
  <2>1. Orderly
    BY <1>1, <1>5 DEF Joined
  <2>2. \A g \in HubSite : KnownToHub(g)'
    BY <1>1, <1>2, <2>1 DEF Orderly, KnownToHub, HubKeysKnown, Registering
  <2>3. \A s \in DOMAIN told : published[h][s] # 0
    BY <1>1, <2>1 DEF Orderly, KnownToHub, Joined, PathsTyped, NoneAhead
  <2>4. OneRegisters' /\ PublishesAll'
    BY <1>1, <2>1 DEF Orderly, OneRegisters, PublishesAll, HubKeysKnown, Registering
  <2> QED
    BY <1>1, <1>2, <2>1, <2>2, <2>3, <2>4 DEF Orderly
<1> QED
  BY <1>3, <1>4, <1>5 DEF Joined

LEMMA ActivateKeeps ==
  ASSUME Joined, NEW s \in Site, Activate(s)
  PROVE  Joined'
<1> DEFINE shown == [h \in HubSite |-> keys[h]]
<1>1. /\ DOMAIN told' = DOMAIN told \cup {s} /\ told'[s] = shown
      /\ \A x \in DOMAIN told : told'[x] = told[x]
      /\ HubKeysKnown /\ keys[s] # 0 /\ \A h \in HubSite : newest[h] = "verified"
      /\ UNCHANGED <<keys, registering, newest, published, applied, slotHubs>>
  BY DEF Activate, HubsReady
<1>2. /\ disturbed' \in Nat
      /\ disturbed' = 0 => disturbed = 0 /\ ~Registering(s)
  BY DEF Activate, Disturb, Joined, PathsTyped
<1>3. /\ shown \in [HubSite -> 0..2]
      /\ \A h \in HubSite : shown[h] = keys[h] /\ keys[h] # 0 /\ keys[h] \in 0..2
  BY <1>1 DEF Joined, PathsTyped, Numbers, Node, HubKeysKnown
<1> HIDE DEF shown
<1>4. PathsTyped'
  BY <1>1, <1>2, <1>3 DEF Joined, PathsTyped
<1>5. NoneAhead'
  <2>1. \A h \in HubSite : shown[h] # 0 /\ shown[h] <= keys[h]
    BY <1>3
  <2> QED
    BY <1>1, <2>1 DEF Joined, NoneAhead
<1>6. ASSUME disturbed' = 0
      PROVE  Orderly'
  <2>1. Orderly /\ ~Registering(s)
    BY <1>2, <1>6 DEF Joined
  <2>2. \A h \in HubSite : published[h][s] # 0 /\ applied[h] = published[h]
    BY <1>1, <2>1 DEF Orderly, KnownToHub, Joined, NoneAhead
  <2>3. \A h \in HubSite : KnownToHub(h)'
    BY <1>1, <2>1, <2>2 DEF Orderly, KnownToHub, HubKeysKnown, Registering
  <2>4. OneRegisters' /\ PublishesAll'
    BY <1>1, <2>1 DEF Orderly, OneRegisters, PublishesAll, HubKeysKnown, Registering
  <2> QED
    BY <1>1, <2>1, <2>2, <2>3, <2>4 DEF Orderly
<1> QED
  BY <1>4, <1>5, <1>6 DEF Joined

LEMMA SlotsKeep ==
  ASSUME Joined, DOMAIN slotHubs' \subseteq DOMAIN told,
         \A s \in DOMAIN slotHubs' : slotHubs'[s] \in [Transport -> HubSite],
         UNCHANGED <<keys, registering, newest, published, applied, told, disturbed>>
  PROVE  Joined'
BY DEF Joined, PathsTyped, NoneAhead, Orderly, OneRegisters, PublishesAll, KnownToHub, HubKeysKnown,
       Registering

LEMMA JoinedStep ==
  ASSUME PathsAssumption, Joined, [PathsNext]_pathsVars
  PROVE  Joined'
<1>1. ASSUME NEW s \in Site, SpokeApplies(s)
      PROVE  Joined'
  <2>1. [t \in Transport |-> Preferred[s]] \in [Transport -> HubSite]
    BY DEF PathsAssumption
  <2>2. DOMAIN slotHubs' \subseteq DOMAIN told
        /\ \A x \in DOMAIN slotHubs' : slotHubs'[x] \in [Transport -> HubSite]
    BY <1>1, <2>1 DEF SpokeApplies, Joined, PathsTyped
  <2> QED
    BY <1>1, <2>2, SlotsKeep DEF SpokeApplies
<1>2. ASSUME NEW s \in Site, NEW t \in Transport, NEW h \in HubSite, MoveSlot(s, t, h)
      PROVE  Joined'
  <2>1. DOMAIN slotHubs' \subseteq DOMAIN told
        /\ \A x \in DOMAIN slotHubs' : slotHubs'[x] \in [Transport -> HubSite]
    BY <1>2 DEF MoveSlot, Joined, PathsTyped
  <2> QED
    BY <1>2, <2>1, SlotsKeep DEF MoveSlot
<1>3. CASE UNCHANGED pathsVars
  BY <1>3, SlotsKeep DEF pathsVars, Joined, PathsTyped
<1> QED
  BY <1>1, <1>2, <1>3, BeginRegistrationKeeps, ReadAllKeysKeeps, PublishHubStateKeeps,
     RegistrationDiesKeeps, HubAppliesKeeps, ActivateKeeps DEF PathsNext

LEMMA OnePeerPerLan ==
  ASSUME NEW a, NEW b, NEW h, NEW t, LanOf(b) \in HubAllowed(a, h, t)
  PROVE  a = b
  BY DEF LanOf, HubAllowed, TunnelEnd

\* Where both ends of both tunnels are right, packets get through.
LEMMA TunnelsCross ==
  ASSUME Joined, NEW a \in DOMAIN slotHubs, NEW b \in DOMAIN slotHubs, a # b,
         NEW h \in HubSite, NEW t \in Transport, Tunnels(a, h), Tunnels(b, h)
  PROVE  Crosses(a, b, h, t)
<1>1. a \in Site /\ b \in Site /\ keys[b] # 0
  BY DEF Joined, PathsTyped, NoneAhead
<1>2. LanOf(b) \in AllRemotePrefixes(a) /\ LanOf(a) \in AllRemotePrefixes(b)
  BY <1>1 DEF AllRemotePrefixes
<1>3. b \in HubPeers(applied[h])
  BY <1>1 DEF HubPeers, Tunnels
<1>4. {p \in HubPeers(applied[h]) : LanOf(b) \in HubAllowed(p, h, t)} = {b}
  BY <1>3, OnePeerPerLan DEF HubAllowed
<1> QED
  BY <1>1, <1>2, <1>4 DEF Crosses, SpokeRoutes, SpokeAllowed, HubAllowed, HubRoutes

LEMMA JoinedTunnels ==
  ASSUME Joined, NEW a \in DOMAIN slotHubs, NEW h \in HubSite, keys[h] = 1,
         (disturbed = 0 /\ keys[a] = 1) \/ Caught(a, h)
  PROVE  Tunnels(a, h)
<1>1. a \in DOMAIN told /\ a \in Node
  BY DEF Joined, PathsTyped, Node
<1>2. told[a][h] = 1
  <2>1. told[a][h] \in 0..2 /\ told[a][h] # 0 /\ told[a][h] <= 1
    BY <1>1 DEF Joined, PathsTyped, NoneAhead
  <2> QED
    BY <2>1
<1>3. CASE disturbed = 0 /\ keys[a] = 1
  <2>1. applied[h][a] \in 0..2 /\ applied[h][a] # 0 /\ applied[h][a] <= 1
    BY <1>1, <1>3 DEF Joined, PathsTyped, NoneAhead, Numbers, Orderly
  <2> QED
    BY <1>2, <1>3, <2>1 DEF Tunnels
<1>4. CASE Caught(a, h)
  BY <1>2, <1>4 DEF Tunnels, Caught, Joined, NoneAhead
<1> QED
  BY <1>3, <1>4

LEMMA JoinedMeansReachable == Joined => BranchesReachEachOther
<1> SUFFICES ASSUME Joined, NEW a \in DOMAIN slotHubs, NEW b \in DOMAIN slotHubs, a # b,
                    NEW t \in Transport, keys[slotHubs[a][t]] = 1,
                    \/ disturbed = 0 /\ keys[a] = 1 /\ keys[b] = 1
                    \/ Caught(a, slotHubs[a][t]) /\ Caught(b, slotHubs[a][t])
             PROVE  Crosses(a, b, slotHubs[a][t], t) /\ Crosses(b, a, slotHubs[a][t], t)
  BY DEF BranchesReachEachOther
<1>1. slotHubs[a][t] \in HubSite
  BY DEF Joined, PathsTyped
<1>2. Tunnels(a, slotHubs[a][t]) /\ Tunnels(b, slotHubs[a][t])
  BY <1>1, JoinedTunnels
<1> QED
  BY <1>1, <1>2, TunnelsCross

(***************************************************************************)
(* Any two spokes that run their desired states reach each other over      *)
(* every transport and back through the same hub, whichever hubs their     *)
(* slots lead to: at every moment if registrations came one at a time and  *)
(* to their end and the spokes keep their keys, and otherwise from when    *)
(* the hub has verified a state with their present keys; through a hub     *)
(* that kept its first key, for any number of sites, hubs and transports.  *)
(***************************************************************************)
THEOREM SpecBranchesReachEachOther ==
  PathsAssumption => (PathsSpec => []BranchesReachEachOther)
<1> SUFFICES ASSUME PathsAssumption
             PROVE  PathsSpec => []BranchesReachEachOther
  OBVIOUS
<1>1. PathsInit => Joined
  BY JoinedInit
<1>2. Joined /\ [PathsNext]_pathsVars => Joined'
  BY JoinedStep
<1>3. Joined => BranchesReachEachOther
  BY JoinedMeansReachable
<1> QED
  BY <1>1, <1>2, <1>3, PTL DEF PathsSpec

-----------------------------------------------------------------------------
(***************************************************************************)
(* SpokeActivation. Until two transactions meet there is one thread inside *)
(* a transaction at most, and outside of it the connection sees what is on *)
(* disk. One thread at most has taken the leases of a spoke and goes on,   *)
(* and what it has not done yet nobody has done, on disk neither.          *)
(***************************************************************************)
ActivationTyped ==
  /\ seen \in Rows /\ onDisk \in Rows /\ inTransaction \in BOOLEAN
  /\ request \in [Server -> Requests]
  /\ announced \subseteq Staged /\ collided \in BOOLEAN

InsideTransaction(t) == request[t].at \in {"write", "commit", "abort"}

\* The thread has taken the leases of its spoke and is not done with it.
GoesOn(t) ==
  /\ request[t].at # "idle"
  /\ \/ request[t].job = "lease" /\ request[t].at = "commit"
     \/ request[t].job \in {"owner", "transfer", "version", "put"}

Alone ==
  /\ \A t, u \in Server : InsideTransaction(t) /\ InsideTransaction(u) => t = u
  /\ \A t \in Server : InsideTransaction(t) => inTransaction
  /\ (\A t \in Server : request[t].at # "commit") => seen = onDisk

LeasesFirst(r) ==
  \A s \in Staged :
    /\ s \notin r.leased => r.epoch[s] = 0 /\ r.version[s] = 0
    /\ r.epoch[s] \in {0, 1} /\ r.version[s] \in {0, 1}

\* What thread t, which goes on, has done and has not done of its spoke.
InOrder(t) ==
  LET r == request[t]
      s == request[t].spoke
  IN  /\ s \in seen.leased /\ (r.job # "lease" => s \in onDisk.leased)
      /\ onDisk.version[s] = 0
      /\ ~(r.job = "put" /\ r.at = "commit") => seen.version[s] = 0
      /\ r.job = "put" /\ r.at = "commit" => seen.version[s] = 1
      /\ r.job \in {"lease", "owner", "transfer"} => onDisk.epoch[s] = 0
      /\ r.job \in {"lease", "owner"} \/ (r.job = "transfer" /\ r.at # "commit") => seen.epoch[s] = 0
      /\ r.job = "transfer" => r.epoch = 1 /\ r.at \in {"begin", "write", "commit"}
      /\ r.job = "put" => r.version = 1 /\ r.at \in {"begin", "write", "commit"}
      /\ r.job \in {"owner", "version"} => r.at = "read"

InTurn ==
  /\ Alone
  /\ LeasesFirst(seen) /\ LeasesFirst(onDisk)
  /\ \A t \in Server : GoesOn(t) => InOrder(t)
  /\ \A t, u \in Server :
       GoesOn(t) /\ GoesOn(u) /\ request[t].spoke = request[u].spoke => t = u
  /\ \A s \in announced : seen.version[s] = 1 /\ onDisk.version[s] = 1

Activated == ActivationTyped /\ (~collided => InTurn)

LEMMA ActivatedInit == ActivationInit => Activated
<1> SUFFICES ASSUME ActivationInit
             PROVE  Activated
  OBVIOUS
<1>1. PICK s \in Staged : request = [t \in Server |-> Unserved(s)]
  BY DEF ActivationInit
<1>2. /\ request \in [Server -> Requests]
      /\ \A t \in Server : request[t].at = "idle"
  BY <1>1 DEF Unserved, Requests, Jobs
<1>3. NoRows \in Rows /\ LeasesFirst(NoRows)
  BY DEF NoRows, Rows, LeasesFirst
<1> QED
  BY <1>2, <1>3 DEF ActivationInit, Activated, ActivationTyped, InTurn, Alone, InsideTransaction, GoesOn

\* The types of a step, from what becomes of one request.
LEMMA RequestTyped ==
  ASSUME ActivationTyped, NEW t \in Server, NEW r \in Requests,
         request' = [request EXCEPT ![t] = r],
         seen' \in Rows, onDisk' \in Rows, inTransaction' \in BOOLEAN, collided' \in BOOLEAN,
         announced' \subseteq Staged
  PROVE  /\ ActivationTyped'
         /\ request'[t] = r /\ \A u \in Server : u # t => request'[u] = request[u]
BY DEF ActivationTyped

\* A step of thread t that leaves the store as it is and takes no lease.
LEMMA StoreKeptInTurn ==
  ASSUME ActivationTyped, ActivationTyped', InTurn, NEW t \in Server,
         \A u \in Server : u # t => request'[u] = request[u],
         UNCHANGED <<seen, onDisk, inTransaction, announced>>,
         InsideTransaction(t)' <=> InsideTransaction(t),
         request'[t].at = "commit" <=> request[t].at = "commit",
         GoesOn(t)' => /\ GoesOn(t) /\ request'[t].spoke = request[t].spoke
                       /\ InOrder(t)'
  PROVE  InTurn'
<1>1. \A u \in Server : u # t => (GoesOn(u)' <=> GoesOn(u)) /\ (InOrder(u)' <=> InOrder(u))
                                 /\ (InsideTransaction(u)' <=> InsideTransaction(u))
  BY DEF GoesOn, InOrder, InsideTransaction
<1>2. Alone'
  BY <1>1 DEF InTurn, Alone
<1>3. \A u \in Server : GoesOn(u)' => InOrder(u)'
  BY <1>1 DEF InTurn
<1>4. \A u, v \in Server :
        GoesOn(u)' /\ GoesOn(v)' /\ request'[u].spoke = request'[v].spoke => u = v
  BY <1>1 DEF InTurn
<1> QED
  BY <1>2, <1>3, <1>4 DEF InTurn, LeasesFirst

LEMMA StartKeeps ==
  ASSUME Activated, NEW t \in Server, StartReport(t) \/ \E s \in Staged : StartActivation(t, s)
  PROVE  Activated'
<1>1. PICK r \in Requests : /\ request' = [request EXCEPT ![t] = r]
                            /\ r.at = "begin" /\ r.job \in {"lease", "report"}
  <2>1. CASE StartReport(t)
    <3>1. [request[t] EXCEPT !.job = "report", !.at = "begin"] \in Requests
      BY DEF Activated, ActivationTyped, Requests, Jobs
    <3>2. request' = [request EXCEPT ![t] = [request[t] EXCEPT !.job = "report", !.at = "begin"]]
      BY <2>1 DEF StartReport, Reaches, Activated, ActivationTyped
    <3> QED
      BY <3>1, <3>2 DEF Requests
  <2>2. ASSUME NEW s \in Staged, StartActivation(t, s)
        PROVE  \E r \in Requests : /\ request' = [request EXCEPT ![t] = r]
                                   /\ r.at = "begin" /\ r.job \in {"lease", "report"}
    <3> DEFINE r == [Unserved(s) EXCEPT !.job = "lease", !.at = "begin"]
    <3>1. r \in Requests /\ r.at = "begin" /\ r.job = "lease"
      BY DEF Unserved, Requests, Jobs
    <3>2. request' = [request EXCEPT ![t] = r]
      BY <2>2 DEF StartActivation
    <3> QED
      BY <3>1, <3>2
  <2> QED
    BY <2>1, <2>2
<1>2. /\ UNCHANGED <<seen, onDisk, inTransaction, announced, collided>>
      /\ request[t].at = "idle"
  BY DEF StartReport, StartActivation, StoreKept, CountsKept
<1>3. /\ ActivationTyped'
      /\ request'[t] = r /\ \A u \in Server : u # t => request'[u] = request[u]
  BY <1>1, <1>2, RequestTyped DEF Activated, ActivationTyped
<1>4. ASSUME ~collided PROVE InTurn'
  <2>1. ~GoesOn(t)' /\ ~InsideTransaction(t)' /\ ~InsideTransaction(t)
    BY <1>1, <1>2, <1>3 DEF GoesOn, InsideTransaction
  <2> QED
    BY <1>1, <1>2, <1>3, <1>4, <2>1, StoreKeptInTurn DEF Activated
<1> QED
  BY <1>2, <1>3, <1>4 DEF Activated

LEMMA ReadKeeps ==
  ASSUME Activated, NEW t \in Server, ReadPrefixOwner(t) \/ ReadNextVersion(t)
  PROVE  Activated'
<1> DEFINE r == request[t]
           moved == [r EXCEPT !.job = "transfer", !.at = "begin", !.epoch = seen.epoch[r.spoke] + 1]
           next == [r EXCEPT !.job = "put", !.at = "begin", !.version = seen.version[r.spoke] + 1]
<1>1. /\ r \in Requests /\ r.spoke \in Staged
      /\ seen.epoch \in [Staged -> Nat] /\ seen.version \in [Staged -> Nat]
  BY DEF Activated, ActivationTyped, Requests, Rows
<1>2. /\ moved \in Requests /\ moved.job = "transfer" /\ moved.at = "begin" /\ moved.spoke = r.spoke
      /\ moved.epoch = seen.epoch[r.spoke] + 1
  <2>1. seen.epoch[r.spoke] + 1 \in Nat
    BY <1>1
  <2> HIDE DEF r
  <2> QED
    BY <1>1, <2>1 DEF Requests, Jobs
<1>3. /\ next \in Requests /\ next.job = "put" /\ next.at = "begin" /\ next.spoke = r.spoke
      /\ next.version = seen.version[r.spoke] + 1
  <2>1. seen.version[r.spoke] + 1 \in Nat
    BY <1>1
  <2> HIDE DEF r
  <2> QED
    BY <1>1, <2>1 DEF Requests, Jobs
<1>4. \/ r.job = "owner" /\ request' = [request EXCEPT ![t] = moved]
      \/ r.job = "version" /\ request' = [request EXCEPT ![t] = next]
  BY DEF ReadPrefixOwner, ReadNextVersion
<1>5. UNCHANGED <<seen, onDisk, inTransaction, announced, collided>> /\ r.at = "read"
  BY DEF ReadPrefixOwner, ReadNextVersion, StoreKept, CountsKept
<1> HIDE DEF moved, next
<1>6. /\ ActivationTyped'
      /\ \A u \in Server : u # t => request'[u] = request[u]
      /\ (r.job = "owner" /\ request'[t] = moved) \/ (r.job = "version" /\ request'[t] = next)
  BY <1>2, <1>3, <1>4, <1>5, RequestTyped DEF Activated, ActivationTyped
<1>7. ASSUME ~collided PROVE InTurn'
  <2>1. GoesOn(t) /\ InOrder(t)
    BY <1>4, <1>5, <1>7 DEF GoesOn, Activated, InTurn
  <2>2. ~InsideTransaction(t) /\ ~InsideTransaction(t)' /\ request'[t].spoke = r.spoke
        /\ request'[t].at # "commit"
    BY <1>2, <1>3, <1>5, <1>6 DEF InsideTransaction
  <2>3. CASE r.job = "owner" /\ request'[t] = moved
    <3>1. InOrder(t)'
      BY <1>1, <1>2, <1>5, <2>1, <2>3 DEF InOrder
    <3> QED
      BY <1>5, <1>6, <1>7, <2>1, <2>2, <3>1, StoreKeptInTurn DEF Activated
  <2>4. CASE r.job = "version" /\ request'[t] = next
    <3>1. InOrder(t)'
      BY <1>1, <1>3, <1>5, <2>1, <2>4 DEF InOrder
    <3> QED
      BY <1>5, <1>6, <1>7, <2>1, <2>2, <3>1, StoreKeptInTurn DEF Activated
  <2> QED
    BY <1>6, <2>3, <2>4
<1> QED
  BY <1>5, <1>6, <1>7 DEF Activated

\* A step to another point of the same request.
LEMMA GoesTo ==
  ASSUME ActivationTyped, NEW t \in Server,
         NEW at \in {"begin", "write", "commit", "abort"}, Goes(t, at)
  PROVE  /\ request' \in [Server -> Requests]
         /\ request'[t] = [request[t] EXCEPT !.at = at]
         /\ request'[t].at = at /\ request'[t].job = request[t].job
         /\ request'[t].spoke = request[t].spoke
         /\ request'[t].epoch = request[t].epoch /\ request'[t].version = request[t].version
         /\ \A u \in Server : u # t => request'[u] = request[u]
<1>1. request[t] \in Requests
  BY DEF ActivationTyped
<1>2. [request[t] EXCEPT !.at = at] \in Requests
  BY <1>1 DEF Requests
<1>3. request' = [request EXCEPT ![t] = [request[t] EXCEPT !.at = at]]
  BY DEF Goes, ActivationTyped
<1> QED
  BY <1>1, <1>2, <1>3 DEF ActivationTyped, Requests

LEMMA BeginKeeps ==
  ASSUME Activated, NEW t \in Server, BeginTransaction(t)
  PROVE  Activated'
<1>1. /\ request[t].at = "begin" /\ inTransaction' = TRUE
      /\ UNCHANGED <<seen, onDisk, announced>> /\ collided' = (collided \/ inTransaction)
  BY DEF BeginTransaction
<1>2. PICK at \in {"write", "abort"} : Goes(t, at) /\ (~inTransaction => at = "write")
  BY DEF BeginTransaction
<1>3. /\ request' \in [Server -> Requests]
      /\ request'[t].at = at /\ request'[t].job = request[t].job
      /\ request'[t].spoke = request[t].spoke
      /\ request'[t].epoch = request[t].epoch /\ request'[t].version = request[t].version
      /\ \A u \in Server : u # t => request'[u] = request[u]
  BY <1>2, GoesTo DEF Activated
<1>4. ActivationTyped'
  BY <1>1, <1>3 DEF Activated, ActivationTyped
<1>5. ASSUME ~collided' PROVE InTurn'
  <2>1. InTurn /\ ~inTransaction /\ at = "write"
    BY <1>1, <1>2, <1>5 DEF Activated
  <2>2. /\ \A u \in Server : ~InsideTransaction(u)
        /\ \A u \in Server : u # t => (InsideTransaction(u)' <=> InsideTransaction(u))
    BY <1>3, <2>1 DEF InTurn, Alone, InsideTransaction
  <2>3. seen = onDisk
    BY <2>1, <2>2 DEF InTurn, Alone, InsideTransaction
  <2>4. Alone'
    BY <1>1, <2>2, <2>3 DEF Alone
  <2>5. \A u \in Server : (GoesOn(u)' => GoesOn(u)) /\ request'[u].spoke = request[u].spoke
    BY <1>1, <1>3, <2>1 DEF GoesOn
  <2>6. \A u \in Server : GoesOn(u)' => InOrder(u)'
    <3>1. ASSUME NEW u \in Server, u # t, GoesOn(u)'
          PROVE  InOrder(u)'
      BY <1>1, <1>3, <2>1, <2>5, <3>1 DEF InTurn, InOrder
    <3>2. ASSUME GoesOn(t)'
          PROVE  InOrder(t)'
      <4>1. InOrder(t)
        BY <2>1, <2>5, <3>2 DEF InTurn
      <4> QED
        BY <1>1, <1>3, <2>1, <4>1 DEF InOrder
    <3> QED
      BY <3>1, <3>2
  <2>7. \A u, v \in Server :
          GoesOn(u)' /\ GoesOn(v)' /\ request'[u].spoke = request'[v].spoke => u = v
    BY <2>1, <2>5 DEF InTurn
  <2> QED
    BY <1>1, <2>1, <2>4, <2>6, <2>7 DEF InTurn, LeasesFirst
<1> QED
  BY <1>4, <1>5 DEF Activated

\* The write of thread t, alone in its transaction.
LEMMA WrittenInTurn ==
  ASSUME ActivationTyped, ActivationTyped', InTurn, NEW t \in Server,
         request[t].at = "write", request'[t].at = "commit", request'[t].spoke = request[t].spoke,
         \A u \in Server : u # t => request'[u] = request[u],
         UNCHANGED <<onDisk, inTransaction, announced>>,
         LeasesFirst(seen'), seen.leased \subseteq seen'.leased,
         \A u \in Server : u # t /\ GoesOn(u) =>
           request[u].spoke # request[t].spoke \/ (seen' = seen /\ ~GoesOn(t)'),
         \A s \in Staged : s # request[t].spoke =>
           seen'.epoch[s] = seen.epoch[s] /\ seen'.version[s] = seen.version[s],
         \A s \in announced : seen'.version[s] = 1,
         GoesOn(t)' => InOrder(t)'
  PROVE  InTurn'
<1>1. \A u \in Server : u # t => /\ GoesOn(u)' <=> GoesOn(u)
                                 /\ InsideTransaction(u)' <=> InsideTransaction(u)
  BY DEF GoesOn, InsideTransaction
<1>2. Alone'
  BY <1>1 DEF InTurn, Alone, InsideTransaction
<1>3. ASSUME NEW u \in Server, GoesOn(u)'
      PROVE  InOrder(u)'
  <2>1. CASE u = t
    BY <1>3, <2>1
  <2>2. CASE u # t
    <3>1. GoesOn(u) /\ InOrder(u) /\ request'[u] = request[u]
      BY <1>1, <1>3, <2>2 DEF InTurn
    <3>2. request[u].spoke \in Staged
      BY DEF ActivationTyped, Requests
    <3>3. /\ seen'.epoch[request[u].spoke] = seen.epoch[request[u].spoke]
          /\ seen'.version[request[u].spoke] = seen.version[request[u].spoke]
      BY <2>2, <3>1, <3>2
    <3> QED
      BY <3>1, <3>3 DEF InOrder
  <2> QED
    BY <2>1, <2>2
<1>4. ASSUME NEW u \in Server, NEW v \in Server, GoesOn(u)', GoesOn(v)',
             request'[u].spoke = request'[v].spoke
      PROVE  u = v
  <2>1. ASSUME NEW w \in Server, w # t, GoesOn(w)', GoesOn(t)', request'[w].spoke = request'[t].spoke
        PROVE  FALSE
    BY <1>1, <2>1
  <2> QED
    BY <1>1, <1>4, <2>1 DEF InTurn
<1> QED
  BY <1>2, <1>3, <1>4 DEF InTurn

LEMMA WriteKeeps ==
  ASSUME Activated, NEW t \in Server,
         WriteLeases(t) \/ WriteTransfer(t) \/ WriteState(t) \/ WriteReport(t)
  PROVE  Activated'
<1> DEFINE r == request[t]
           s == r.spoke
           leased == [seen EXCEPT !.leased = seen.leased \cup {s}]
           moved == [seen EXCEPT !.epoch = [seen.epoch EXCEPT ![s] = r.epoch]]
           stated == [seen EXCEPT !.version = [seen.version EXCEPT ![s] = r.version]]
<1>1. /\ r \in Requests /\ s \in Staged /\ r.epoch \in Nat /\ r.version \in Nat /\ seen \in Rows
      /\ seen.leased \subseteq Staged
      /\ seen.epoch \in [Staged -> Nat] /\ seen.version \in [Staged -> Nat]
  BY DEF Activated, ActivationTyped, Requests, Rows
<1>2. /\ leased \in Rows /\ leased.leased = seen.leased \cup {s}
      /\ leased.epoch = seen.epoch /\ leased.version = seen.version
  BY <1>1 DEF Rows
<1>3. /\ moved \in Rows /\ moved.leased = seen.leased /\ moved.version = seen.version
      /\ moved.epoch[s] = r.epoch /\ \A x \in Staged : x # s => moved.epoch[x] = seen.epoch[x]
  BY <1>1 DEF Rows
<1>4. /\ stated \in Rows /\ stated.leased = seen.leased /\ stated.epoch = seen.epoch
      /\ stated.version[s] = r.version
      /\ \A x \in Staged : x # s => stated.version[x] = seen.version[x]
  BY <1>1 DEF Rows
<1>5. /\ r.at = "write" /\ UNCHANGED <<inTransaction, announced, collided>>
      /\ seen' = seen \/ seen' = leased \/ seen' = moved \/ seen' = stated
      /\ onDisk' = onDisk \/ onDisk' = seen'
      /\ inTransaction => onDisk' = onDisk
      /\ \E at \in {"commit", "abort"} : Goes(t, at)
  BY DEF WriteLeases, WriteTransfer, WriteState, WriteReport, StoreKept, CountsKept, Writes
<1> HIDE DEF leased, moved, stated
<1>6. PICK at \in {"commit", "abort"} : Goes(t, at)
  BY <1>5
<1>7. /\ request' \in [Server -> Requests]
      /\ request'[t].at = at /\ request'[t].job = r.job /\ request'[t].spoke = s
      /\ request'[t].epoch = r.epoch /\ request'[t].version = r.version
      /\ \A u \in Server : u # t => request'[u] = request[u]
  BY <1>6, GoesTo DEF Activated
<1>8. ActivationTyped'
  BY <1>1, <1>2, <1>3, <1>4, <1>5, <1>7 DEF Activated, ActivationTyped
<1>9. ASSUME ~collided PROVE InTurn'
  <2>1. InTurn /\ InsideTransaction(t) /\ inTransaction /\ onDisk' = onDisk
    BY <1>5, <1>9 DEF Activated, InTurn, Alone, InsideTransaction
  <2>2. seen = onDisk
    BY <1>5, <2>1 DEF InTurn, Alone, InsideTransaction
  <2>3. GoesOn(t) => InOrder(t)
    BY <2>1 DEF InTurn
  <2>4. LeasesFirst(seen) /\ \A x \in announced : seen.version[x] = 1
    BY <2>1 DEF InTurn
  <2>5. CASE WriteLeases(t)
    <3>1. r.job = "lease" /\ ~GoesOn(t)
      BY <1>5, <2>5 DEF WriteLeases, GoesOn
    <3>2. CASE RefusesLeases(s)
      <4>1. seen' = seen /\ request'[t].at = "abort"
        BY <1>5, <1>6, <1>7, <2>5, <3>2, GoesTo DEF WriteLeases, StoreKept, Activated
      <4>2. ~GoesOn(t)' /\ InsideTransaction(t)'
        BY <1>7, <3>1, <4>1 DEF GoesOn, InsideTransaction
      <4> QED
        BY <1>5, <1>7, <1>8, <2>1, <4>1, <4>2, StoreKeptInTurn DEF Activated
    <3>3. CASE ~RefusesLeases(s)
      <4>1. seen' = leased /\ request'[t].at = "commit" /\ s \notin seen.leased
        BY <1>6, <1>7, <2>5, <3>3, GoesTo DEF WriteLeases, Writes, RefusesLeases, Activated, leased
      <4>2. LeasesFirst(seen') /\ seen.leased \subseteq seen'.leased
        BY <1>2, <2>4, <4>1 DEF LeasesFirst
      <4>3. InOrder(t)'
        BY <1>1, <1>2, <1>7, <2>1, <2>2, <2>4, <3>1, <4>1 DEF InOrder, LeasesFirst
      <4>4. \A u \in Server : u # t /\ GoesOn(u) => request[u].spoke # s
        BY <2>1, <4>1 DEF InTurn, InOrder
      <4> QED
        BY <1>2, <1>5, <1>7, <1>8, <2>1, <2>4, <4>1, <4>2, <4>3, <4>4, WrittenInTurn DEF Activated
    <3> QED
      BY <3>2, <3>3
  <2>6. ASSUME GoesOn(t)
        PROVE  \A u \in Server : u # t /\ GoesOn(u) => request[u].spoke # s
    BY <2>1, <2>6 DEF InTurn
  <2>7. CASE WriteTransfer(t)
    <3>1. r.job = "transfer" /\ GoesOn(t) /\ InOrder(t)
      BY <1>5, <2>3, <2>7 DEF WriteTransfer, GoesOn
    <3>2. r.epoch = 1 /\ seen.epoch[s] = 0 /\ seen.version[s] = 0 /\ onDisk.epoch[s] = 0
          /\ onDisk.version[s] = 0 /\ s \in seen.leased /\ s \in onDisk.leased
      BY <1>5, <3>1 DEF InOrder
    <3>3. seen' = moved /\ request'[t].at = "commit"
      <4>1. ~(r.epoch < seen.epoch[s]) /\ ~(r.epoch <= seen.epoch[s])
        BY <3>2
      <4> QED
        BY <2>7, <4>1, GoesTo DEF WriteTransfer, Writes, Activated, moved
    <3>4. LeasesFirst(seen') /\ seen.leased \subseteq seen'.leased
      BY <1>3, <2>4, <3>2, <3>3 DEF LeasesFirst
    <3>5. InOrder(t)'
      BY <1>3, <1>7, <2>1, <3>1, <3>2, <3>3 DEF InOrder
    <3> QED
      BY <1>3, <1>5, <1>7, <1>8, <2>1, <2>4, <2>6, <3>1, <3>3, <3>4, <3>5, WrittenInTurn DEF Activated
  <2>8. CASE WriteState(t)
    <3>1. r.job = "put" /\ GoesOn(t) /\ InOrder(t)
      BY <1>5, <2>3, <2>8 DEF WriteState, GoesOn
    <3>2. r.version = 1 /\ seen.version[s] = 0 /\ onDisk.version[s] = 0
          /\ s \in seen.leased /\ s \in onDisk.leased
      BY <1>5, <3>1 DEF InOrder
    <3>3. seen' = stated /\ request'[t].at = "commit"
      <4>1. r.version > seen.version[s]
        BY <3>2
      <4> QED
        BY <2>8, <4>1, GoesTo DEF WriteState, Writes, Activated, stated
    <3>4. LeasesFirst(seen') /\ seen.leased \subseteq seen'.leased
      BY <1>4, <2>4, <3>2, <3>3 DEF LeasesFirst
    <3>5. InOrder(t)'
      BY <1>4, <1>7, <2>1, <3>1, <3>2, <3>3 DEF InOrder
    <3>6. \A x \in announced : seen'.version[x] = 1
      <4>1. announced \subseteq Staged
        BY DEF Activated, ActivationTyped
      <4> QED
        BY <1>4, <2>4, <3>2, <3>3, <4>1
    <3> QED
      BY <1>4, <1>5, <1>7, <1>8, <2>1, <2>6, <3>1, <3>3, <3>4, <3>5, <3>6, WrittenInTurn DEF Activated
  <2>9. CASE WriteReport(t)
    <3>1. seen' = seen /\ request'[t].at = "commit" /\ ~GoesOn(t)'
      <4>1. r.job = "report" /\ Goes(t, "commit") /\ seen' = seen
        BY <2>9 DEF WriteReport, StoreKept
      <4> QED
        BY <1>7, <4>1, GoesTo DEF GoesOn, Activated
    <3> QED
      BY <1>5, <1>7, <1>8, <2>1, <2>4, <3>1, WrittenInTurn DEF Activated
  <2> QED
    BY <2>5, <2>7, <2>8, <2>9
<1> QED
  BY <1>5, <1>8, <1>9 DEF Activated

\* A request that ends has left its transaction and its spoke.
LEMMA EndTyped ==
  ASSUME ActivationTyped, NEW t \in Server, Quits(t)
  PROVE  /\ request' \in [Server -> Requests] /\ request'[t].at = "idle"
         /\ \A u \in Server : u # t => request'[u] = request[u]
<1>1. request[t].spoke \in Staged
  BY DEF ActivationTyped, Requests
<1>2. Unserved(request[t].spoke) \in Requests /\ Unserved(request[t].spoke).at = "idle"
  BY <1>1 DEF Unserved, Requests, Jobs
<1> QED
  BY <1>2 DEF Quits, ActivationTyped

LEMMA CommitKeeps ==
  ASSUME Activated, NEW t \in Server, CommitTransaction(t)
  PROVE  Activated'
<1> DEFINE r == request[t]
           s == r.spoke
<1>1. /\ r.at = "commit" /\ onDisk' = seen /\ inTransaction' = FALSE
      /\ UNCHANGED <<seen, collided>>
      /\ announced' = IF inTransaction /\ r.job = "put" THEN announced \cup {s} ELSE announced
  BY DEF CommitTransaction
<1>2. r \in Requests /\ s \in Staged
  BY DEF Activated, ActivationTyped, Requests
<1>3. /\ request' \in [Server -> Requests]
      /\ \A u \in Server : u # t => request'[u] = request[u]
      /\ \/ request'[t].at = "idle"
         \/ /\ inTransaction /\ request'[t].at = "read" /\ request'[t].spoke = s
            /\ \/ r.job = "lease" /\ request'[t].job = "owner"
               \/ r.job \notin {"lease", "put", "report"} /\ request'[t].job = "version"
  <2>1. CASE Quits(t)
    BY <2>1, EndTyped DEF Activated
  <2>2. ASSUME NEW job \in {"owner", "version"}, Reaches(t, job, "read")
        PROVE  /\ request' \in [Server -> Requests]
               /\ \A u \in Server : u # t => request'[u] = request[u]
               /\ request'[t].at = "read" /\ request'[t].spoke = s /\ request'[t].job = job
    <3>1. request' = [request EXCEPT ![t] = [request[t] EXCEPT !.job = job, !.at = "read"]]
      BY <2>2 DEF Reaches, Activated, ActivationTyped
    <3>2. [request[t] EXCEPT !.job = job, !.at = "read"] \in Requests
      BY <1>2 DEF Requests, Jobs
    <3> QED
      BY <1>2, <3>1, <3>2 DEF Activated, ActivationTyped, Requests
  <2> QED
    BY <2>1, <2>2 DEF CommitTransaction
<1>4. ActivationTyped'
  BY <1>1, <1>2, <1>3 DEF Activated, ActivationTyped
<1>5. ASSUME ~collided PROVE InTurn'
  <2>1. InTurn /\ inTransaction /\ \A u \in Server : u # t => ~InsideTransaction(u)
    BY <1>1, <1>5 DEF Activated, InTurn, Alone, InsideTransaction
  <2>2. /\ \A u \in Server : ~InsideTransaction(u)'
        /\ \A u \in Server : u # t => (GoesOn(u)' <=> GoesOn(u))
    BY <1>3, <2>1 DEF InsideTransaction, GoesOn
  <2>3. Alone'
    BY <1>1, <2>2 DEF Alone, InsideTransaction
  <2>4. GoesOn(t)' => GoesOn(t) /\ request'[t].spoke = s
    BY <1>1, <1>2, <1>3 DEF GoesOn, Requests, Jobs
  <2>5. ASSUME NEW u \in Server, u # t, GoesOn(u)
        PROVE  InOrder(u)'
    <3>1. InOrder(u) /\ request'[u] = request[u] /\ request[u].at # "commit"
          /\ request[u].job # "lease"
      BY <1>3, <2>1, <2>5 DEF InTurn, InsideTransaction, GoesOn
    <3> QED
      BY <1>1, <3>1 DEF InOrder
  <2>6. ASSUME GoesOn(t)'
        PROVE  InOrder(t)'
    <3>1. InOrder(t)
      BY <2>1, <2>4, <2>6 DEF InTurn
    <3> QED
      BY <1>1, <1>3, <2>6, <3>1 DEF InOrder, GoesOn
  <2>7. \A u, v \in Server :
          GoesOn(u)' /\ GoesOn(v)' /\ request'[u].spoke = request'[v].spoke => u = v
    BY <1>3, <2>1, <2>2, <2>4 DEF InTurn
  <2>8. \A x \in announced' : seen'.version[x] = 1 /\ onDisk'.version[x] = 1
    <3>1. r.job = "put" => seen.version[s] = 1
      BY <1>1, <2>1 DEF InTurn, InOrder, GoesOn
    <3> QED
      BY <1>1, <2>1, <3>1 DEF InTurn
  <2> QED
    BY <1>1, <2>1, <2>2, <2>3, <2>5, <2>6, <2>7, <2>8 DEF InTurn, LeasesFirst
<1> QED
  BY <1>1, <1>4, <1>5 DEF Activated

LEMMA RollbackKeeps ==
  ASSUME Activated, NEW t \in Server, RollbackTransaction(t)
  PROVE  Activated'
<1>1. /\ request[t].at = "abort" /\ seen' = onDisk /\ inTransaction' = FALSE
      /\ UNCHANGED <<onDisk, announced, collided>>
  BY DEF RollbackTransaction
<1>2. /\ request' \in [Server -> Requests] /\ request'[t].at = "idle"
      /\ \A u \in Server : u # t => request'[u] = request[u]
  BY EndTyped DEF RollbackTransaction, Activated
<1>3. ActivationTyped'
  BY <1>1, <1>2 DEF Activated, ActivationTyped
<1>4. ASSUME ~collided PROVE InTurn'
  <2>1. InTurn /\ \A u \in Server : u # t => ~InsideTransaction(u)
    BY <1>1, <1>4 DEF Activated, InTurn, Alone, InsideTransaction
  <2>2. seen' = seen /\ onDisk' = seen'
    BY <1>1, <2>1 DEF InTurn, Alone, InsideTransaction
  <2>3. /\ \A u \in Server : ~InsideTransaction(u)' /\ (GoesOn(u)' => GoesOn(u) /\ u # t)
    BY <1>1, <1>2, <2>1 DEF InsideTransaction, GoesOn
  <2>4. \A u \in Server : GoesOn(u)' => InOrder(u)'
    BY <1>1, <1>2, <2>1, <2>2, <2>3 DEF InTurn, InOrder
  <2>5. Alone'
    BY <2>2, <2>3 DEF Alone
  <2> QED
    BY <1>1, <1>2, <2>1, <2>2, <2>3, <2>4, <2>5 DEF InTurn, LeasesFirst
<1> QED
  BY <1>1, <1>3, <1>4 DEF Activated

LEMMA DeathKeeps ==
  ASSUME Activated, ServiceDies
  PROVE  Activated'
<1>1. /\ seen' = onDisk /\ inTransaction' = FALSE /\ UNCHANGED <<onDisk, announced, collided>>
      /\ request' = [t \in Server |-> Unserved(request[t].spoke)]
  BY DEF ServiceDies
<1>2. request' \in [Server -> Requests] /\ \A t \in Server : request'[t].at = "idle"
  BY <1>1 DEF Activated, ActivationTyped, Unserved, Requests, Jobs
<1>3. ActivationTyped'
  BY <1>1, <1>2 DEF Activated, ActivationTyped
<1>4. ASSUME ~collided PROVE InTurn'
  <2>1. \A t \in Server : ~GoesOn(t)' /\ ~InsideTransaction(t)'
    BY <1>2 DEF GoesOn, InsideTransaction
  <2> QED
    BY <1>1, <1>4, <2>1 DEF Activated, InTurn, Alone, LeasesFirst
<1> QED
  BY <1>1, <1>3, <1>4 DEF Activated

(***************************************************************************)
(* Until a BEGIN meets another thread's transaction, a spoke is given one  *)
(* configuration and one epoch, and one answered as published is on disk:  *)
(* for any number of spokes, threads, repeats and deaths, with every       *)
(* BEGIN, write, COMMIT and ROLLBACK of the shared connection a step       *)
(* (policy_service_v5.py:69-103, persistence/base.py:49-58).               *)
(***************************************************************************)
THEOREM SpecSpokePublishedOnce == ActivationSpec => []SpokePublishedOnce
<1>1. ActivationInit => Activated
  BY ActivatedInit
<1>2. Activated /\ [ActivationNext]_activationVars => Activated'
  <2>1. ASSUME Activated, UNCHANGED activationVars PROVE Activated'
    BY <2>1 DEF activationVars, Activated, ActivationTyped, InTurn, Alone, LeasesFirst, GoesOn, InOrder,
                InsideTransaction
  <2> QED
    BY <2>1, StartKeeps, ReadKeeps, BeginKeeps, WriteKeeps, CommitKeeps, RollbackKeeps, DeathKeeps
    DEF ActivationNext, ServeRequest
<1>3. Activated => SpokePublishedOnce
  BY DEF Activated, ActivationTyped, InTurn, LeasesFirst, SpokePublishedOnce
<1> QED
  BY <1>1, <1>2, <1>3, PTL DEF ActivationSpec

-----------------------------------------------------------------------------
(***************************************************************************)
(* DestinationPolicy. A mark is chosen from a policy that may be started,  *)
(* and what it may choose from is what that policy allows; routes are      *)
(* there before the mark that uses them.                                   *)
(***************************************************************************)
\* What a mark promises, with the trust its policy had when it was given.
Stands(m, trusted, routed) ==
  m # NoDestinationMark =>
    IF m.direct
    THEN trusted /\ m.via \in InternetCapable /\ (routed => m.via \in direct)
    ELSE m.via \in tunnelled

\* Both marks stand: the one handed out and the one fetched meanwhile.
Standing ==
  /\ tunnelled \subseteq SlotTransport
  /\ Stands(given, trusts, installing = "done")
  /\ Stands(fetched, fetchedTrusts, installing = "routed")

LEMMA MarkedAsAllowed ==
  ASSUME PolicyAssumption, NEW p \in Startable, NEW m \in Marks(p)
  PROVE  /\ m.direct \in BOOLEAN /\ m.via \in SlotTransport
         /\ m.direct => Trusts(p) /\ m.via \in InternetCapable
<1>1. p \in Policies /\ Safe(p)
  BY DEF Startable
<1>2. p.ranked \in Seq(SlotTransport) /\ p.ranked # <<>>
  BY <1>1 DEF Policies, PolicyAssumption
<1>3. p.ranked[1] \in SlotTransport
  BY <1>2
<1>4. FirstCapable(p) \subseteq InternetCapable /\ InternetCapable \subseteq SlotTransport
  BY DEF FirstCapable, Capable, PolicyAssumption
<1>5. ~HubOnly(p) => Trusts(p)
  BY <1>1 DEF Safe, TrustRespected, Trusts, Policies
<1>6. CASE m \in [direct : {TRUE}, via : FirstCapable(p)] /\ ~HubOnly(p)
  BY <1>4, <1>5, <1>6
<1>7. CASE m \in [direct : {FALSE}, via : {p.ranked[1]}]
  BY <1>3, <1>7
<1> QED
  BY <1>6, <1>7 DEF Marks

LEMMA StandingInit == DestinationInit => Standing
  BY DEF DestinationInit, Standing, Stands

LEMMA StandingStep ==
  ASSUME PolicyAssumption, Standing, [DestinationNext]_destinationVars
  PROVE  Standing'
<1>1. CASE ReconcileRoutes
  <2>1. /\ tunnelled' \in {tunnelled, SlotTransport} /\ installing' = "reconciled"
        /\ UNCHANGED <<fetched, fetchedTrusts, given, trusts>>
    BY <1>1 DEF ReconcileRoutes
  <2> QED
    BY <2>1 DEF Standing, Stands
<1>2. CASE \E p \in Startable : WriteRoutes(p)
  <2>1. PICK p \in Startable : WriteRoutes(p)
    BY <1>2
  <2>2. /\ fetched'.direct \in BOOLEAN /\ fetched'.via \in SlotTransport
        /\ fetched'.direct => fetchedTrusts' /\ fetched'.via \in InternetCapable
    BY <2>1, MarkedAsAllowed DEF WriteRoutes
  <2>3. /\ installing' = "routed" /\ UNCHANGED <<given, trusts>>
        /\ \/ /\ fetched'.direct
              /\ direct' = direct \cup {fetched'.via} /\ UNCHANGED tunnelled
           \/ /\ ~fetched'.direct
              /\ tunnelled' = tunnelled \cup {fetched'.via} /\ UNCHANGED direct
    BY <2>1 DEF WriteRoutes
  <2> QED
    BY <2>2, <2>3 DEF Standing, Stands
<1>3. CASE WriteMarks
  BY <1>3 DEF WriteMarks, Standing, Stands
<1>4. CASE InstallFails
  BY <1>4 DEF InstallFails, Standing, Stands
<1>5. CASE UNCHANGED destinationVars
  BY <1>5 DEF destinationVars, Standing, Stands
<1> QED
  BY <1>1, <1>2, <1>3, <1>4, <1>5 DEF DestinationNext

(***************************************************************************)
(* A destination is marked for the Internet only under a policy that       *)
(* trusts it and on a transport that leads there, a mark for a hub has its *)
(* route, and after a reconciliation a mark for the Internet has its own;  *)
(* for any transports and rankings (edge_agent_v5.py:292-307, 466-478).    *)
(***************************************************************************)
THEOREM SpecMarksStandForPolicy ==
  PolicyAssumption => (DestinationSpec => []MarksStandForPolicy)
<1> SUFFICES ASSUME PolicyAssumption
             PROVE  DestinationSpec => []MarksStandForPolicy
  OBVIOUS
<1>1. DestinationInit => Standing
  BY StandingInit
<1>2. Standing /\ [DestinationNext]_destinationVars => Standing'
  BY StandingStep
<1>3. Standing => MarksStandForPolicy
  BY DEF Standing, Stands, MarksStandForPolicy
<1> QED
  BY <1>1, <1>2, <1>3, PTL DEF DestinationSpec

-----------------------------------------------------------------------------
(***************************************************************************)
(* AddressPlan. An address names its network, because networks do not      *)
(* overlap, and within a network its interface: derived addresses by the   *)
(* offset of their node and written ones because the validation compares   *)
(* them.                                                                   *)
(***************************************************************************)
LEMMA OnWhere ==
  ASSUME NEW segment, NEW nodes, NEW i \in On(segment, nodes)
  PROVE  i = [node |-> i.node, segment |-> i.segment] /\ i.segment = segment /\ i.node \in nodes
  BY DEF On

LEMMA WrittenWhere ==
  ASSUME NamesAssumption, NEW i \in Written
  PROVE  /\ i = [node |-> i.node, segment |-> i.segment]
         /\ \/ i.segment \in {Management, DataCenter, Cloud}
            \/ i.segment = Saas /\ i.node \in FixedServer \cup {"saasApp"}
            \/ \E t \in PlanTransport : i.segment = Underlay(t) /\ i.node = "saasApp"
            \/ \E s \in SpokeRouter : i.segment = LanSegment(s) /\ i.node \in {s, "host"}
<1>1. CASE \/ i \in On(Management, Router \cup Gateway \cup {"root"})
           \/ i \in On(DataCenter, HubRouter \cup {"dcApp"})
           \/ i \in On(Cloud, Gateway \cup {"cloudApp"})
  <2>1. i = [node |-> i.node, segment |-> i.segment] /\ i.segment \in {Management, DataCenter, Cloud}
    BY <1>1, OnWhere
  <2> QED
    BY <2>1
<1>2. CASE i \in On(Saas, FixedServer \cup {"saasApp"})
  BY <1>2, OnWhere
<1>3. CASE \E t \in Internet : i \in On(Underlay(t), {"saasApp"})
  BY <1>3, OnWhere DEF NamesAssumption
<1>4. CASE \E s \in SpokeRouter : i \in On(LanSegment(s), {s, "host"})
  BY <1>4, OnWhere
<1>5. CASE i \in SaasOnUnderlay
  BY <1>3, <1>5 DEF SaasOnUnderlay
<1>6. CASE i \in OnLan
  BY <1>4, <1>6 DEF OnLan
<1>7. \/ i \in On(Management, Router \cup Gateway \cup {"root"})
      \/ i \in On(DataCenter, HubRouter \cup {"dcApp"})
      \/ i \in On(Saas, FixedServer \cup {"saasApp"})
      \/ i \in On(Cloud, Gateway \cup {"cloudApp"})
      \/ i \in SaasOnUnderlay
      \/ i \in OnLan
  BY Zenon DEF Written
<1> QED
  BY <1>1, <1>2, <1>5, <1>6, <1>7

LEMMA DerivedWhere ==
  ASSUME NEW i
  PROVE  /\ i \in OnUnderlay => /\ i = [node |-> i.node, segment |-> i.segment]
                                /\ i.node \in Router
                                /\ \E t \in PlanTransport : i.segment = Underlay(t)
         /\ i \in OnOverlay => /\ i = [node |-> i.node, segment |-> i.segment]
                               /\ \E h \in HubRouter, t \in PlanTransport :
                                    i.segment = OverlaySegment(h, t) /\ i.node \in SpokeRouter \cup {h}
         /\ i \in OnInterhub => /\ i = [node |-> i.node, segment |-> i.segment]
                                /\ i.node \in HubRouter
                                /\ \E t \in PlanTransport : i.segment = Interhub(t)
         /\ i \in OnTransit => /\ i = [node |-> i.node, segment |-> i.segment]
                               /\ \E h \in HubRouter, g \in Gateway :
                                    i.segment = Transit(h, g) /\ i.node \in {h, g}
<1>1. i \in OnUnderlay => \E t \in PlanTransport : i \in On(Underlay(t), Router)
  BY DEF OnUnderlay
<1>2. i \in OnOverlay => \E h \in HubRouter, t \in PlanTransport : i \in On(OverlaySegment(h, t), SpokeRouter \cup {h})
  BY DEF OnOverlay
<1>3. i \in OnInterhub => \E t \in PlanTransport : i \in On(Interhub(t), HubRouter)
  BY DEF OnInterhub
<1>4. i \in OnTransit => \E h \in HubRouter, g \in Gateway : i \in On(Transit(h, g), {h, g})
  BY DEF OnTransit
<1>6. ASSUME i \in OnOverlay
      PROVE  /\ i = [node |-> i.node, segment |-> i.segment]
             /\ \E h \in HubRouter, t \in PlanTransport :
                  i.segment = OverlaySegment(h, t) /\ i.node \in SpokeRouter \cup {h}
  <2>1. PICK h \in HubRouter, t \in PlanTransport : i \in On(OverlaySegment(h, t), SpokeRouter \cup {h})
    BY <1>2, <1>6
  <2>2. i = [node |-> i.node, segment |-> i.segment] /\ i.segment = OverlaySegment(h, t)
        /\ i.node \in SpokeRouter \cup {h}
    BY <2>1, OnWhere
  <2> QED
    BY <2>2
<1>7. ASSUME i \in OnTransit
      PROVE  /\ i = [node |-> i.node, segment |-> i.segment]
             /\ \E h \in HubRouter, g \in Gateway : i.segment = Transit(h, g) /\ i.node \in {h, g}
  <2>1. PICK h \in HubRouter, g \in Gateway : i \in On(Transit(h, g), {h, g})
    BY <1>4, <1>7
  <2>2. i = [node |-> i.node, segment |-> i.segment] /\ i.segment = Transit(h, g) /\ i.node \in {h, g}
    BY <2>1, OnWhere
  <2> QED
    BY <2>2
<1>8. i \in OnUnderlay => /\ i = [node |-> i.node, segment |-> i.segment]
                          /\ i.node \in Router
                          /\ \E t \in PlanTransport : i.segment = Underlay(t)
  BY <1>1, OnWhere
<1>9. i \in OnInterhub => /\ i = [node |-> i.node, segment |-> i.segment]
                          /\ i.node \in HubRouter
                          /\ \E t \in PlanTransport : i.segment = Interhub(t)
  BY <1>3, OnWhere
<1> QED
  BY <1>6, <1>7, <1>8, <1>9

\* What a segment is called tells the kind of the interface.
LEMMA Named ==
  /\ \A t : Underlay(t)[1] = "underlay" /\ Interhub(t)[1] = "interhub"
  /\ \A h, t : OverlaySegment(h, t)[1] = "overlay"
  /\ \A s : LanSegment(s)[1] = "lan"
  /\ \A h, g : Transit(h, g)[1] = "transit"
  /\ Management[1] = "management" /\ DataCenter[1] = "dataCenter" /\ Saas[1] = "saas" /\ Cloud[1] = "cloud"
  BY DEF Underlay, Interhub, OverlaySegment, LanSegment, Transit, Management, DataCenter, Saas, Cloud

LEMMA NamedAfter ==
  ASSUME NEW h, NEW t
  PROVE  /\ OverlaySegment(h, t)[2] = h
         /\ Transit(h, t)[2] = h /\ Transit(h, t)[3] = t
  BY DEF OverlaySegment, Transit

LEMMA SameOffset ==
  ASSUME NEW base \in Nat, NEW x \in Nat, NEW y \in Nat, base + x = base + y
  PROVE  x = y
  OBVIOUS

LEMMA KindByName ==
  ASSUME NamesAssumption, NEW i
  PROVE  /\ i \in Written => i.segment[1] \in {"management", "dataCenter", "saas", "cloud", "underlay", "lan"}
         /\ i \in Written /\ i.segment[1] = "underlay" => i.node = "saasApp"
         /\ i \in OnUnderlay => i.segment[1] = "underlay" /\ i.node \in Router
         /\ i \in OnOverlay => i.segment[1] = "overlay"
         /\ i \in OnInterhub => i.segment[1] = "interhub"
         /\ i \in OnTransit => i.segment[1] = "transit"
  BY WrittenWhere, DerivedWhere, Named

LEMMA AddressOf ==
  ASSUME plan \in PlanType, NEW i
  PROVE  /\ i \in Written => Address(plan, i) = plan.address[i]
         /\ i \notin Written => Address(plan, i) = plan.net[i.segment].base + Offset(plan, i)
<1>1. DOMAIN plan.address = Written
  BY DEF PlanType
<1> QED
  BY <1>1 DEF Address

LEMMA OffsetByKind ==
  ASSUME NamesAssumption, NEW p, NEW i
  PROVE  /\ i \in OnUnderlay => i \notin Written /\ Offset(p, i) = UnderlayOffset(p, i)
         /\ i \in OnOverlay => i \notin Written /\ Offset(p, i) = OverlayOffset(p, i)
         /\ i \in OnInterhub => i \notin Written /\ Offset(p, i) = InterhubOffset(i)
         /\ i \in OnTransit => i \notin Written /\ Offset(p, i) = TransitOffset(i)
<1>1. "saasApp" \notin Router
  BY DEF NamesAssumption, Servers
<1>2. i \in OnUnderlay \cup OnOverlay \cup OnInterhub \cup OnTransit => i \notin Written
  BY <1>1, KindByName
<1>3. i \in OnUnderlay => Offset(p, i) = UnderlayOffset(p, i)
  BY KindByName DEF Offset, SegmentKind
<1>4. i \in OnOverlay => Offset(p, i) = OverlayOffset(p, i)
  BY KindByName DEF Offset, SegmentKind
<1>5. i \in OnInterhub => Offset(p, i) = InterhubOffset(i)
  BY KindByName DEF Offset, SegmentKind
<1>6. i \in OnTransit => Offset(p, i) = TransitOffset(i)
  BY KindByName DEF Offset, SegmentKind
<1> QED
  BY <1>2, <1>3, <1>4, <1>5, <1>6

\* The checks place every interface they look at in its network.
LEMMA UsableIsInside ==
  ASSUME NEW n \in Network, NEW a \in Nat, Usable(a, n)
  PROVE  Inside(a, n)
  BY DEF Network, Usable, Inside

LEMMA NetworkOf ==
  ASSUME NamesAssumption, NEW i \in Interface
  PROVE  i.segment \in Segment /\ i = [node |-> i.node, segment |-> i.segment]
<1>1. CASE i \in Written
  BY <1>1, WrittenWhere DEF Segment
<1>2. CASE i \in OnUnderlay
  BY <1>2, DerivedWhere DEF Segment
<1>3. CASE i \in OnOverlay
  BY <1>3, DerivedWhere DEF Segment
<1>4. CASE i \in OnInterhub
  BY <1>4, DerivedWhere DEF Segment
<1>5. CASE i \in OnTransit
  BY <1>5, DerivedWhere DEF Segment
<1> QED
  BY <1>1, <1>2, <1>3, <1>4, <1>5 DEF Interface

LEMMA AddressType ==
  ASSUME NamesAssumption, plan \in PlanType, NEW i \in Interface
  PROVE  /\ Address(plan, i) \in Nat /\ plan.net[i.segment] \in Network
         /\ i \notin Written => Offset(plan, i) \in Nat
<1>1. plan.net[i.segment] \in Network
  BY NetworkOf DEF PlanType
<1>2. CASE i \in Written
  BY <1>1, <1>2, AddressOf DEF PlanType
<1>3. ASSUME i \notin Written
      PROVE  Offset(plan, i) \in Nat
  <2>1. CASE i \in OnUnderlay
    <3>1. i.node \in Router \cup Gateway
      BY <2>1, DerivedWhere
    <3> QED
      BY <2>1, <3>1, OffsetByKind DEF UnderlayOffset, PlanType
  <2>2. CASE i \in OnOverlay
    <3>1. i.node \in Router \cup Gateway
      BY <2>2, DerivedWhere DEF Router
    <3> QED
      BY <2>2, <3>1, OffsetByKind DEF OverlayOffset, PlanType
  <2>3. CASE i \in OnInterhub
    <3>1. i.node \in HubRouter
      BY <2>3, DerivedWhere
    <3>2. HubIndex[i.node] \in Nat
      BY <3>1 DEF HubRouter, NamesAssumption, IsIndex
    <3> QED
      BY <2>3, <3>2, OffsetByKind DEF InterhubOffset
  <2>4. CASE i \in OnTransit
    BY <2>4, OffsetByKind DEF TransitOffset
  <2> QED
    BY <1>3, <2>1, <2>2, <2>3, <2>4 DEF Interface
<1>4. CASE i \notin Written
  BY <1>1, <1>3, <1>4, AddressOf DEF Network
<1> QED
  BY <1>1, <1>2, <1>3, <1>4

LEMMA CheckedIsInside ==
  ASSUME NamesAssumption, plan \in PlanType, PlanAccepted(plan),
         NEW i \in Interface, ~LeftUnchecked(i)
  PROVE  Inside(Address(plan, i), plan.net[i.segment])
<1>1. /\ Address(plan, i) \in Nat /\ plan.net[i.segment] \in Network
      /\ i \notin Written => Offset(plan, i) \in Nat
  BY AddressType
<1>2. ASSUME NEW segment, i \in OnSegment(segment), UniqueUsable(plan, OnSegment(segment))
      PROVE  Inside(Address(plan, i), plan.net[i.segment])
  BY <1>1, <1>2, UsableIsInside DEF UniqueUsable
<1>3. CASE i \in Written \cup OnUnderlay /\ i.segment \in {Management, DataCenter, Cloud}
  BY <1>2, <1>3 DEF PlanAccepted, ManagementSound, ServersSound, CloudSound, OnSegment
<1>4. CASE \E t \in PlanTransport : i \in Written \cup OnUnderlay /\ i.segment = Underlay(t)
  BY <1>2, <1>4 DEF PlanAccepted, UnderlaysSound, OnSegment
<1>5. CASE i.segment = Saas /\ i.node \in FixedServer \cup {"saasApp"}
  <2>1. i \in On(Saas, {"saasApp"})
    BY <1>5, NetworkOf DEF LeftUnchecked, On
  <2> QED
    BY <1>1, <2>1, UsableIsInside DEF PlanAccepted, ServersSound, UniqueUsable
<1>6. CASE \E s \in SpokeRouter : i \in Written /\ i.segment = LanSegment(s) /\ i.node \in {s, "host"}
  <2>1. PICK s \in SpokeRouter : i \in Written /\ i.segment = LanSegment(s) /\ i.node \in {s, "host"}
    BY <1>6
  <2>2. i \in On(LanSegment(s), {s}) \/ i \in On(LanSegment(s), {"host"})
    BY <2>1, NetworkOf DEF On
  <2>3. LansSound(plan) /\ Address(plan, i) = plan.address[i]
    BY <2>1, AddressOf DEF PlanAccepted
  <2>4. CASE i \in On(LanSegment(s), {s})
    <3>1. [node |-> "host", segment |-> LanSegment(s)] \in On(LanSegment(s), {"host"})
      BY DEF On
    <3> QED
      BY <2>1, <2>3, <2>4, <3>1 DEF LansSound
  <2>5. CASE i \in On(LanSegment(s), {"host"})
    <3>1. [node |-> s, segment |-> LanSegment(s)] \in On(LanSegment(s), {s})
      BY DEF On
    <3>2. Usable(plan.address[i], plan.net[LanSegment(s)])
      BY <2>3, <2>5, <3>1 DEF LansSound
    <3> QED
      BY <1>1, <2>1, <2>3, <3>2, UsableIsInside
  <2> QED
    BY <2>2, <2>4, <2>5
<1>7. CASE i \in OnOverlay \cup OnInterhub
  <2>1. i \notin Written /\ Offset(plan, i) < plan.net[i.segment].size
    <3>1. i \notin Written
      BY <1>7, OffsetByKind
    <3>2. ~(Offset(plan, i) >= plan.net[i.segment].size)
      BY <1>7, KindByName DEF LeftUnchecked, SegmentKind
    <3> QED
      BY <1>1, <3>1, <3>2 DEF Network
  <2> QED
    BY <1>1, <2>1, AddressOf DEF Inside, Network
<1>8. CASE i \in OnTransit
  <2>1. i \notin Written /\ Offset(plan, i) \in {1, 2}
    BY <1>8, OffsetByKind DEF TransitOffset
  <2>2. plan.net[i.segment].size = 4
    BY <1>8, DerivedWhere DEF PlanAccepted, CloudSound
  <2> QED
    BY <1>1, <2>1, <2>2, AddressOf DEF Inside, Network
<1>9. CASE i \in Written
  BY <1>3, <1>4, <1>5, <1>6, <1>9, WrittenWhere
<1>10. CASE i \in OnUnderlay
  BY <1>4, <1>10, DerivedWhere
<1> QED
  BY <1>7, <1>8, <1>9, <1>10 DEF Interface

\* Two interfaces on different networks have different addresses.
LEMMA OneNetwork ==
  ASSUME NamesAssumption, plan \in PlanType, PlanAccepted(plan),
         NEW i \in Interface, NEW j \in Interface, ~LeftUnchecked(i), ~LeftUnchecked(j),
         Address(plan, i) = Address(plan, j)
  PROVE  i.segment = j.segment
<1>1. Inside(Address(plan, i), plan.net[i.segment]) /\ Inside(Address(plan, i), plan.net[j.segment])
  BY CheckedIsInside
<1>2. /\ plan.net[i.segment] \in Network /\ plan.net[j.segment] \in Network
      /\ Address(plan, i) \in Nat
  BY AddressType
<1>3. Overlap(plan.net[i.segment], plan.net[j.segment])
  BY <1>1, <1>2 DEF Inside, Overlap, Network
<1> QED
  BY <1>3, NetworkOf DEF PlanAccepted, NetworksSound

\* On one network an address is given once.
LEMMA OneOnNetwork ==
  ASSUME NamesAssumption, plan \in PlanType, PlanAccepted(plan),
         NEW i \in Interface, NEW j \in Interface, ~LeftUnchecked(i), ~LeftUnchecked(j),
         Address(plan, i) = Address(plan, j), i.segment = j.segment
  PROVE  i = j
<1>1. i.node = j.node => i = j
  BY NetworkOf
<1>2. /\ i \in Written \/ i \in OnUnderlay \/ i \in OnOverlay \/ i \in OnInterhub \/ i \in OnTransit
      /\ j \in Written \/ j \in OnUnderlay \/ j \in OnOverlay \/ j \in OnInterhub \/ j \in OnTransit
  BY DEF Interface
<1>3. CASE i \in Written \cup OnUnderlay
  <2>1. j \in Written \cup OnUnderlay
    BY <1>2, <1>3, KindByName
  <2>2. ASSUME NEW segment, i.segment = segment, UniqueUsable(plan, OnSegment(segment))
        PROVE  i = j
    BY <1>3, <2>1, <2>2 DEF UniqueUsable, OnSegment
  <2>3. CASE i.segment \in {Management, DataCenter, Cloud}
    BY <2>2, <2>3 DEF PlanAccepted, ManagementSound, ServersSound, CloudSound
  <2>4. CASE \E t \in PlanTransport : i.segment = Underlay(t)
    BY <2>2, <2>4 DEF PlanAccepted, UnderlaysSound
  <2>5. CASE i.segment = Saas
    <3>1. i \in Written /\ j \in Written
      BY <1>3, <2>1, <2>5, KindByName, Named
    <3>2. i.node = "saasApp" /\ j.node = "saasApp"
      BY <2>5, <3>1, WrittenWhere, Named, KindByName DEF LeftUnchecked, SegmentKind
    <3> QED
      BY <1>1, <3>2
  <2>6. CASE \E s \in SpokeRouter : i.segment = LanSegment(s)
    <3>1. PICK s \in SpokeRouter : i.segment = LanSegment(s)
      BY <2>6
    <3>2. i \in Written /\ j \in Written
      BY <1>3, <2>1, <3>1, KindByName, Named
    <3>3. i.node \in {s, "host"} /\ j.node \in {s, "host"}
      <4>1. \A r \in SpokeRouter : LanSegment(r) = LanSegment(s) => r = s
        BY DEF LanSegment
      <4> QED
        BY <3>1, <3>2, <4>1, WrittenWhere, Named
    <3>4. /\ \A k \in {i, j} : k.node = s => k \in On(LanSegment(s), {s})
          /\ \A k \in {i, j} : k.node = "host" => k \in On(LanSegment(s), {"host"})
      BY <3>1, NetworkOf DEF On
    <3>5. plan.address[i] = plan.address[j]
      BY <3>2, AddressOf
    <3> QED
      BY <1>1, <3>3, <3>4, <3>5 DEF PlanAccepted, LansSound
  <2> QED
    BY <1>3, <2>3, <2>4, <2>5, <2>6, WrittenWhere, DerivedWhere
<1>4. CASE i \in OnOverlay
  <2>1. j \in OnOverlay
    BY <1>2, <1>4, KindByName
  <2>2. PICK h \in HubRouter, t \in PlanTransport :
          i.segment = OverlaySegment(h, t) /\ i.node \in SpokeRouter \cup {h}
    BY <1>4, DerivedWhere
  <2>3. j.node \in SpokeRouter \cup {h}
    <3>1. PICK g \in HubRouter, u \in PlanTransport :
            j.segment = OverlaySegment(g, u) /\ j.node \in SpokeRouter \cup {g}
      BY <2>1, DerivedWhere
    <3>2. g = h
      <4>1. i.segment[2] = h
        BY <2>2, NamedAfter
      <4>2. j.segment[2] = g
        BY <3>1, NamedAfter
      <4> QED
        BY <4>1, <4>2
    <3> QED
      BY <3>1, <3>2
  <2>4. OverlayOffset(plan, i) = OverlayOffset(plan, j)
    <3>1. /\ Address(plan, i) = plan.net[i.segment].base + OverlayOffset(plan, i)
          /\ Address(plan, j) = plan.net[i.segment].base + OverlayOffset(plan, j)
      BY <1>4, <2>1, OffsetByKind, AddressOf
    <3>2. plan.net[i.segment].base \in Nat /\ OverlayOffset(plan, i) \in Nat /\ OverlayOffset(plan, j) \in Nat
      BY <1>4, <2>1, AddressType, OffsetByKind DEF Network
    <3> QED
      BY <3>1, <3>2, SameOffset
  <2>5. HubRouter \cap SpokeRouter = {}
    BY DEF NamesAssumption
  <2>6. \A k \in {i, j} : k.node \in SpokeRouter => plan.id[k.node] # 1 /\ OverlayOffset(plan, k) = plan.id[k.node]
    BY <1>4, <2>1, <2>5, KindByName DEF LeftUnchecked, OverlayOffset, SegmentKind
  <2>7. \A k \in {i, j} : k.node = h => OverlayOffset(plan, k) = 1
    BY DEF OverlayOffset
  <2>8. \A n, m \in SpokeRouter : plan.id[n] = plan.id[m] => n = m
    BY DEF PlanAccepted, IdsSound, Router
  <2> QED
    BY <1>1, <2>2, <2>3, <2>4, <2>6, <2>7, <2>8
<1>5. CASE i \in OnInterhub
  <2>1. j \in OnInterhub
    BY <1>2, <1>5, KindByName
  <2>2. i.node \in HubRouter /\ j.node \in HubRouter
    BY <1>5, <2>1, DerivedWhere
  <2>3. /\ Address(plan, i) = plan.net[i.segment].base + (HubIndex[i.node] + 1)
        /\ Address(plan, j) = plan.net[i.segment].base + (HubIndex[j.node] + 1)
    BY <1>5, <2>1, OffsetByKind, AddressOf DEF InterhubOffset
  <2>4. HubIndex[i.node] \in Nat /\ HubIndex[j.node] \in Nat /\ plan.net[i.segment].base \in Nat
    BY <2>2, AddressType DEF HubRouter, NamesAssumption, IsIndex, Network
  <2>5. HubIndex[i.node] = HubIndex[j.node]
    <3>1. HubIndex[i.node] + 1 \in Nat /\ HubIndex[j.node] + 1 \in Nat
      BY <2>4
    <3>2. HubIndex[i.node] + 1 = HubIndex[j.node] + 1
      BY <2>3, <2>4, <3>1, SameOffset
    <3> QED
      BY <2>4, <3>2
  <2> QED
    BY <1>1, <2>2, <2>5 DEF HubRouter, NamesAssumption, IsIndex
<1>6. CASE i \in OnTransit
  <2>1. j \in OnTransit
    BY <1>2, <1>6, KindByName
  <2>2. PICK h \in HubRouter, g \in Gateway : i.segment = Transit(h, g) /\ i.node \in {h, g}
    BY <1>6, DerivedWhere
  <2>3. j.node \in {h, g}
    <3>1. PICK k \in HubRouter, f \in Gateway : j.segment = Transit(k, f) /\ j.node \in {k, f}
      BY <2>1, DerivedWhere
    <3>2. k = h /\ f = g
      <4>1. i.segment[2] = h /\ i.segment[3] = g
        BY <2>2, NamedAfter
      <4>2. j.segment[2] = k /\ j.segment[3] = f
        BY <3>1, NamedAfter
      <4> QED
        BY <4>1, <4>2
    <3> QED
      BY <3>1, <3>2
  <2>4. TransitOffset(i) = TransitOffset(j)
    <3>1. /\ Address(plan, i) = plan.net[i.segment].base + TransitOffset(i)
          /\ Address(plan, j) = plan.net[i.segment].base + TransitOffset(j)
      BY <1>6, <2>1, OffsetByKind, AddressOf
    <3>2. plan.net[i.segment].base \in Nat /\ TransitOffset(i) \in Nat /\ TransitOffset(j) \in Nat
      BY AddressType DEF Network, TransitOffset
    <3> QED
      BY <3>1, <3>2, SameOffset
  <2>5. g \notin HubRouter
    BY DEF NamesAssumption, Router
  <2> QED
    BY <1>1, <2>2, <2>3, <2>4, <2>5 DEF TransitOffset
<1> QED
  BY <1>2, <1>3, <1>4, <1>5, <1>6


LEMMA PlanTypeInit ==
  ASSUME ValuesAssumption, PlanInit
  PROVE  PlanTypeOK
<1>1. plan \in PlanType
  BY DEF PlanInit, PlanType, ValuesAssumption
<1> QED
  BY <1>1 DEF PlanInit, PlanTypeOK, ValuesAssumption

LEMMA PlanTypeStep ==
  ASSUME ValuesAssumption, PlanTypeOK, [PlanNext]_planVars
  PROVE  PlanTypeOK'
<1>1. CASE Edit
  <2>1. edits' \in 0..MaxEdits
    BY <1>1 DEF Edit, PlanTypeOK, ValuesAssumption
  <2>2. plan \in PlanType
    BY DEF PlanTypeOK
  <2>3. ASSUME \E s \in Segment, n \in EditedNetworks : plan' = [plan EXCEPT !.net[s] = n]
        PROVE  plan' \in PlanType
    BY <2>2, <2>3 DEF PlanType, ValuesAssumption
  <2>4. ASSUME \E n \in Router \cup Gateway, id \in EditedIds : plan' = [plan EXCEPT !.id[n] = id]
        PROVE  plan' \in PlanType
    BY <2>2, <2>4 DEF PlanType, ValuesAssumption
  <2>5. ASSUME \E i \in Written, a \in EditedAddresses : plan' = [plan EXCEPT !.address[i] = a]
        PROVE  plan' \in PlanType
    BY <2>2, <2>5 DEF PlanType, ValuesAssumption
  <2>6. ASSUME \E start \in EditedStarts : plan' = [plan EXCEPT !.start = start]
        PROVE  plan' \in PlanType
    BY <2>2, <2>6 DEF PlanType, ValuesAssumption
  <2>7. plan' \in PlanType
    BY <1>1, <2>3, <2>4, <2>5, <2>6 DEF Edit
  <2> QED
    BY <2>1, <2>7 DEF PlanTypeOK
<1>2. CASE UNCHANGED planVars
  BY <1>2 DEF planVars, PlanTypeOK
<1> QED
  BY <1>1, <1>2 DEF PlanNext

(***************************************************************************)
(* In a plan that passes validation, however its file was edited, an       *)
(* address names one interface of the whole lab, but for the interfaces    *)
(* the checks leave out; for any number of sites, transports, gateways and *)
(* edits.                                                                  *)
(***************************************************************************)
THEOREM SpecAddressNamesInterface ==
  NamesAssumption /\ ValuesAssumption => (PlanSpec => []AddressNamesInterface)
<1> SUFFICES ASSUME NamesAssumption, ValuesAssumption
             PROVE  PlanSpec => []AddressNamesInterface
  OBVIOUS
<1>1. PlanInit => PlanTypeOK
  BY PlanTypeInit
<1>2. PlanTypeOK /\ [PlanNext]_planVars => PlanTypeOK'
  BY PlanTypeStep
<1>3. PlanTypeOK => AddressNamesInterface
  BY OneNetwork, OneOnNetwork DEF PlanTypeOK, AddressNamesInterface
<1> QED
  BY <1>1, <1>2, <1>3, PTL DEF PlanSpec

-----------------------------------------------------------------------------
(***************************************************************************)
(* ChatSessions. A running task has one session and is its only one; the   *)
(* question it answers is the last row of that session until the session   *)
(* is deleted under it.                                                    *)
(***************************************************************************)
TaskType == [step : {"none", "working", "rendering", "done"}, session : Session \cup {0}]

\* The question of a running task is the last row of its session; once the
\* session was deleted under the task, there is no row at all.
QuestionLast(m) ==
  IF m \in uprooted
  THEN \A q \in rows : q.session # task[m].session
  ELSE \E p \in rows : /\ p.message = m /\ p.session = task[m].session /\ ~p.answer
                       /\ \A q \in rows : q.session = p.session => q.id <= p.id

\* Every running task is the current one of its session, behind its question.
Conversation ==
  /\ ChatTypeOK
  /\ \A m \in Message : m > asked => task[m].step = "none" /\ m \notin uprooted
  /\ \A m \in Message : Running(m) => task[m].session \in Session /\ current[task[m].session] = m
  /\ admitted # 0 => /\ asked < Messages
                     /\ \A m \in Message : Running(m) => task[m].session # admitted
  /\ \A m \in Message : Running(m) => QuestionLast(m)
  /\ AnswersFollowMessages

LEMMA ConversationInit ==
  ASSUME SessionsAssumption, ChatInit
  PROVE  Conversation
<1>1. ChatTypeOK
  BY DEF SessionsAssumption, ChatInit, ChatTypeOK
<1>2. \A m \in Message : task[m].step = "none" /\ m \notin uprooted
  BY DEF ChatInit
<1>3. \A m \in Message : ~Running(m)
  BY <1>2 DEF Running
<1> QED
  BY <1>1, <1>2, <1>3 DEF ChatInit, Conversation, AnswersFollowMessages

\* What an insertion adds is behind everything else.
LEMMA InsertedLast ==
  ASSUME SessionsAssumption, ChatTypeOK, NEW m \in Message, NEW s \in Session, NEW answer \in BOOLEAN,
         Insert(m, s, answer)
  PROVE  \E r \in Row : /\ r.session = s /\ r.message = m /\ r.answer = answer
                        /\ rows' = rows \cup {r}
                        /\ \A q \in rows : q.id < r.id
<1>1. PICK n \in RowId : /\ NextRow(n)
                         /\ rows' = rows \cup {[id |-> n, session |-> s, message |-> m, answer |-> answer]}
  BY DEF Insert
<1> DEFINE r == [id |-> n, session |-> s, message |-> m, answer |-> answer]
<1>2. r \in Row /\ r.session = s /\ r.message = m /\ r.answer = answer /\ r.id = n
  BY DEF Row
<1>3. rows' = rows \cup {r}
  BY <1>1
<1> HIDE DEF r
<1>4. \A q \in rows : q.id < r.id
  BY <1>1, <1>2 DEF NextRow
<1> QED
  BY <1>2, <1>3, <1>4

LEMMA RowTypes ==
  ASSUME SessionsAssumption, ChatTypeOK, NEW q \in rows
  PROVE  q \in Row /\ q.id \in Nat /\ q.session \in Session /\ q.message \in Message
  BY DEF ChatTypeOK, Row, RowId, SessionsAssumption

\* Rows added behind keep every answer right behind its message.
LEMMA AnswersStay ==
  ASSUME SessionsAssumption, ChatTypeOK, AnswersFollowMessages, NEW r \in Row, rows' = rows \cup {r},
         \A q \in rows : q.id < r.id, uprooted' = uprooted,
         r.answer =>
           \/ \E p \in rows : /\ p.message = r.message /\ p.session = r.session /\ ~p.answer
                              /\ \A q \in rows : q.session = p.session => q.id <= p.id
           \/ r.message \in uprooted /\ \A q \in rows : q.session # r.session
  PROVE  AnswersFollowMessages'
<1> SUFFICES ASSUME NEW a \in rows', a.answer
             PROVE  \/ \E p \in rows' :
                         /\ p.message = a.message /\ p.session = a.session /\ ~p.answer /\ p.id < a.id
                         /\ \A q \in rows' : q.session = a.session => q.id <= p.id \/ q.id >= a.id
                    \/ /\ a.message \in uprooted'
                       /\ \A q \in rows' : q.session = a.session => q.id >= a.id
  BY DEF AnswersFollowMessages
<1>1. \A q \in rows' : q.id \in Nat
  BY RowTypes DEF Row, RowId
<1>2. CASE a \in rows
  <2>1. \/ \E p \in rows :
             /\ p.message = a.message /\ p.session = a.session /\ ~p.answer /\ p.id < a.id
             /\ \A q \in rows : q.session = a.session => q.id <= p.id \/ q.id >= a.id
        \/ /\ a.message \in uprooted
           /\ \A q \in rows : q.session = a.session => q.id >= a.id
    BY <1>2 DEF AnswersFollowMessages
  <2>2. r.id >= a.id
    BY <1>1, <1>2
  <2>3. CASE \E p \in rows :
             /\ p.message = a.message /\ p.session = a.session /\ ~p.answer /\ p.id < a.id
             /\ \A q \in rows : q.session = a.session => q.id <= p.id \/ q.id >= a.id
    <3>1. PICK p \in rows :
             /\ p.message = a.message /\ p.session = a.session /\ ~p.answer /\ p.id < a.id
             /\ \A q \in rows : q.session = a.session => q.id <= p.id \/ q.id >= a.id
      BY <2>3
    <3>2. \A q \in rows' : q.session = a.session => q.id <= p.id \/ q.id >= a.id
      BY <2>2, <3>1
    <3> QED
      BY <3>1, <3>2
  <2>4. CASE /\ a.message \in uprooted
             /\ \A q \in rows : q.session = a.session => q.id >= a.id
    BY <2>2, <2>4
  <2> QED
    BY <2>1, <2>3, <2>4
<1>3. CASE a = r
  <2>1. CASE \E p \in rows : /\ p.message = r.message /\ p.session = r.session /\ ~p.answer
                             /\ \A q \in rows : q.session = p.session => q.id <= p.id
    <3>1. PICK p \in rows : /\ p.message = r.message /\ p.session = r.session /\ ~p.answer
                            /\ \A q \in rows : q.session = p.session => q.id <= p.id
      BY <2>1
    <3>2. p.id < r.id /\ p \in rows' /\ r.id >= r.id
      BY <1>1
    <3>3. \A q \in rows' : q.session = r.session => q.id <= p.id \/ q.id >= r.id
      BY <3>1, <3>2
    <3> QED
      BY <1>3, <3>1, <3>2, <3>3
  <2>2. CASE r.message \in uprooted /\ \A q \in rows : q.session # r.session
    <3>1. r.id >= r.id
      BY <1>1
    <3>2. \A q \in rows' : q.session = r.session => q.id >= r.id
      BY <2>2, <3>1
    <3> QED
      BY <1>3, <2>2, <3>2
  <2> QED
    BY <1>3, <2>1, <2>2
<1> QED
  BY <1>2, <1>3

LEMMA AdmitStep ==
  ASSUME SessionsAssumption, Conversation, Admit
  PROVE  Conversation'
<1>1. PICK s \in Session : admitted' = s /\ (current[s] # 0 => ~Running(current[s]))
  BY DEF Admit
<1>2. UNCHANGED <<owner, rows, asked, task, current, uprooted>> /\ asked < Messages
  BY DEF Admit
<1>3. \A m \in Message : Running(m) => task[m].session # s
  <2> SUFFICES ASSUME NEW m \in Message, Running(m), task[m].session = s
               PROVE  FALSE
    OBVIOUS
  <2>1. current[s] = m
    BY DEF Conversation
  <2>2. m # 0
    BY DEF Message, SessionsAssumption
  <2> QED
    BY <1>1, <2>1, <2>2
<1>4. ChatTypeOK'
  BY <1>1, <1>2 DEF Conversation, ChatTypeOK
<1>5. \A m \in Message : Running(m)' = Running(m) /\ QuestionLast(m)' = QuestionLast(m)
  BY <1>2 DEF Running, QuestionLast
<1>6. AnswersFollowMessages' = AnswersFollowMessages
  BY <1>2 DEF AnswersFollowMessages
<1> QED
  BY <1>1, <1>2, <1>3, <1>4, <1>5, <1>6 DEF Conversation

LEMMA AskStep ==
  ASSUME SessionsAssumption, Conversation, Ask
  PROVE  Conversation'
<1> DEFINE new == asked + 1
<1>1. /\ ChatTypeOK /\ asked < Messages /\ asked \in Nat
      /\ admitted \in Session /\ new \in Message
  BY DEF Ask, Conversation, ChatTypeOK, SessionsAssumption, Message, Session
<1>2. /\ Insert(new, admitted, FALSE)
      /\ task' = [task EXCEPT ![new] = [step |-> "working", session |-> admitted]]
      /\ current' = [current EXCEPT ![admitted] = new]
      /\ asked' = new /\ admitted' = 0
      /\ UNCHANGED <<owner, uprooted>>
  BY DEF Ask
<1>3. PICK r \in Row : /\ r.session = admitted /\ r.message = new /\ r.answer = FALSE
                       /\ rows' = rows \cup {r}
                       /\ \A q \in rows : q.id < r.id
  <2> HIDE DEF new
  <2>1. \A answer \in BOOLEAN : Insert(new, admitted, answer) =>
          \E r \in Row : /\ r.session = admitted /\ r.message = new /\ r.answer = answer
                         /\ rows' = rows \cup {r}
                         /\ \A q \in rows : q.id < r.id
    BY <1>1, InsertedLast
  <2>2. FALSE \in BOOLEAN
    OBVIOUS
  <2> QED
    BY <1>2, <2>1, <2>2, Zenon
<1>4. \A m \in Message : m > asked => task[m].step = "none" /\ m \notin uprooted
  BY DEF Conversation
<1>5. new > asked /\ task[new].step = "none" /\ new \notin uprooted
  BY <1>1, <1>4
<1>6. task'[new] = [step |-> "working", session |-> admitted] /\ \A m \in Message : m # new => task'[m] = task[m]
  BY <1>1, <1>2 DEF ChatTypeOK
<1>7. \A m \in Message : m # new => Running(m)' = Running(m)
  BY <1>6 DEF Running
<1>8. ChatTypeOK'
  <2>1. [step |-> "working", session |-> admitted] \in TaskType
    BY <1>1 DEF TaskType
  <2>2. asked' \in 0..Messages /\ admitted' \in Session \cup {0}
    BY <1>1, <1>2 DEF Message, SessionsAssumption
  <2>3. rows' \subseteq Row
    BY <1>1, <1>3 DEF ChatTypeOK
  <2> HIDE DEF new
  <2>4. task' \in [Message -> TaskType] /\ current' \in [Session -> Message \cup {0}]
    BY <1>1, <1>2, <2>1 DEF ChatTypeOK, TaskType
  <2> QED
    BY <1>1, <1>2, <2>2, <2>3, <2>4 DEF ChatTypeOK, TaskType
<1>9. \A m \in Message : m > asked' => task'[m].step = "none" /\ m \notin uprooted'
  <2> SUFFICES ASSUME NEW m \in Message, m > asked'
               PROVE  task'[m].step = "none" /\ m \notin uprooted'
    OBVIOUS
  <2>1. m > asked /\ m # new
    BY <1>1, <1>2 DEF Message
  <2> QED
    BY <1>2, <1>4, <1>6, <2>1
<1>10. \A m \in Message : Running(m) => task[m].session # admitted /\ task[m].session \in Session
                                        /\ current[task[m].session] = m
  BY <1>1 DEF Conversation, Session
<1> HIDE DEF new
<1>11. ASSUME NEW m \in Message, Running(m)'
       PROVE  task'[m].session \in Session /\ current'[task'[m].session] = m
  <2>1. CASE m = new
    BY <1>1, <1>2, <1>6, <2>1 DEF ChatTypeOK
  <2>2. CASE m # new
    BY <1>1, <1>2, <1>6, <1>7, <1>10, <1>11, <2>2 DEF ChatTypeOK
  <2> QED
    BY <2>1, <2>2
<1>12. ASSUME NEW m \in Message, Running(m)'
       PROVE  QuestionLast(m)'
  <2>1. CASE m = new
    <3>1. \A q \in rows' : q.id <= r.id
      BY <1>1, <1>3, RowTypes DEF Row, RowId
    <3>2. r \in rows' /\ r.message = new /\ r.session = task'[new].session /\ ~r.answer
      BY <1>3, <1>6
    <3>3. \E p \in rows' : /\ p.message = m /\ p.session = task'[m].session /\ ~p.answer
                           /\ \A q \in rows' : q.session = p.session => q.id <= p.id
      BY <2>1, <3>1, <3>2
    <3> QED
      BY <1>2, <1>5, <2>1, <3>3 DEF QuestionLast
  <2>2. CASE m # new
    <3>1. Running(m) /\ QuestionLast(m) /\ task'[m] = task[m] /\ task[m].session # admitted
      BY <1>6, <1>7, <1>10, <1>12, <2>2 DEF Conversation
    <3> QED
      BY <1>2, <1>3, <3>1 DEF QuestionLast
  <2> QED
    BY <2>1, <2>2
<1>13. AnswersFollowMessages'
  BY <1>1, <1>2, <1>3, AnswersStay DEF Conversation
<1> QED
  BY <1>2, <1>8, <1>9, <1>11, <1>12, <1>13 DEF Conversation

LEMMA DeleteStep ==
  ASSUME SessionsAssumption, Conversation, Delete
  PROVE  Conversation'
<1>1. PICK s \in Session :
        /\ owner' = [owner EXCEPT ![s] = Nobody]
        /\ rows' = {r \in rows : r.session # s}
        /\ uprooted' = uprooted \cup {m \in Message : Running(m) /\ task[m].session = s}
  BY DEF Delete
<1>2. UNCHANGED <<asked, admitted, task, current>>
  BY DEF Delete
<1>3. ChatTypeOK'
  BY <1>1, <1>2 DEF Conversation, ChatTypeOK
<1>4. \A m \in Message : Running(m)' = Running(m)
  BY <1>2 DEF Running
<1>5. ASSUME NEW m \in Message, m > asked
      PROVE  task[m].step = "none" /\ m \notin uprooted'
  BY <1>1, <1>5 DEF Conversation, Running
<1>6. ASSUME NEW m \in Message, Running(m)
      PROVE  QuestionLast(m)'
  <2>1. QuestionLast(m)
    BY <1>6 DEF Conversation
  <2>2. CASE task[m].session = s
    <3>1. m \in uprooted' /\ \A q \in rows' : q.session # s
      BY <1>1, <1>6, <2>2
    <3> QED
      BY <1>2, <2>2, <3>1 DEF QuestionLast
  <2>3. CASE task[m].session # s
    <3>1. m \in uprooted' <=> m \in uprooted
      BY <1>1, <2>3
    <3>2. CASE m \in uprooted
      BY <1>1, <1>2, <2>1, <3>1, <3>2 DEF QuestionLast
    <3>3. CASE m \notin uprooted
      <4>1. PICK p \in rows : /\ p.message = m /\ p.session = task[m].session /\ ~p.answer
                              /\ \A q \in rows : q.session = p.session => q.id <= p.id
        BY <2>1, <3>3 DEF QuestionLast
      <4>2. p \in rows' /\ rows' \subseteq rows
        BY <1>1, <2>3, <4>1
      <4> QED
        BY <1>2, <3>1, <3>3, <4>1, <4>2 DEF QuestionLast
    <3> QED
      BY <3>2, <3>3
  <2> QED
    BY <2>2, <2>3
<1>7. AnswersFollowMessages'
  <2> SUFFICES ASSUME NEW a \in rows', a.answer
               PROVE  \/ \E p \in rows' :
                           /\ p.message = a.message /\ p.session = a.session /\ ~p.answer /\ p.id < a.id
                           /\ \A q \in rows' : q.session = a.session => q.id <= p.id \/ q.id >= a.id
                      \/ /\ a.message \in uprooted'
                         /\ \A q \in rows' : q.session = a.session => q.id >= a.id
    BY DEF AnswersFollowMessages
  <2>1. a \in rows /\ a.session # s
    BY <1>1
  <2>2. \/ \E p \in rows :
             /\ p.message = a.message /\ p.session = a.session /\ ~p.answer /\ p.id < a.id
             /\ \A q \in rows : q.session = a.session => q.id <= p.id \/ q.id >= a.id
        \/ /\ a.message \in uprooted
           /\ \A q \in rows : q.session = a.session => q.id >= a.id
    BY <2>1 DEF Conversation, AnswersFollowMessages
  <2>3. \A p \in rows : p.session = a.session => p \in rows'
    BY <1>1, <2>1
  <2>4. rows' \subseteq rows /\ uprooted \subseteq uprooted'
    BY <1>1
  <2> QED
    BY <2>2, <2>3, <2>4
<1> QED
  BY <1>2, <1>3, <1>4, <1>5, <1>6, <1>7 DEF Conversation

\* A task moves on or ends and leaves the rows alone.
LEMMA TasksMoveOn ==
  ASSUME SessionsAssumption, Conversation, task' \in [Message -> TaskType],
         \A m \in Message : task'[m].session = task[m].session,
         \A m \in Message : Running(m)' => Running(m),
         \A m \in Message : task[m].step = "none" => task'[m].step = "none",
         UNCHANGED <<owner, rows, asked, uprooted>>, admitted' \in {0, admitted},
         \/ current' = current
         \/ current' \in [Session -> Message \cup {0}] /\ \A m \in Message : ~Running(m)'
  PROVE  Conversation'
<1>1. ChatTypeOK'
  BY DEF Conversation, ChatTypeOK, TaskType
<1>2. \A m \in Message : m > asked' => task'[m].step = "none" /\ m \notin uprooted'
  BY DEF Conversation
<1>3. \A m \in Message : Running(m)' => task'[m].session \in Session /\ current'[task'[m].session] = m
  BY DEF Conversation
<1>4. admitted' # 0 => /\ asked' < Messages
                       /\ \A m \in Message : Running(m)' => task'[m].session # admitted'
  BY DEF Conversation
<1>5. ASSUME NEW m \in Message, Running(m)'
      PROVE  QuestionLast(m)'
  BY <1>5 DEF Conversation, QuestionLast
<1>6. AnswersFollowMessages'
  BY DEF Conversation, AnswersFollowMessages
<1> QED
  BY <1>1, <1>2, <1>3, <1>4, <1>5, <1>6 DEF Conversation

LEMMA ConcludeStep ==
  ASSUME SessionsAssumption, Conversation, NEW m \in Message, Conclude(m) \/ TaskFails(m)
  PROVE  Conversation'
<1>1. task \in [Message -> TaskType]
  BY DEF Conversation, ChatTypeOK, TaskType
<1>2. PICK reached \in {"rendering", "done"} : task' = [task EXCEPT ![m].step = reached]
  BY DEF Conclude, TaskFails
<1>3. Running(m) /\ UNCHANGED <<owner, rows, asked, admitted, current, uprooted>>
  BY DEF Conclude, TaskFails, Running
<1>4. task' \in [Message -> TaskType] /\ \A n \in Message : task'[n].session = task[n].session
  BY <1>1, <1>2 DEF TaskType
<1>5. \A n \in Message : n # m => task'[n] = task[n]
  BY <1>1, <1>2
<1>6. \A n \in Message : Running(n)' => Running(n)
  BY <1>3, <1>5 DEF Running
<1>7. \A n \in Message : task[n].step = "none" => task'[n].step = "none"
  BY <1>3, <1>5 DEF Running
<1> QED
  BY <1>3, <1>4, <1>6, <1>7, TasksMoveOn

LEMMA ServiceRestartStep ==
  ASSUME SessionsAssumption, Conversation, ServiceRestart
  PROVE  Conversation'
<1>1. task \in [Message -> TaskType]
  BY DEF Conversation, ChatTypeOK, TaskType
<1>2. task' \in [Message -> TaskType] /\ \A n \in Message : task'[n].session = task[n].session
  BY <1>1 DEF ServiceRestart, TaskType
<1>3. \A n \in Message : ~Running(n)' /\ (task[n].step = "none" => task'[n].step = "none")
  BY <1>1 DEF ServiceRestart, Running, TaskType
<1>4. current' \in [Session -> Message \cup {0}] /\ admitted' = 0
  BY DEF ServiceRestart
<1>5. UNCHANGED <<owner, rows, asked, uprooted>>
  BY DEF ServiceRestart
<1> QED
  BY <1>2, <1>3, <1>4, <1>5, TasksMoveOn

LEMMA ReplyStep ==
  ASSUME SessionsAssumption, Conversation, NEW m \in Message, Reply(m)
  PROVE  Conversation'
<1>1. ChatTypeOK /\ Running(m) /\ QuestionLast(m)
  BY DEF Conversation, Reply, Running
<1>2. task[m].session \in Session /\ current[task[m].session] = m
  BY <1>1 DEF Conversation
<1>3. /\ Insert(m, task[m].session, TRUE)
      /\ task' = [task EXCEPT ![m].step = "done"]
      /\ UNCHANGED <<owner, asked, admitted, current, uprooted>>
  BY DEF Reply
<1>4. PICK r \in Row : /\ r.session = task[m].session /\ r.message = m /\ r.answer = TRUE
                       /\ rows' = rows \cup {r}
                       /\ \A q \in rows : q.id < r.id
  <2>1. \A answer \in BOOLEAN : Insert(m, task[m].session, answer) =>
          \E r \in Row : /\ r.session = task[m].session /\ r.message = m /\ r.answer = answer
                         /\ rows' = rows \cup {r}
                         /\ \A q \in rows : q.id < r.id
    BY <1>1, <1>2, InsertedLast
  <2>2. TRUE \in BOOLEAN
    OBVIOUS
  <2> QED
    BY <1>3, <2>1, <2>2, Zenon
<1>5. task' \in [Message -> TaskType] /\ task'[m].step = "done" /\ task'[m].session = task[m].session
      /\ \A n \in Message : n # m => task'[n] = task[n]
  BY <1>1, <1>3 DEF ChatTypeOK, TaskType
<1>6. ChatTypeOK'
  BY <1>1, <1>3, <1>4, <1>5 DEF ChatTypeOK, TaskType
<1>7. \A n \in Message : Running(n)' => n # m /\ Running(n)
  BY <1>5 DEF Running
<1>8. \A n \in Message : n > asked' => task'[n].step = "none" /\ n \notin uprooted'
  BY <1>1, <1>3, <1>5 DEF Conversation, Running
<1>9. \A n \in Message : Running(n)' => task'[n].session \in Session /\ current'[task'[n].session] = n
  BY <1>3, <1>5, <1>7 DEF Conversation
<1>10. admitted' # 0 => /\ asked' < Messages
                        /\ \A n \in Message : Running(n)' => task'[n].session # admitted'
  BY <1>3, <1>5, <1>7 DEF Conversation
<1>11. ASSUME NEW n \in Message, Running(n)'
       PROVE  QuestionLast(n)'
  <2>1. n # m /\ Running(n) /\ QuestionLast(n) /\ task'[n] = task[n]
    BY <1>5, <1>7, <1>11 DEF Conversation
  <2>2. task[n].session # task[m].session
    BY <1>2, <2>1 DEF Conversation
  <2> QED
    BY <1>3, <1>4, <2>1, <2>2 DEF QuestionLast
<1>12. AnswersFollowMessages'
  <2>1. \/ \E p \in rows : /\ p.message = r.message /\ p.session = r.session /\ ~p.answer
                           /\ \A q \in rows : q.session = p.session => q.id <= p.id
        \/ r.message \in uprooted /\ \A q \in rows : q.session # r.session
    BY <1>1, <1>4 DEF QuestionLast
  <2> QED
    BY <1>1, <1>3, <1>4, <2>1, AnswersStay DEF Conversation
<1> QED
  BY <1>6, <1>8, <1>9, <1>10, <1>11, <1>12 DEF Conversation

LEMMA ConversationStep ==
  ASSUME SessionsAssumption, Conversation, [ChatNext]_chatVars
  PROVE  Conversation'
<1>1. CASE Create
  <2>1. UNCHANGED <<rows, asked, admitted, task, current, uprooted>> /\ owner' \in [Session -> Actor \cup {Nobody}]
    BY <1>1 DEF Create, Conversation, ChatTypeOK
  <2>2. ChatTypeOK'
    BY <2>1 DEF Conversation, ChatTypeOK
  <2>3. \A m \in Message : Running(m)' = Running(m) /\ QuestionLast(m)' = QuestionLast(m)
    BY <2>1 DEF Running, QuestionLast
  <2>4. AnswersFollowMessages' = AnswersFollowMessages
    BY <2>1 DEF AnswersFollowMessages
  <2> QED
    BY <2>1, <2>2, <2>3, <2>4 DEF Conversation
<1>2. CASE Admit
  BY <1>2, AdmitStep
<1>3. CASE Ask
  BY <1>3, AskStep
<1>4. CASE Delete
  BY <1>4, DeleteStep
<1>5. CASE ServiceRestart
  BY <1>5, ServiceRestartStep
<1>6. CASE \E m \in Message : Conclude(m) \/ TaskFails(m)
  BY <1>6, ConcludeStep
<1>7. CASE \E m \in Message : Reply(m)
  BY <1>7, ReplyStep
<1>8. CASE UNCHANGED chatVars
  <2>1. UNCHANGED <<owner, rows, asked, admitted, task, current, uprooted>>
    BY <1>8 DEF chatVars
  <2>2. \A m \in Message : Running(m)' = Running(m) /\ QuestionLast(m)' = QuestionLast(m)
    BY <2>1 DEF Running, QuestionLast
  <2>3. AnswersFollowMessages' = AnswersFollowMessages
    BY <2>1 DEF AnswersFollowMessages
  <2> QED
    BY <2>1, <2>2, <2>3 DEF Conversation, ChatTypeOK
<1> QED
  BY <1>1, <1>2, <1>3, <1>4, <1>5, <1>6, <1>7, <1>8 DEF ChatNext

(***************************************************************************)
(* In every session an answer comes right behind the message it answers,   *)
(* however tasks, deletions and restarts interleave; under a task whose    *)
(* session was deleted it stands ahead of all that a later session of that *)
(* identifier asks; for any number of sessions, messages and users.        *)
(***************************************************************************)
THEOREM SpecAnswersFollowMessages ==
  SessionsAssumption => (ChatSpec => []AnswersFollowMessages)
<1> SUFFICES ASSUME SessionsAssumption
             PROVE  ChatSpec => []AnswersFollowMessages
  OBVIOUS
<1>1. ChatInit => Conversation
  BY ConversationInit
<1>2. Conversation /\ [ChatNext]_chatVars => Conversation'
  BY ConversationStep
<1>3. Conversation => AnswersFollowMessages
  BY DEF Conversation
<1> QED
  BY <1>1, <1>2, <1>3, PTL DEF ChatSpec
=============================================================================
