---------------------------- MODULE HubFailoverV4 ---------------------------
(***************************************************************************)
(* Registration and hub failover of the version 4 controller               *)
(* (ControllerCore in src/sdwan_v4/policy_service_v4.py), the desired      *)
(* states it builds (desired_state_v4.py) and the routers that accept them *)
(* (reconcile in edge_agent_v4.py).  The controller posts a desired state  *)
(* to one router after another, without its lock; a router takes only a    *)
(* newer version than its own, and may refuse, miss or apply a post whose  *)
(* answer is lost, or apply half of it.  Each caller is a thread of the    *)
(* policy service.                                                         *)
(*                                                                         *)
(* A desired state is abstracted to the (spoke, hub) pairs it routes: a    *)
(* hub's depends on every assignment, a spoke's on its own.                *)
(* Bounds: MaxReconcile on reconcile_version, Faults on failing posts.     *)
(***************************************************************************)
EXTENDS Integers, Sequences, FiniteSets

CONSTANTS
  HubRouter, Spoke,
  Home,          \* Home[s]: configured home hub of spoke s
  Requester,     \* concurrent requests to the policy service
  MaxReconcile,  \* bound on reconcile_version
  Faults         \* bound on posts that fail, lost answers and router restarts

(* Assumed of the constants, where the module is extended. *)
HubFailoverV4Assumption ==
  /\ Home \in [Spoke -> HubRouter]
  /\ HubRouter \cap Spoke = {}
  /\ \A a, b, c \in HubRouter : a # b => c \in {a, b}   \* model.py:186
  /\ MaxReconcile \in Nat /\ Faults \in Nat

VARIABLES
  registered,        \* public_keys is not empty
  assignments,       \* assignments: hub of each spoke
  reconcileVersion,  \* reconcile_version
  serving,           \* per caller, the request being served
  router,            \* per router, the version it confirms and the pairs it routes
  astray,            \* history: routers whose last post left the controller in the dark
  faults             \* faults left

controllerState == <<registered, assignments, reconcileVersion>>
hubsVars == <<registered, assignments, reconcileVersion, serving, router, astray, faults>>

RouterSite == HubRouter \cup Spoke
Assignment == [Spoke -> HubRouter]

\* build_desired_states for one site.
Desired(site, a) ==
  LET routed == {<<s, a[s]>> : s \in Spoke} IN
  IF site \in HubRouter THEN routed ELSE {<<site, a[site]>>}

Idle == [kind |-> "idle"]
Steps == {"apply", "probe", "rollback", "commit"}
Registration ==
  [kind : {"register"}, assign : Assignment, version : 1..MaxReconcile, todo : SUBSET RouterSite]
Change == [kind : {"failover"}, spoke : Spoke, old : HubRouter, new : HubRouter, before : Assignment,
           version : 1..MaxReconcile, step : Steps, applied : Seq(RouterSite)]

HubsTypeOK ==
  /\ registered \in BOOLEAN /\ astray \subseteq RouterSite
  /\ assignments \in Assignment
  /\ reconcileVersion \in 0..MaxReconcile
  /\ serving \in [Requester -> {Idle} \cup Registration \cup Change]
  /\ router \in [RouterSite -> [version : 0..(MaxReconcile + 1), routes : SUBSET (Spoke \X HubRouter)]]
  /\ faults \in 0..Faults

HubsInit ==
  /\ registered = FALSE
  /\ assignments = Home
  /\ reconcileVersion = 0
  /\ serving = [c \in Requester |-> Idle]
  /\ router = [site \in RouterSite |-> [version |-> 0, routes |-> {}]]
  /\ astray = {}
  /\ faults = Faults

Fault == faults > 0 /\ faults' = faults - 1

-----------------------------------------------------------------------------
(* One post to /sdwan/reconcile of a router *)

TakesState(site, v) == v > router[site].version

Installed(site, v, a) ==
  router' = [router EXCEPT ![site] = [version |-> v, routes |-> Desired(site, a)]]

Posted(site, v, a) ==
  /\ TakesState(site, v)
  /\ Installed(site, v, a)
  /\ astray' = astray \ {site}
  /\ UNCHANGED faults

\* The router answers 409, is not reached, or cannot apply the state and goes
\* back to the one it had.
PostRefused(site, v) ==
  /\ IF TakesState(site, v) THEN Fault ELSE UNCHANGED faults
  /\ UNCHANGED router

\* The router cannot apply the state, and it has none to go back to since its
\* agent started, or cannot go back either: parts of both stay in the kernel.
HalfApplied(site, v, a) ==
  /\ TakesState(site, v) /\ Fault
  /\ \E left \in SUBSET (router[site].routes \cup Desired(site, a)) :
       router' = [router EXCEPT ![site].routes = left]
  /\ astray' = astray \cup {site}

\* Applied, but the answer does not come back in time.
AnswerLost(site, v, a) ==
  /\ TakesState(site, v) /\ Fault
  /\ Installed(site, v, a)
  /\ astray' = astray \cup {site}

\* The controller sees an error.
PostFailed(site, v, a) ==
  \/ PostRefused(site, v) /\ UNCHANGED astray
  \/ HalfApplied(site, v, a)
  \/ AnswerLost(site, v, a)

-----------------------------------------------------------------------------
(* register and the loop of POST /sdwan/register *)

RegisterSpoke(c) ==
  /\ serving[c] = Idle
  /\ reconcileVersion < MaxReconcile
  /\ registered' = TRUE
  /\ reconcileVersion' = reconcileVersion + 1
  /\ serving' = [serving EXCEPT ![c] = [kind |-> "register", assign |-> assignments,
                              version |-> reconcileVersion + 1, todo |-> RouterSite]]
  /\ UNCHANGED <<assignments, router, astray, faults>>

\* The routers are posted to in a fixed order, any one here; the first failure
\* ends the request.
PostRegistration(c) ==
  /\ serving[c].kind = "register"
  /\ \E site \in serving[c].todo :
       \/ /\ Posted(site, serving[c].version, serving[c].assign)
          /\ serving' = [serving EXCEPT ![c] = IF serving[c].todo = {site} THEN Idle
                                     ELSE [serving[c] EXCEPT !.todo = @ \ {site}]]
       \/ /\ PostFailed(site, serving[c].version, serving[c].assign)
          /\ serving' = [serving EXCEPT ![c] = Idle]
  /\ UNCHANGED controllerState

-----------------------------------------------------------------------------
(* failover *)

AssignmentAfter(o) == [o.before EXCEPT ![o.spoke] = o.new]
PostOrder(o) == <<o.old, o.new, o.spoke>>

RollbackVersion(o) == o.version + 1

\* Under the lock: the two assignments and the version are fixed.
Failover(c, s, new) ==
  /\ serving[c] = Idle
  /\ registered
  /\ assignments[s] # new
  /\ reconcileVersion < MaxReconcile
  /\ reconcileVersion' = reconcileVersion + 1
  /\ serving' = [serving EXCEPT ![c] =
       [kind |-> "failover", spoke |-> s, old |-> assignments[s], new |-> new,
        before |-> assignments, version |-> reconcileVersion + 1, step |-> "apply", applied |-> <<>>]]
  /\ UNCHANGED <<registered, assignments, router, astray, faults>>

\* Faulty variant: the check comes before the spoke is told.
AfterHubsApplied(o) == IF Len(o.applied) = 1 THEN "probe" ELSE "apply"
AfterApplied(o) == IF Len(o.applied) = 2 THEN "probe" ELSE "apply"
\* Faulty variant: nothing is taken back when a post fails.
FailedForward(o) == [o EXCEPT !.step = "rollback", !.applied = <<>>]
Failed(o) == [o EXCEPT !.step = "rollback"]

\* One post of the forward loop; only answered ones count as applied.
PostTarget(c) ==
  /\ serving[c].kind = "failover" /\ serving[c].step = "apply"
  /\ LET o == serving[c]
         site == PostOrder(o)[Len(o.applied) + 1]
     IN \/ /\ Posted(site, o.version, AssignmentAfter(o))
           /\ serving' = [serving EXCEPT ![c].applied = Append(@, site), ![c].step = AfterApplied(o)]
        \/ /\ PostFailed(site, o.version, AssignmentAfter(o))
           /\ serving' = [serving EXCEPT ![c] = Failed(o)]
  /\ UNCHANGED controllerState

\* The spoke probes the new hub over every transport, or fails to.
Verify(c) ==
  /\ serving[c].kind = "failover" /\ serving[c].step = "probe"
  /\ \/ serving' = [serving EXCEPT ![c].step = "commit"] /\ UNCHANGED faults
     \/ serving' = [serving EXCEPT ![c] = Failed(serving[c])] /\ Fault
  /\ UNCHANGED <<controllerState, router, astray>>

\* One post of the rollback, the last applied router first; errors are noted
\* and the loop goes on.
Rollback(c) ==
  /\ serving[c].kind = "failover" /\ serving[c].step = "rollback"
  /\ LET o == serving[c]
         site == o.applied[Len(o.applied)]
     IN IF o.applied = <<>>
        THEN serving' = [serving EXCEPT ![c] = Idle] /\ UNCHANGED <<router, astray, faults>>
        ELSE /\ serving' = [serving EXCEPT ![c].applied = SubSeq(@, 1, Len(@) - 1)]
             /\ \/ Posted(site, RollbackVersion(o), o.before)
                \/ /\ PostRefused(site, RollbackVersion(o))
                   /\ astray' = astray \cup {site}
                \/ HalfApplied(site, RollbackVersion(o), o.before)
                \/ AnswerLost(site, RollbackVersion(o), o.before)
  /\ UNCHANGED controllerState

\* Under the lock again: the version is set back to the one of this failover.
CommitFailover(c) ==
  /\ serving[c].kind = "failover" /\ serving[c].step = "commit"
  /\ assignments' = [assignments EXCEPT ![serving[c].spoke] = serving[c].new]
  /\ reconcileVersion' = serving[c].version
  /\ serving' = [serving EXCEPT ![c] = Idle]
  /\ UNCHANGED <<registered, router, astray, faults>>

\* The agent of a router starts again: it forgets its version, the kernel keeps
\* the routes.
RouterRestart(site) ==
  /\ router[site].version > 0
  /\ Fault
  /\ router' = [router EXCEPT ![site].version = 0]
  /\ UNCHANGED <<controllerState, serving, astray>>

HubsNext ==
  \/ \E c \in Requester :
       \/ RegisterSpoke(c) \/ PostRegistration(c)
       \/ \E s \in Spoke, new \in HubRouter : Failover(c, s, new)
       \/ PostTarget(c) \/ Verify(c) \/ Rollback(c) \/ CommitFailover(c)
  \/ \E site \in RouterSite : RouterRestart(site)

HubsSpec == HubsInit /\ [][HubsNext]_hubsVars

-----------------------------------------------------------------------------
Quiet == \A c \in Requester : serving[c] = Idle

(***************************************************************************)
(* A failover is all or nothing on every router that leaves the controller *)
(* no doubt: whenever no request is served, it routes as the controller's  *)
(* assignments say or has no routes yet, after a failover that succeeded,  *)
(* that was refused half way or that failed its verification, and whatever *)
(* became of the other routers (policy_service_v4.py:265-313).  A router   *)
(* is in doubt until it next answers a post: its answer was lost, the      *)
(* rollback did not arrive, or it stopped between two states.  Such a one  *)
(* may well disagree, and nothing in the controller puts it right: it      *)
(* posts no rollback to a router that did not answer                       *)
(* (policy_service_v4.py:300), and a router goes back by itself only if    *)
(* its agent has a state to go back to and that succeeds                   *)
(* (edge_agent_v4.py:228-231).                                             *)
(***************************************************************************)
RoutersAgree ==
  Quiet =>
    \A site \in RouterSite \ astray :
      router[site].routes \in {{}, Desired(site, assignments)}

(***************************************************************************)
(* A spoke is assigned to another hub only when both hubs and the spoke    *)
(* itself already route it there (policy_service_v4.py:290-309).           *)
(***************************************************************************)
CommitMeansInstalled ==
  [][ \A s \in Spoke :
        assignments'[s] # assignments[s]
        => \A site \in HubRouter \cup {s} : <<s, assignments'[s]>> \in router[site].routes ]_hubsVars
=============================================================================
