------------------------------ MODULE MoreParts ------------------------------
(***************************************************************************)
(* More parts that share no state, on small instances in one run: the      *)
(* address plan, and around a version 4 edge its slots, the process of its *)
(* classifier and the policy snapshots it passes on.  A behaviour is a     *)
(* behaviour of one of them; the others stay where they start.             *)
(***************************************************************************)
EXTENDS EdgeAgentV4, MCAddressPlan

CONSTANTS mpls, bb

VARIABLES
  part,
  running, attempts, wait, age,
  automatic, override, decision, decisionVersion, flight, snapshot, known, sender, classifying,
  active, measured, lapsed

processVars == <<running, attempts, wait, age>>
policyVars == <<automatic, override, decision, decisionVersion, flight, snapshot, known, sender,
                classifying, active, measured, lapsed>>
vars == <<part, slotsVars, processVars, policyVars, planVars>>

TwoUnderlays == <<mpls, bb>>

Process == INSTANCE ClassifierSupervisor WITH
  MaxAttempts <- 3, LongestDelay <- 4, OpenFor <- 6, Stable <- 3
Policy == INSTANCE PolicyDistribution WITH
  Ranked <- {mpls, bb}, Bootstrap <- mpls, Ttl <- 1, DefaultTtl <- 2, OverrideTtl <- 1,
  MaxDecision <- 2, MaxFlight <- 1

ASSUME MorePartsAssumption ==
  /\ EdgeAgentV4Assumption
  /\ Process!ClassifierSupervisorAssumption
  /\ Policy!PolicyDistributionAssumption

(* Beside the other parts lies a blank plan, which the first check refuses. *)
BlankPlan ==
  /\ plan = [net |-> [s \in Segment |-> [base |-> 0, size |-> 1]],
             id |-> [n \in Router \cup Gateway |-> 0],
             address |-> [i \in Written |-> 0],
             start |-> 0]
  /\ edits = 0

Init ==
  /\ part \in {"slots", "process", "policy", "plan"}
  /\ SlotsInit /\ Process!Init /\ Policy!DecisionInit
  /\ IF part = "plan" THEN PlanInit ELSE BlankPlan
  /\ part # "process" => running

(* Decisions are for any path here; that overrides are behind some of them  *)
(* is checked in Parts.                                                     *)
Next ==
  /\ UNCHANGED part
  /\ IF part = "slots" THEN SlotsNext ELSE UNCHANGED slotsVars
  /\ IF part = "process" THEN Process!Next ELSE UNCHANGED processVars
  /\ IF part = "policy" THEN Policy!DecisionNext /\ UNCHANGED override ELSE UNCHANGED policyVars
  /\ IF part = "plan" THEN PlanNext ELSE UNCHANGED planVars

(* The fairness of the part that moves: Fairness of its module, one action  *)
(* at a time, as a condition on the part would multiply TLC's work.         *)
Spec ==
  /\ Init /\ [][Next]_vars
  /\ WF_slotsVars(part = "slots" /\ Monitor)
  /\ WF_slotsVars(part = "slots" /\ SlotsTick)
  /\ WF_processVars(part = "process" /\ Process!Restart)
  /\ WF_processVars(part = "process" /\ Process!OpenCircuit)
  /\ WF_processVars(part = "process" /\ Process!Tick)
  /\ SF_processVars(part = "process" /\ Process!Restart /\ Process!Starts)
  /\ WF_policyVars(part = "policy" /\ Policy!MonitorSends)
  /\ WF_policyVars(part = "policy" /\ Policy!StartClassifier)
  /\ WF_policyVars(part = "policy" /\ Policy!Sending("monitor"))
  /\ WF_policyVars(part = "policy" /\ Policy!Sending("request"))

-----------------------------------------------------------------------------
(* A classifier that can be started runs again and again.                  *)
KeepsComingBack == part = "process" => Process!KeepsComingBack

(* A classifier that stays up ends with the installed path.                *)
ClassifierFollows == part = "policy" => Policy!ClassifierFollows
=============================================================================
