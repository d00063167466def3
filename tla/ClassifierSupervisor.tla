------------------------ MODULE ClassifierSupervisor ------------------------
(***************************************************************************)
(* How the version 4 edge agent keeps its classifier process running       *)
(* (_start_classifier, _classifier_health and _maybe_restart_classifier of *)
(* src/sdwan_v4/edge_agent_v4.py): delays that double, a circuit that      *)
(* opens after MaxAttempts failures, attempts forgotten once a process has *)
(* lived long enough.  Times are in ticks.                                 *)
(***************************************************************************)
EXTENDS Integers

CONSTANTS
  MaxAttempts,   \* 8
  LongestDelay,  \* 30 s, the longest delay before the circuit opens
  OpenFor,       \* 300 s
  Stable         \* 60 s

(* Assumed of the constants, where the module is instantiated. *)
ClassifierSupervisorAssumption ==
  /\ MaxAttempts \in Nat \ {0} /\ LongestDelay \in Nat \ {0}
  /\ OpenFor \in Nat /\ LongestDelay <= OpenFor /\ Stable \in Nat

VARIABLES
  running,   \* the process started last has not ended
  attempts,  \* classifier_restart_attempts
  wait,      \* ticks until classifier_next_restart
  age        \* ticks since classifier_started_at, capped

vars == <<running, attempts, wait, age>>

TypeOK ==
  /\ running \in BOOLEAN
  /\ attempts \in 0..MaxAttempts
  /\ wait \in 0..OpenFor
  /\ age \in 0..(Stable + 1)

\* EdgeAgent.start() has tried once.
Init ==
  /\ running \in BOOLEAN
  /\ attempts = 0 /\ wait = 0
  /\ age = IF running THEN 0 ELSE Stable + 1

Delay(n) == IF 2 ^ n < LongestDelay THEN 2 ^ n ELSE LongestDelay

\* A new process is ready, or runs without a control socket, which counts too.
Starts ==
  /\ running' = TRUE
  /\ age' = 0

\* It ends within a quarter of a second, or after classifier_started_at was set.
StartFails ==
  /\ running' = FALSE
  /\ age' \in {age, 0}

MayTry == wait = 0 /\ attempts < MaxAttempts

\* Faulty variant: the attempts are kept when the circuit opens.
AttemptsKept == attempts
AttemptsAfterCircuit == 0

\* _maybe_restart_classifier finds the process alive.
FindAlive ==
  /\ running
  /\ attempts' = IF age > Stable THEN 0 ELSE attempts
  /\ UNCHANGED <<running, wait, age>>

Restart ==
  /\ ~running /\ MayTry
  /\ attempts' = attempts + 1
  /\ wait' = Delay(attempts + 1)
  /\ Starts \/ StartFails

OpenCircuit ==
  /\ ~running /\ wait = 0 /\ ~MayTry
  /\ attempts' = AttemptsAfterCircuit
  /\ wait' = OpenFor
  /\ UNCHANGED <<running, age>>

ProcessEnds ==
  /\ running
  /\ running' = FALSE
  /\ UNCHANGED <<attempts, wait, age>>

Down(n) == IF n > 0 THEN n - 1 ELSE 0
Tick ==
  /\ wait' = Down(wait)
  /\ age' = IF age > Stable THEN age ELSE age + 1
  /\ UNCHANGED <<running, attempts>>

Next == FindAlive \/ Restart \/ OpenCircuit \/ ProcessEnds \/ Tick

Spec == Init /\ [][Next]_vars

\* The monitor's rounds and time go on, and a start may succeed.
Fairness ==
  /\ WF_vars(Restart) /\ WF_vars(OpenCircuit) /\ WF_vars(Tick)
  /\ SF_vars(Restart /\ Starts)

-----------------------------------------------------------------------------
(***************************************************************************)
(* A classifier that can be started is running again and again: neither    *)
(* the delays nor the circuit shut it out for good                         *)
(* (edge_agent_v4.py:747-775).                                             *)
(***************************************************************************)
KeepsComingBack == []<>running
=============================================================================
