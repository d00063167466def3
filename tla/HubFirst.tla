------------------------------ MODULE HubFirst ------------------------------
(***************************************************************************)
(* What the policy service promises about activating spokes: a spoke is    *)
(* given its configuration only when every hub is ready to receive it,     *)
(* that is, has installed the key the spoke registered last                *)
(* (src/sdwan_v5/policy_service_v5.py:31-35, src/sdwan_v5/                 *)
(* ZTP_SECURITY_MODEL.md:12).                                              *)
(***************************************************************************)
EXTENDS Integers

CONSTANTS Hub, Spoke

VARIABLES
  registered,  \* registered[s]: number of the key spoke s registered last, or 0
  ready,       \* ready[h][s]: number of the key of s that hub h has installed
  published    \* spokes that were given a configuration

vars == <<registered, ready, published>>

Init ==
  /\ registered = [s \in Spoke |-> 0]
  /\ ready = [h \in Hub |-> [s \in Spoke |-> 0]]
  /\ published = {}

Register(s) ==
  /\ registered' = [registered EXCEPT ![s] = @ + 1]
  /\ UNCHANGED <<ready, published>>

\* A hub takes over keys that are registered, never an older one than it has.
Prepare(h) ==
  /\ \E keys \in [Spoke -> 0..2] :
       /\ \A s \in Spoke : keys[s] \in ready[h][s]..registered[s]
       /\ ready' = [ready EXCEPT ![h] = keys]
  /\ UNCHANGED <<registered, published>>

Publish(s) ==
  /\ registered[s] # 0
  /\ \A h \in Hub : ready[h][s] = registered[s]
  /\ published' = published \cup {s}
  /\ UNCHANGED <<registered, ready>>

Next ==
  \/ \E s \in Spoke : Register(s) \/ Publish(s)
  \/ \E h \in Hub : Prepare(h)

Spec == Init /\ [][Next]_vars
=============================================================================
