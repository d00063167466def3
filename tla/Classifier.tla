----------------------------- MODULE Classifier -----------------------------
(***************************************************************************)
(* The classifier process of an edge (src/sdwan_v5/classifier): main, one  *)
(* NFQUEUE worker (edge_agent_v5.py:94-95 starts it with one queue), its   *)
(* flow table, the event ring and the exporter thread.                     *)
(*                                                                         *)
(* The worker shares only the ring and the stop flag with other threads,   *)
(* so a packet is one step.  Time is counted in seconds as ages.  nDPI is  *)
(* external and may answer anything at any packet.  Events are counted,    *)
(* their contents left out; so are names, addresses and path marks, which  *)
(* the worker copies (it selects no path), and the policy snapshot, which  *)
(* it never reads.                                                         *)
(***************************************************************************)
EXTENDS Integers, FiniteSets, Functions

CONSTANTS
  Tcp, Udp,            \* the flow keys, by protocol
  Direction,
  SequenceSpace,       \* 2^32: TCP sequence numbers are taken modulo it
  MaxFlows,            \* max_flows of the table
  Capacity,            \* SDWAN_EVENT_CAPACITY
  FailOpen,            \* fail_open
  TcpBudget, UdpBudget, InspectionTimeout,
  Handshake, Established, Closing, UdpTimeout, DnsTimeout, Metadata, \* idle timeouts
  MaxLifetime,
  OverloadCircuit

Flow == Tcp \cup Udp

ASSUME ClassifierAssumption ==
  /\ Tcp \cap Udp = {}
  /\ IsFiniteSet(Flow)
  /\ {SequenceSpace, MaxFlows, Capacity, TcpBudget, UdpBudget} \subseteq Nat \ {0}
  /\ {InspectionTimeout, Handshake, Established, Closing, UdpTimeout, DnsTimeout, Metadata,
      MaxLifetime, OverloadCircuit} \subseteq Nat \ {0}
  /\ FailOpen \in BOOLEAN

VARIABLES
  phase,      \* where main() is
  stop,       \* sdwan_stop
  worker,     \* where the worker's thread is
  ready,      \* worker->ready
  sinceExpiry,\* seconds since last_expiry, up to 1
  due,        \* flows the running sdwan_flow_expire has still to remove
  circuit,    \* seconds until overload_until_ms
  table,      \* the flow records, by key
  heard,      \* history: the data segments of each record, by direction and end
  ring,       \* events in the ring
  stopping,   \* events.stopping
  exporter,   \* where the exporter's thread is
  owed        \* events pushed and counted neither as sent nor as dropped

flows == <<circuit, table, heard>>
events == <<ring, stopping, exporter, owed>>
vars == <<phase, stop, worker, ready, sinceExpiry, due, flows, events>>

Sequence == 0..(SequenceSpace - 1)
Terminal == {"CLASSIFIED", "METADATA_MONITORING", "TERMINAL_UNKNOWN", "TERMINAL_PARTIAL"}
Record == [first : 0..MaxLifetime, last : 0..MaxLifetime, unique : Nat,
           highest : [Direction -> Sequence], tcp : 0..2,
           result : {"INSPECTING", "PARTIAL"} \cup Terminal]

TypeOK ==
  /\ phase \in {"starting", "polling", "serving", "destroying", "ended"}
  /\ worker \in {"unborn", "opening", "receiving", "checking", "expiring", "ended"}
  /\ {stop, ready, stopping} \subseteq BOOLEAN
  /\ sinceExpiry \in 0..1
  /\ circuit \in 0..OverloadCircuit
  /\ DOMAIN table \subseteq Flow /\ Cardinality(DOMAIN table) <= MaxFlows
  /\ \A f \in DOMAIN table : table[f] \in Record
  /\ due \subseteq DOMAIN table
  /\ heard \in [Flow -> SUBSET (Direction \X Sequence)]
  /\ ring \in 0..Capacity
  /\ exporter \in {"taking", "waiting", "sending", "ended"}
  /\ owed \in Nat

Init ==
  /\ phase = "starting" /\ stop = FALSE
  /\ worker = "unborn" /\ ready = FALSE /\ sinceExpiry = 0 /\ due = {}
  /\ circuit = 0
  /\ table = [f \in {} |-> {}]
  /\ heard = [f \in Flow |-> {}]
  /\ ring = 0 /\ stopping = FALSE /\ exporter = "taking" /\ owed = 0

UpTo(n, bound) == IF n > bound THEN bound ELSE n

-----------------------------------------------------------------------------
(***************************************************************************)
(* The event ring.                                                         *)
(***************************************************************************)
\* pthread_cond_signal: a sleeping exporter tests its condition again.
Woken == IF exporter = "waiting" THEN "taking" ELSE exporter

\* sdwan_event_push: a full ring drops the event and counts it.
Push ==
  /\ UNCHANGED stopping
  /\ IF ring < Capacity
     THEN ring' = ring + 1 /\ owed' = owed + 1 /\ exporter' = Woken
     ELSE UNCHANGED <<ring, owed, exporter>>

TakeEvent ==
  /\ exporter = "taking" /\ ring > 0
  /\ ring' = ring - 1
  /\ exporter' = "sending"
  /\ UNCHANGED <<phase, stop, worker, ready, sinceExpiry, due, flows, stopping, owed>>

\* pthread_cond_wait.
AwaitEvent ==
  /\ exporter = "taking" /\ ring = 0 /\ ~stopping
  /\ exporter' = "waiting"
  /\ UNCHANGED <<phase, stop, worker, ready, sinceExpiry, due, flows, ring, stopping, owed>>

\* sendto: counted as sent, or as dropped when it fails.
SendEvent ==
  /\ exporter = "sending"
  /\ exporter' = "taking"
  /\ owed' = owed - 1
  /\ UNCHANGED <<phase, stop, worker, ready, sinceExpiry, due, flows, ring, stopping>>

\* Faulty variant: the exporter leaves as soon as it is told to.
LeaveExporterEarly ==
  /\ exporter = "taking" /\ stopping
  /\ exporter' = "ended"
  /\ UNCHANGED <<phase, stop, worker, ready, sinceExpiry, due, flows, ring, stopping, owed>>

LeaveExporter ==
  /\ exporter = "taking" /\ ring = 0 /\ stopping
  /\ exporter' = "ended"
  /\ UNCHANGED <<phase, stop, worker, ready, sinceExpiry, due, flows, ring, stopping, owed>>

Exporter == TakeEvent \/ AwaitEvent \/ SendEvent \/ LeaveExporter

-----------------------------------------------------------------------------
(***************************************************************************)
(* The flow table.                                                         *)
(***************************************************************************)
NewRecord ==
  [first |-> 0, last |-> 0, unique |-> 0, highest |-> [d \in Direction |-> 0],
   tcp |-> 0, result |-> "INSPECTING"]

Without(S) == Restrict(table, DOMAIN table \ S)
With(records, f, r) ==
  [g \in DOMAIN records \cup {f} |-> IF g = f THEN r ELSE records[g]]

Oldest == {f \in DOMAIN table : \A g \in DOMAIN table : table[g].last <= table[f].last}

\* What a lookup of a missing key may make of the table before it inserts.
MadeRoom ==
  IF Cardinality(DOMAIN table) < MaxFlows THEN {table} ELSE {Without({f}) : f \in Oldest}

\* dns: the flows nDPI has taken for DNS.
IdleTimeout(f, r, dns) ==
  CASE r.result = "METADATA_MONITORING" -> Metadata
    [] f \in Udp \cap dns -> DnsTimeout
    [] f \in Udp \ dns -> UdpTimeout
    [] r.tcp = 0 -> Handshake
    [] r.tcp = 1 -> Established
    [] OTHER -> Closing

Expired(f, dns) ==
  \/ table[f].last >= IdleTimeout(f, table[f], dns)
  \/ table[f].first >= MaxLifetime

-----------------------------------------------------------------------------
(***************************************************************************)
(* process_packet.                                                         *)
(***************************************************************************)
TcpPacket ==
  [flag : {"syn", "synack", "fin"}, seq : {0}, payload : {0}]
    \cup [flag : {"ack"}, seq : Sequence, payload : 0..1]
UdpPacket == [flag : {"none"}, seq : {0}, payload : 0..1]
Packet(f) == IF f \in Tcp THEN TcpPacket ELSE UdpPacket

End(p) == (p.seq + p.payload) % SequenceSpace

\* Faulty variant: the last segment sent again counts again.
IsNewOrRepeated(f, r, d, p) ==
  /\ p.payload > 0
  /\ f \in Tcp => End(p) >= r.highest[d]

\* A data segment counts when it ends beyond everything seen in its direction.
IsNew(f, r, d, p) ==
  /\ p.payload > 0
  /\ f \in Tcp => End(p) > r.highest[d]

Budget(f) == IF f \in Tcp THEN TcpBudget ELSE UdpBudget

TcpState(r, p) ==
  CASE p.flag = "fin" -> 2
    [] p.flag = "synack" -> 1
    [] p.flag = "ack" /\ r.tcp = 0 -> 1
    [] OTHER -> r.tcp

\* The counters of record r after packet p; more than the budget is not told apart.
Counted(f, r, d, p) ==
  LET new == IsNew(f, r, d, p)
  IN [r EXCEPT !.last = 0,
               !.tcp = TcpState(r, p),
               !.unique = IF new THEN UpTo(@ + 1, Budget(f) + 1) ELSE @,
               !.highest = IF new /\ f \in Tcp THEN [@ EXCEPT ![d] = End(p)] ELSE @]

\* What nDPI says of a flow, at a packet or when it is asked to give up.
Answer ==
  [state : {"INSPECTING", "PARTIAL", "CLASSIFIED", "MONITORING"}, identified : BOOLEAN]

Decided == {a \in Answer : a.state \in {"CLASSIFIED", "MONITORING"}}

Exhausted(f, r) == r.unique >= Budget(f) \/ r.first >= InspectionTimeout

TerminalResult(answer) ==
  CASE ~answer.identified -> "TERMINAL_UNKNOWN"
    [] answer.state = "MONITORING" -> "METADATA_MONITORING"
    [] answer.state = "CLASSIFIED" -> "CLASSIFIED"
    [] OTHER -> "TERMINAL_PARTIAL"

OfDecided == {TerminalResult(a) : a \in Decided}
OfGiveUp == {TerminalResult(a) : a \in Answer}

\* How a packet may end the inspection: nDPI has decided, or is asked to give up.
TerminalResults(f, r) == OfDecided \cup IF Exhausted(f, r) THEN OfGiveUp ELSE {}

\* How it may leave it open: with PARTIAL noted, or with nothing new.
OpenResults(f, r) == IF Exhausted(f, r) THEN {} ELSE {"PARTIAL", r.result}

Lookup(f) == IF f \in DOMAIN table THEN {table} ELSE MadeRoom
Found(records, f) == IF f \in DOMAIN records THEN records[f] ELSE NewRecord

CircuitOpen == FailOpen /\ circuit > 0

\* The histories of the records that are left.
Forget(records) ==
  heard' = [f \in Flow |-> IF f \in DOMAIN records THEN heard[f] ELSE {}]

Segments(f, d, p) == IF f \in Tcp /\ p.payload > 0 THEN {<<d, End(p)>>} ELSE {}

\* The packet of flow f leaves the records with r for f.
Release(f, d, p, records, r) ==
  /\ table' = With(records, f, r)
  /\ heard' = [g \in Flow |-> IF g = f THEN heard[g] \cup Segments(f, d, p)
                              ELSE IF g \in DOMAIN records THEN heard[g] ELSE {}]

Inspect(f, d, p) ==
  /\ worker = "receiving" /\ ~CircuitOpen
  /\ \E records \in Lookup(f) :
       LET r == Counted(f, Found(records, f), d, p)
       IN \/ \E result \in TerminalResults(f, r) :
               /\ Release(f, d, p, records, [r EXCEPT !.result = result])
               /\ Push
          \/ \E result \in OpenResults(f, r) :
               /\ Release(f, d, p, records, [r EXCEPT !.result = result])
               /\ UNCHANGED events
  /\ worker' = "checking"
  /\ UNCHANGED <<phase, stop, ready, sinceExpiry, due, circuit>>

\* While the circuit is open a packet passes uninspected.
Bypass ==
  /\ worker = "receiving" /\ CircuitOpen
  /\ worker' = "checking"
  /\ UNCHANGED <<phase, stop, ready, sinceExpiry, due, flows, events>>

\* No memory for a record: the flow evicted to make room for it is gone.
NoRecord(f) ==
  /\ worker = "receiving" /\ ~CircuitOpen /\ f \notin DOMAIN table
  /\ \E records \in MadeRoom : table' = records /\ Forget(records)
  /\ worker' = "checking"
  /\ UNCHANGED <<phase, stop, ready, sinceExpiry, due, circuit, events>>

\* Truncated and malformed packets, and the receive timeout of one second.
ReceiveNothing ==
  /\ worker = "receiving"
  /\ worker' = "checking"
  /\ UNCHANGED <<phase, stop, ready, sinceExpiry, due, flows, events>>

\* ENOBUFS: the kernel's queue ran over.
NoBuffers ==
  /\ worker = "receiving"
  /\ circuit' = OverloadCircuit
  /\ worker' = "checking"
  /\ UNCHANGED <<phase, stop, ready, sinceExpiry, due, table, heard, events>>

-----------------------------------------------------------------------------
(***************************************************************************)
(* sdwan_worker_run around a packet.                                       *)
(***************************************************************************)
LoopTop == IF stop THEN "ended" ELSE "receiving"

OpenQueue ==
  /\ worker = "opening"
  /\ ready' = TRUE /\ sinceExpiry' = 0
  /\ worker' = LoopTop
  /\ UNCHANGED <<phase, stop, due, flows, events>>

OpenFails ==
  /\ worker = "opening"
  /\ worker' = "ended"
  /\ UNCHANGED <<phase, stop, ready, sinceExpiry, due, flows, events>>

SkipExpiry ==
  /\ worker = "checking" /\ sinceExpiry = 0
  /\ worker' = LoopTop
  /\ UNCHANGED <<phase, stop, ready, sinceExpiry, due, flows, events>>

\* Faulty variant: the lifetime is tested only for flows that fell silent.
StartExpiryOfIdle ==
  /\ worker = "checking" /\ sinceExpiry = 1
  /\ \E dns \in SUBSET (DOMAIN table \cap Udp) :
       due' = {f \in DOMAIN table : Expired(f, dns) /\ table[f].last > 0}
  /\ worker' = "expiring"
  /\ UNCHANGED <<phase, stop, ready, sinceExpiry, flows, events>>

\* "now" is read once, so the flows to remove are settled here.
StartExpiry ==
  /\ worker = "checking" /\ sinceExpiry = 1
  /\ \E dns \in SUBSET (DOMAIN table \cap Udp) :
       due' = {f \in DOMAIN table : Expired(f, dns)}
  /\ worker' = "expiring"
  /\ UNCHANGED <<phase, stop, ready, sinceExpiry, flows, events>>

\* expiration_event reports the flow, then its record is freed.
ExpireFlow(f) ==
  /\ worker = "expiring" /\ f \in due
  /\ due' = due \ {f}
  /\ table' = Without({f})
  /\ Forget(table')
  /\ Push
  /\ UNCHANGED <<phase, stop, worker, ready, sinceExpiry, circuit>>

\* stats_event, and round again.
EndExpiry ==
  /\ worker = "expiring" /\ due = {}
  /\ Push
  /\ sinceExpiry' = 0
  /\ worker' = LoopTop
  /\ UNCHANGED <<phase, stop, ready, due, flows>>

Receive ==
  \/ ReceiveNothing
  \/ NoBuffers
  \/ Bypass
  \/ \E f \in Flow : NoRecord(f)
  \/ \E f \in Flow, d \in Direction : \E p \in Packet(f) : Inspect(f, d, p)

WorkerLoop ==
  \/ OpenQueue \/ OpenFails
  \/ SkipExpiry \/ StartExpiry \/ (\E f \in Flow : ExpireFlow(f)) \/ EndExpiry

Worker == WorkerLoop \/ Receive

-----------------------------------------------------------------------------
(***************************************************************************)
(* main.                                                                   *)
(***************************************************************************)
\* The worker or the policy listener cannot be set up: return 1.
SetUpFails ==
  /\ phase = "starting"
  /\ phase' = "destroying"
  /\ UNCHANGED <<stop, worker, ready, sinceExpiry, due, flows, events>>

CreateWorker ==
  /\ phase = "starting"
  /\ phase' = "polling"
  /\ worker' = "opening"
  /\ UNCHANGED <<stop, ready, sinceExpiry, due, flows, events>>

CreateFails ==
  /\ phase = "starting"
  /\ phase' = "polling"
  /\ stop' = TRUE
  /\ UNCHANGED <<worker, ready, sinceExpiry, due, flows, events>>

\* The poll ends when the worker is ready, has failed, or a second has passed.
EndPoll ==
  /\ phase = "polling"
  /\ phase' = "serving"
  /\ stop' = (stop \/ ~ready)
  /\ UNCHANGED <<worker, ready, sinceExpiry, due, flows, events>>

\* SIGINT or SIGTERM.
Signal ==
  /\ phase \in {"starting", "polling", "serving"}
  /\ stop' = TRUE
  /\ UNCHANGED <<phase, worker, ready, sinceExpiry, due, flows, events>>

\* Faulty variant: a worker that was not ready in time is not waited for.
JoinReadyWorker ==
  /\ phase = "serving" /\ stop
  /\ worker \in {"unborn", "ended"} \/ ~ready
  /\ phase' = "destroying"
  /\ UNCHANGED <<stop, worker, ready, sinceExpiry, due, flows, events>>

JoinWorker ==
  /\ phase = "serving" /\ stop
  /\ worker \in {"unborn", "ended"}
  /\ phase' = "destroying"
  /\ UNCHANGED <<stop, worker, ready, sinceExpiry, due, flows, events>>

\* Faulty variant: the queue is marked as stopping and nobody is woken.
DestroyQuietly ==
  /\ phase = "destroying" /\ ~stopping
  /\ table' = [f \in {} |-> {}]
  /\ Forget(table')
  /\ stopping' = TRUE
  /\ UNCHANGED <<phase, stop, worker, ready, sinceExpiry, due, circuit, ring, exporter, owed>>

\* sdwan_worker_destroy frees the records, sdwan_event_queue_destroy signals.
Destroy ==
  /\ phase = "destroying" /\ ~stopping
  /\ table' = [f \in {} |-> {}]
  /\ Forget(table')
  /\ stopping' = TRUE
  /\ exporter' = Woken
  /\ UNCHANGED <<phase, stop, worker, ready, sinceExpiry, due, circuit, ring, owed>>

\* pthread_join of the exporter.
JoinExporter ==
  /\ phase = "destroying" /\ stopping /\ exporter = "ended"
  /\ phase' = "ended"
  /\ UNCHANGED <<stop, worker, ready, sinceExpiry, due, flows, events>>

Main ==
  \/ SetUpFails \/ CreateWorker \/ CreateFails \/ EndPoll
  \/ JoinWorker \/ Destroy \/ JoinExporter

Aged(r) ==
  [r EXCEPT !.first = UpTo(@ + 1, MaxLifetime), !.last = UpTo(@ + 1, MaxLifetime)]

Tick ==
  /\ phase # "ended"
  /\ table' = [f \in DOMAIN table |-> Aged(table[f])]
  /\ circuit' = IF circuit > 0 THEN circuit - 1 ELSE 0
  /\ sinceExpiry' = 1
  /\ UNCHANGED <<phase, stop, worker, ready, due, heard, events>>

Next == Main \/ Worker \/ Exporter \/ Signal \/ Tick

Spec == Init /\ [][Next]_vars

\* The threads are scheduled, and a receive that brings nothing else returns
\* with its timeout of a second.
FairSpec ==
  /\ Spec
  /\ WF_vars(Main) /\ WF_vars(WorkerLoop) /\ WF_vars(ReceiveNothing)
  /\ WF_vars(Exporter) /\ WF_vars(Tick)

-----------------------------------------------------------------------------
(***************************************************************************)
(* The budget is spent on new data only: under retransmission, reordering  *)
(* and the wrap of sequence numbers, no segment counts twice               *)
(* (nfqueue_worker.c:143-149).                                             *)
(***************************************************************************)
BudgetEarned ==
  \A f \in DOMAIN table \cap Tcp : table[f].unique <= Cardinality(heard[f])

(***************************************************************************)
(* Every event is accounted for: it is in the ring, with the exporter, or  *)
(* counted as sent or dropped; when the process ends all of them are       *)
(* counted, those accepted just before the shutdown included.              *)
(***************************************************************************)
EventsAccounted ==
  /\ owed = ring + (IF exporter = "sending" THEN 1 ELSE 0)
  /\ phase = "ended" => owed = 0

(***************************************************************************)
(* Nothing is torn down under a running thread: main frees the flow table  *)
(* and the ring after the worker's last step, and serves only with a       *)
(* worker that reads its queue (main.c:104-128).                           *)
(***************************************************************************)
OrderlyTeardown ==
  /\ phase \in {"destroying", "ended"} => worker \in {"unborn", "ended"}
  /\ phase = "ended" => exporter = "ended"
  /\ phase = "serving" /\ ~stop => worker \notin {"unborn", "opening", "ended"}

(***************************************************************************)
(* A signal, or a worker that died at the start, ends the process: nobody  *)
(* waits for ever in a join (main.c:124-128).                              *)
(***************************************************************************)
EndsWhenAsked == (stop \/ worker = "ended") ~> phase = "ended"

(***************************************************************************)
(* A flow that never falls silent leaves the table all the same once it    *)
(* has reached max_lifetime, however busy the queue is                     *)
(* (nfqueue_worker.c:284-290, flow_table.c:92).                            *)
(***************************************************************************)
LifetimeEnds ==
  \A f \in Flow :
    [](f \in DOMAIN table /\ table[f].first = MaxLifetime =>
         <>(f \notin DOMAIN table \/ table[f].first < MaxLifetime))
=============================================================================
