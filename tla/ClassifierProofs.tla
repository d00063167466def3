-------------------------- MODULE ClassifierProofs ---------------------------
(***************************************************************************)
(* Theorems about Classifier for any flow keys, budgets, timeouts, table   *)
(* size and ring capacity.                                                 *)
(***************************************************************************)
EXTENDS Classifier, FiniteSetTheorems, TLAPS

-----------------------------------------------------------------------------
(***************************************************************************)
(* The lives of the threads.  Main starts the worker before it polls, and  *)
(* serves only a worker that got ready; the worker then ends on stop only; *)
(* the queue is told to stop by a main whose worker is gone, and the       *)
(* exporter leaves an empty ring behind, which nobody fills any more.      *)
(***************************************************************************)
Threads ==
  /\ phase \in {"starting", "polling", "serving", "destroying", "ended"}
  /\ worker \in {"unborn", "opening", "receiving", "checking", "expiring", "ended"}
  /\ stop \in BOOLEAN /\ ready \in BOOLEAN /\ stopping \in BOOLEAN
  /\ phase = "starting" => worker = "unborn"
  /\ phase \in {"polling", "serving"} /\ ~stop => worker # "unborn"
  /\ phase \in {"destroying", "ended"} => worker \in {"unborn", "ended"}
  /\ ready => worker \notin {"unborn", "opening"}
  /\ ready /\ worker = "ended" => stop
  /\ phase = "serving" /\ ~stop => ready
  /\ stopping => phase \in {"destroying", "ended"}
  /\ phase = "ended" => exporter = "ended"

Ring ==
  /\ ring \in 0..Capacity
  /\ exporter \in {"taking", "waiting", "sending", "ended"}
  /\ owed \in Nat
  /\ owed = ring + (IF exporter = "sending" THEN 1 ELSE 0)
  /\ exporter = "ended" => stopping /\ ring = 0

(***************************************************************************)
(* The table: as many records as it may have, and for every record what    *)
(* has been heard since it was made.  A TCP segment counts only when it    *)
(* ends beyond all that was heard in its direction, so that it adds to     *)
(* what was heard whenever it counts.                                      *)
(***************************************************************************)
Bounded(records) ==
  /\ DOMAIN records \subseteq Flow /\ Cardinality(DOMAIN records) <= MaxFlows
  /\ \A f \in DOMAIN records : records[f] \in Record

Earned(r, segments) ==
  /\ IsFiniteSet(segments)
  /\ r.unique <= Cardinality(segments)
  /\ \A s \in segments : s[2] <= r.highest[s[1]]

Table ==
  /\ Bounded(table)
  /\ sinceExpiry \in 0..1 /\ circuit \in 0..OverloadCircuit
  /\ due \subseteq DOMAIN table
  /\ worker # "expiring" => due = {}
  /\ heard \in [Flow -> SUBSET (Direction \X Sequence)]
  /\ \A f \in Flow \ DOMAIN table : heard[f] = {}
  /\ \A f \in DOMAIN table \cap Tcp : Earned(table[f], heard[f])

IInv == Threads /\ Ring /\ Table

-----------------------------------------------------------------------------
(***************************************************************************)
(* Threads and ring.                                                       *)
(***************************************************************************)
LEMMA PushKeeps ==
  ASSUME Ring, Push, exporter # "ended"
  PROVE  Ring' /\ exporter' # "ended" /\ stopping' = stopping
BY ClassifierAssumption DEF Ring, Push, Woken

LEMMA RingSame ==
  ASSUME Ring, UNCHANGED events
  PROVE  Ring'
BY DEF Ring, events

LEMMA ThreadsMain ==
  ASSUME Threads, Ring, Main \/ Signal \/ Tick
  PROVE  Threads' /\ Ring'
<1>1. CASE SetUpFails \/ CreateWorker \/ CreateFails \/ EndPoll \/ JoinWorker \/ Signal \/ Tick
  <2>1. Ring' /\ stopping' = stopping /\ exporter' = exporter /\ ready' = ready
    BY <1>1, RingSame
    DEF SetUpFails, CreateWorker, CreateFails, EndPoll, JoinWorker, Signal, Tick, events
  <2>2. CASE SetUpFails
    BY <2>1, <2>2 DEF Threads, SetUpFails
  <2>3. CASE CreateWorker
    BY <2>1, <2>3 DEF Threads, CreateWorker
  <2>4. CASE CreateFails
    BY <2>1, <2>4 DEF Threads, CreateFails
  <2>5. CASE EndPoll
    <3>1. phase = "polling" /\ phase' = "serving" /\ worker' = worker
            /\ stop' = (stop \/ ~ready) /\ stop \in BOOLEAN /\ ready \in BOOLEAN
      BY <2>5 DEF Threads, EndPoll
    <3>2. stop' \in BOOLEAN /\ (~stop' => ~stop /\ ready) /\ (stop => stop')
      BY <3>1
    <3> QED
      BY <2>1, <3>1, <3>2 DEF Threads
  <2>6. CASE JoinWorker
    BY <2>1, <2>6 DEF Threads, JoinWorker
  <2>7. CASE Signal
    BY <2>1, <2>7 DEF Threads, Signal
  <2>8. CASE Tick
    BY <2>1, <2>8 DEF Threads, Tick
  <2> QED
    BY <1>1, <2>1, <2>2, <2>3, <2>4, <2>5, <2>6, <2>7, <2>8
<1>2. CASE Destroy
  <2>1. Ring'
    BY <1>2 DEF Ring, Destroy, Woken
  <2> QED
    BY <1>2, <2>1 DEF Threads, Destroy
<1>3. CASE JoinExporter
  BY <1>3, RingSame DEF Threads, JoinExporter, events
<1> QED
  BY <1>1, <1>2, <1>3 DEF Main

LEMMA ThreadsExporter ==
  ASSUME Threads, Ring, Exporter
  PROVE  Threads' /\ Ring'
<1>1. CASE TakeEvent
  BY <1>1, ClassifierAssumption DEF Threads, Ring, TakeEvent
<1>2. CASE AwaitEvent
  BY <1>2 DEF Threads, Ring, AwaitEvent
<1>3. CASE SendEvent
  BY <1>3 DEF Threads, Ring, SendEvent
<1>4. CASE LeaveExporter
  BY <1>4 DEF Threads, Ring, LeaveExporter
<1> QED
  BY <1>1, <1>2, <1>3, <1>4 DEF Exporter

LEMMA ThreadsWorker ==
  ASSUME Threads, Ring, Worker
  PROVE  Threads' /\ Ring'
<1>1. worker \notin {"unborn", "ended"} /\ UNCHANGED <<phase, stop>>
  BY DEF Worker, WorkerLoop, Receive, OpenQueue, OpenFails, SkipExpiry, StartExpiry, ExpireFlow,
         EndExpiry, ReceiveNothing, NoBuffers, Bypass, NoRecord, Inspect, flows, events
<1>2. exporter # "ended" /\ ~stopping
  BY <1>1 DEF Threads, Ring
<1>3. Ring' /\ exporter' # "ended" /\ stopping' = stopping
  <2>1. Push \/ UNCHANGED events
    BY DEF Worker, WorkerLoop, Receive, OpenQueue, OpenFails, SkipExpiry, StartExpiry, ExpireFlow,
           EndExpiry, ReceiveNothing, NoBuffers, Bypass, NoRecord, Inspect
  <2> QED
    BY <1>2, <2>1, PushKeeps, RingSame DEF events
<1>4. Threads'
  <2>1. CASE OpenQueue \/ OpenFails
    <3>1. worker = "opening" /\ phase' = phase /\ stop' = stop /\ exporter' # "ended" /\ ~stopping'
      BY <1>1, <1>2, <1>3, <2>1 DEF OpenQueue, OpenFails
    <3>2. ready \in BOOLEAN /\ ~ready /\ phase \in {"polling", "serving"} /\ stopping' \in BOOLEAN
            /\ (phase = "serving" => stop)
      BY <1>3, <3>1 DEF Threads
    <3>3. /\ worker' \in {"receiving", "ended"} /\ ready' \in BOOLEAN
          /\ ready' /\ worker' = "ended" => stop
          /\ ~ready' => worker' = "ended"
      <4>1. CASE OpenQueue
        <5>1. ready' = TRUE /\ worker' = IF stop THEN "ended" ELSE "receiving"
          BY <4>1 DEF OpenQueue, LoopTop
        <5> QED
          BY <5>1
      <4>2. CASE OpenFails
        BY <3>2, <4>2 DEF OpenFails
      <4> QED
        BY <2>1, <4>1, <4>2
    <3>4. stop \in BOOLEAN /\ (phase = "polling" /\ ~stop => worker # "unborn")
      BY DEF Threads
    <3> QED
      BY <3>1, <3>2, <3>3, <3>4, Zenon DEF Threads
  <2>2. CASE ~(OpenQueue \/ OpenFails)
    <3>1. worker \in {"receiving", "checking", "expiring"} /\ ready' = ready
            /\ worker' \in {"receiving", "checking", "expiring", LoopTop}
      BY <2>2
      DEF Worker, WorkerLoop, Receive, SkipExpiry, StartExpiry, ExpireFlow,
          EndExpiry, ReceiveNothing, NoBuffers, Bypass, NoRecord, Inspect
    <3> QED
      BY <1>1, <1>2, <1>3, <3>1 DEF Threads, LoopTop
  <2> QED
    BY <2>1, <2>2
<1> QED
  BY <1>3, <1>4

-----------------------------------------------------------------------------
(***************************************************************************)
(* The table: removing records, making room and putting one in.            *)
(***************************************************************************)
LEMMA SubsetBounded ==
  ASSUME NEW records, Bounded(records), NEW left,
         DOMAIN left \subseteq DOMAIN records, \A f \in DOMAIN left : left[f] = records[f]
  PROVE  /\ Bounded(left)
         /\ IsFiniteSet(DOMAIN records)
         /\ Cardinality(DOMAIN records) \in Nat /\ Cardinality(DOMAIN left) \in Nat
<1>1. IsFiniteSet(DOMAIN records)
  BY ClassifierAssumption, FS_Subset DEF Bounded
<1>2. Cardinality(DOMAIN left) <= Cardinality(DOMAIN records) /\ IsFiniteSet(DOMAIN left)
  BY <1>1, FS_Subset
<1>3. Cardinality(DOMAIN left) \in Nat /\ Cardinality(DOMAIN records) \in Nat
  BY <1>1, <1>2, FS_CardinalityType
<1> QED
  BY <1>1, <1>2, <1>3, ClassifierAssumption DEF Bounded

LEMMA WithBounded ==
  ASSUME NEW records, Bounded(records), NEW f \in Flow, NEW r \in Record,
         Cardinality(DOMAIN records \cup {f}) <= MaxFlows
  PROVE  /\ Bounded(With(records, f, r))
         /\ DOMAIN With(records, f, r) = DOMAIN records \cup {f}
         /\ With(records, f, r)[f] = r
         /\ \A g \in DOMAIN records \ {f} : With(records, f, r)[g] = records[g]
BY DEF Bounded, With

(***************************************************************************)
(* What a lookup leaves: f among the records, or room for it.              *)
(***************************************************************************)
Leaves(records, f) ==
  /\ DOMAIN records \subseteq DOMAIN table
  /\ \A g \in DOMAIN records : records[g] = table[g]
  /\ f \in DOMAIN table => f \in DOMAIN records
  /\ Bounded(records)
  /\ Cardinality(DOMAIN records \cup {f}) <= MaxFlows

LEMMA MadeRoomLeaves ==
  ASSUME Bounded(table), NEW f \in Flow, f \notin DOMAIN table, NEW records \in MadeRoom
  PROVE  Leaves(records, f)
<1>1. IsFiniteSet(DOMAIN table) /\ Cardinality(DOMAIN table) \in Nat
  BY SubsetBounded
<1>2. CASE Cardinality(DOMAIN table) < MaxFlows /\ records = table
  <2>1. Cardinality(DOMAIN table \cup {f}) = Cardinality(DOMAIN table) + 1
    BY <1>1, FS_AddElement
  <2> QED
    BY <1>1, <1>2, <2>1, ClassifierAssumption DEF Leaves
<1>3. ASSUME NEW g \in DOMAIN table, records = Without({g})
      PROVE  Leaves(records, f)
  <2>1. /\ DOMAIN records = DOMAIN table \ {g}
        /\ \A h \in DOMAIN records : records[h] = table[h]
    BY <1>3 DEF Without, Restrict
  <2>2. Bounded(records) /\ IsFiniteSet(DOMAIN records)
    BY <1>1, <2>1, SubsetBounded, FS_Subset
  <2>3. Cardinality(DOMAIN records) = Cardinality(DOMAIN table) - 1
    BY <1>1, <1>3, <2>1, FS_RemoveElement
  <2>4. Cardinality(DOMAIN records \cup {f}) = Cardinality(DOMAIN records) + 1
    BY <2>1, <2>2, FS_AddElement
  <2> QED
    BY <1>1, <2>1, <2>2, <2>3, <2>4, ClassifierAssumption DEF Leaves, Bounded
<1> QED
  BY <1>2, <1>3 DEF MadeRoom, Oldest

LEMMA LookupLeaves ==
  ASSUME Bounded(table), NEW f \in Flow, NEW records \in Lookup(f)
  PROVE  Leaves(records, f)
<1>1. CASE f \in DOMAIN table
  <2>1. records = table /\ DOMAIN table \cup {f} = DOMAIN table
    BY <1>1 DEF Lookup
  <2> QED
    BY <1>1, <2>1 DEF Leaves, Bounded
<1>2. CASE f \notin DOMAIN table
  BY <1>2, MadeRoomLeaves DEF Lookup
<1> QED
  BY <1>1, <1>2

(***************************************************************************)
(* A packet counts only for a segment that was not heard before.           *)
(***************************************************************************)
LEMMA EndInSpace ==
  ASSUME NEW f \in Flow, NEW p \in Packet(f)
  PROVE  End(p) \in Sequence /\ p.payload \in 0..1 /\ p.flag \in {"syn", "synack", "fin", "ack", "none"}
<1>1. p.seq \in Nat /\ p.payload \in 0..1 /\ p.flag \in {"syn", "synack", "fin", "ack", "none"}
  BY ClassifierAssumption DEF Packet, TcpPacket, UdpPacket, Sequence
<1>2. SequenceSpace \in Nat \ {0}
  BY ClassifierAssumption
<1>3. (p.seq + p.payload) % SequenceSpace \in 0..(SequenceSpace - 1)
  BY <1>1, <1>2
<1> QED
  BY <1>1, <1>3 DEF End, Sequence

LEMMA CountedRecord ==
  ASSUME NEW f \in Flow, NEW r \in Record, NEW d \in Direction, NEW p \in Packet(f)
  PROVE  /\ Counted(f, r, d, p) \in Record
         /\ Counted(f, r, d, p).unique = IF IsNew(f, r, d, p) THEN UpTo(r.unique + 1, Budget(f) + 1)
                                         ELSE r.unique
         /\ Counted(f, r, d, p).highest =
              IF IsNew(f, r, d, p) /\ f \in Tcp THEN [r.highest EXCEPT ![d] = End(p)] ELSE r.highest
<1>1. End(p) \in Sequence /\ p.flag \in {"syn", "synack", "fin", "ack", "none"}
  BY EndInSpace
<1>2. Budget(f) \in Nat /\ MaxLifetime \in Nat
  BY ClassifierAssumption DEF Budget
<1>3. r.highest \in [Direction -> Sequence] /\ r.unique \in Nat /\ r.tcp \in 0..2
  BY DEF Record
<1>4. TcpState(r, p) \in 0..2
  BY <1>1, <1>3 DEF TcpState
<1>5. UpTo(r.unique + 1, Budget(f) + 1) \in Nat
  BY <1>2, <1>3 DEF UpTo
<1>6. [r.highest EXCEPT ![d] = End(p)] \in [Direction -> Sequence]
  BY <1>1, <1>3
<1> DEFINE unique == IF IsNew(f, r, d, p) THEN UpTo(r.unique + 1, Budget(f) + 1) ELSE r.unique
           highest == IF IsNew(f, r, d, p) /\ f \in Tcp THEN [r.highest EXCEPT ![d] = End(p)]
                      ELSE r.highest
<1>7. unique \in Nat /\ highest \in [Direction -> Sequence]
  BY <1>3, <1>5, <1>6
<1> DEFINE r1 == [r EXCEPT !.last = 0]
           r2 == [r1 EXCEPT !.tcp = TcpState(r, p)]
           r3 == [r2 EXCEPT !.unique = unique]
           r4 == [r3 EXCEPT !.highest = highest]
<1>8. Counted(f, r, d, p) = r4
  BY DEF Counted
<1> HIDE DEF unique, highest
<1>9. r1 \in Record
  BY <1>2 DEF Record
<1> HIDE DEF r1
<1>10. r2 \in Record
  BY <1>4, <1>9 DEF Record
<1> HIDE DEF r2
<1>11. r3 \in Record /\ r3.unique = unique
  BY <1>7, <1>10 DEF Record
<1> HIDE DEF r3
<1>12. r4 \in Record /\ r4.unique = unique /\ r4.highest = highest
  BY <1>7, <1>11 DEF Record
<1> HIDE DEF r4
<1> QED
  BY <1>8, <1>12 DEF unique, highest

LEMMA EarnedCounted ==
  ASSUME NEW f \in Tcp, NEW r \in Record, NEW d \in Direction, NEW p \in Packet(f),
         NEW heardSoFar \in SUBSET (Direction \X Sequence), Earned(r, heardSoFar)
  PROVE  Earned(Counted(f, r, d, p), heardSoFar \cup Segments(f, d, p))
<1> DEFINE new == Counted(f, r, d, p)
           all == heardSoFar \cup Segments(f, d, p)
<1>0. f \in Flow
  BY DEF Flow
<1>1. /\ new.unique = IF IsNew(f, r, d, p) THEN UpTo(r.unique + 1, Budget(f) + 1) ELSE r.unique
      /\ new.highest = IF IsNew(f, r, d, p) /\ f \in Tcp THEN [r.highest EXCEPT ![d] = End(p)]
                       ELSE r.highest
  BY <1>0, CountedRecord
<1>2. End(p) \in Sequence /\ p.payload \in 0..1
  BY <1>0, EndInSpace
<1>3. r.highest \in [Direction -> Sequence] /\ r.unique \in Nat
  BY DEF Record
<1>4. IsFiniteSet(heardSoFar) /\ Cardinality(heardSoFar) \in Nat
  BY FS_CardinalityType DEF Earned
<1>5. Sequence \subseteq Int
  BY ClassifierAssumption DEF Sequence
<1> HIDE DEF new
<1>6. CASE p.payload = 0
  <2>1. all = heardSoFar /\ ~IsNew(f, r, d, p)
    BY <1>6 DEF Segments, IsNew
  <2> QED
    BY <1>1, <2>1 DEF Earned, new
<1>7. CASE p.payload = 1
  <2>1. all = heardSoFar \cup {<<d, End(p)>>}
    BY <1>7 DEF Segments
  <2>2. IsFiniteSet(all) /\ Cardinality(all) =
          IF <<d, End(p)>> \in heardSoFar THEN Cardinality(heardSoFar) ELSE Cardinality(heardSoFar) + 1
    BY <1>4, <2>1, FS_AddElement
  <2>3. CASE End(p) > r.highest[d]
    <3>1. IsNew(f, r, d, p)
      BY <1>7, <2>3 DEF IsNew
    <3>2. <<d, End(p)>> \notin heardSoFar
      <4> SUFFICES ASSUME <<d, End(p)>> \in heardSoFar PROVE FALSE
        OBVIOUS
      <4> DEFINE s == <<d, End(p)>>
      <4>1. s[2] <= r.highest[s[1]]
        BY DEF Earned
      <4>2. s[1] = d /\ s[2] = End(p)
        OBVIOUS
      <4>3. r.highest[d] \in Int /\ End(p) \in Int
        BY <1>2, <1>3, <1>5
      <4> HIDE DEF s
      <4> QED
        BY <2>3, <4>1, <4>2, <4>3
    <3>3. new.unique <= r.unique + 1
      BY <1>0, <1>1, <1>3, <3>1, ClassifierAssumption DEF UpTo, Budget
    <3>4. new.unique \in Nat
      BY <1>0, CountedRecord DEF new, Record
    <3>5. new.unique <= Cardinality(all)
      BY <1>3, <1>4, <2>2, <3>2, <3>3, <3>4 DEF Earned
    <3>6. new.highest = [r.highest EXCEPT ![d] = End(p)]
      BY <1>1, <3>1
    <3>7. \A s \in all : s[2] <= new.highest[s[1]]
      <4>0. new.highest[d] = End(p) /\ \A e \in Direction \ {d} : new.highest[e] = r.highest[e]
        BY <1>3, <3>6
      <4>1. ASSUME NEW s \in heardSoFar PROVE s[2] <= new.highest[s[1]]
        <5>1. s[1] \in Direction /\ s[2] \in Sequence /\ s[2] <= r.highest[s[1]]
          BY <4>1 DEF Earned
        <5>2. s[2] \in Int /\ r.highest[s[1]] \in Int /\ End(p) \in Int
          BY <1>2, <1>3, <1>5, <5>1
        <5>3. CASE s[1] = d
          BY <2>3, <4>0, <5>1, <5>2, <5>3
        <5>4. CASE s[1] # d
          BY <4>0, <5>1, <5>4
        <5> QED
          BY <5>3, <5>4
      <4>2. End(p) <= new.highest[d]
        <5>1. End(p) \in Int
          BY <1>2, <1>5
        <5> HIDE DEF new
        <5> QED
          BY <4>0, <5>1
      <4> QED
        BY <2>1, <4>1, <4>2
    <3> QED
      BY <2>2, <3>5, <3>7 DEF Earned, new
  <2>4. CASE ~(End(p) > r.highest[d])
    <3>1. ~IsNew(f, r, d, p)
      BY <2>4 DEF IsNew
    <3>2. new.unique = r.unique /\ new.highest = r.highest
      BY <1>1, <3>1
    <3>3. End(p) <= r.highest[d]
      <4> DEFINE e == End(p)
                 h == r.highest[d]
      <4>1. e \in Int /\ h \in Int /\ ~(e > h)
        BY <1>2, <1>3, <1>5, <2>4
      <4> HIDE DEF e, h
      <4>2. e <= h
        BY <4>1
      <4> QED
        BY <4>2 DEF e, h
    <3>4. r.unique <= Cardinality(all)
      BY <1>3, <1>4, <2>2 DEF Earned
    <3> QED
      BY <2>1, <2>2, <3>2, <3>3, <3>4 DEF Earned, new
  <2> QED
    BY <2>3, <2>4
<1> QED
  BY <1>2, <1>6, <1>7

LEMMA NewEarned ==
  /\ NewRecord \in Record
  /\ Earned(NewRecord, {})
<1>1. 0 \in Sequence /\ MaxLifetime \in Nat
  BY ClassifierAssumption DEF Sequence
<1>2. NewRecord \in Record
  BY <1>1 DEF NewRecord, Record
<1>3. Earned(NewRecord, {})
  BY FS_EmptySet DEF NewRecord, Earned
<1> QED
  BY <1>2, <1>3

LEMMA ResultNoted ==
  ASSUME NEW r \in Record, NEW result \in {"INSPECTING", "PARTIAL"} \cup Terminal
  PROVE  LET new == [r EXCEPT !.result = result]
         IN new \in Record /\ new.unique = r.unique /\ new.highest = r.highest
BY DEF Record

LEMMA ResultsTyped ==
  ASSUME NEW f \in Flow, NEW r \in Record
  PROVE  TerminalResults(f, r) \cup OpenResults(f, r) \subseteq {"INSPECTING", "PARTIAL"} \cup Terminal
BY DEF TerminalResults, OpenResults, OfDecided, OfGiveUp, TerminalResult, Terminal, Record

LEMMA TableInspect ==
  ASSUME Table, NEW f \in Flow, NEW d \in Direction, NEW p \in Packet(f), Inspect(f, d, p)
  PROVE  Table'
<1>1. PICK records \in Lookup(f), r \in Record, result \in {"INSPECTING", "PARTIAL"} \cup Terminal :
        /\ r = Counted(f, Found(records, f), d, p) /\ Found(records, f) \in Record
        /\ Release(f, d, p, records, [r EXCEPT !.result = result])
  <2>1. PICK records \in Lookup(f) :
          LET r == Counted(f, Found(records, f), d, p)
          IN \E result \in TerminalResults(f, r) \cup OpenResults(f, r) :
               Release(f, d, p, records, [r EXCEPT !.result = result])
    BY DEF Inspect
  <2>2. Found(records, f) \in Record
    BY <2>1, LookupLeaves, NewEarned DEF Table, Leaves, Bounded, Found
  <2>3. Counted(f, Found(records, f), d, p) \in Record
    BY <2>2, CountedRecord
  <2> QED
    BY <2>1, <2>2, <2>3, ResultsTyped
<1> DEFINE new == [r EXCEPT !.result = result]
<1>2. Leaves(records, f)
  BY <1>1, LookupLeaves DEF Table
<1>3. new \in Record /\ new.unique = r.unique /\ new.highest = r.highest
  BY ResultNoted
<1> HIDE DEF new
<1>4. /\ Bounded(table') /\ DOMAIN table' = DOMAIN records \cup {f} /\ table'[f] = new
      /\ \A g \in DOMAIN records \ {f} : table'[g] = table[g]
  <2>1. table' = With(records, f, new)
    BY <1>1 DEF Release, new
  <2> QED
    BY <1>2, <1>3, <2>1, WithBounded DEF Leaves
<1>5. /\ heard'[f] = heard[f] \cup Segments(f, d, p)
      /\ \A g \in Flow \ {f} : heard'[g] = IF g \in DOMAIN records THEN heard[g] ELSE {}
      /\ heard' \in [Flow -> SUBSET (Direction \X Sequence)]
  <2>1. heard' = [g \in Flow |-> IF g = f THEN heard[g] \cup Segments(f, d, p)
                                 ELSE IF g \in DOMAIN records THEN heard[g] ELSE {}]
    BY <1>1 DEF Release
  <2>2. Segments(f, d, p) \subseteq Direction \X Sequence
    BY EndInSpace DEF Segments
  <2> QED
    BY <2>1, <2>2 DEF Table
<1>6. \A g \in DOMAIN table' \cap Tcp : Earned(table'[g], heard'[g])
  <2>1. ASSUME NEW g \in DOMAIN records \cap Tcp, g # f
        PROVE  Earned(table'[g], heard'[g])
    BY <1>2, <1>4, <1>5, <2>1 DEF Table, Leaves, Flow
  <2>2. ASSUME f \in Tcp
        PROVE  Earned(new, heard'[f])
    <3>1. Earned(Found(records, f), heard[f])
      <4>1. CASE f \in DOMAIN records
        BY <1>2, <2>2, <4>1 DEF Table, Leaves, Found
      <4>2. CASE f \notin DOMAIN records
        BY <1>2, <4>2, NewEarned DEF Table, Leaves, Found
      <4> QED
        BY <4>1, <4>2
    <3>2. heard[f] \in SUBSET (Direction \X Sequence)
      BY DEF Table
    <3>3. Earned(r, heard[f] \cup Segments(f, d, p))
      BY <1>1, <2>2, <3>1, <3>2, EarnedCounted
    <3> QED
      BY <1>3, <1>5, <3>3 DEF Earned
  <2> QED
    BY <1>4, <2>1, <2>2
<1>7. \A g \in Flow \ DOMAIN table' : heard'[g] = {}
  BY <1>4, <1>5
<1>8. worker' # "expiring" /\ due' = {} /\ circuit' = circuit /\ sinceExpiry' = sinceExpiry
  BY DEF Inspect, Table
<1> QED
  BY <1>4, <1>5, <1>6, <1>7, <1>8 DEF Table

LEMMA TableForget ==
  ASSUME Table, NEW left, DOMAIN left \subseteq DOMAIN table,
         \A f \in DOMAIN left : left[f] = table[f],
         table' = left, Forget(left),
         due' \subseteq DOMAIN left, worker' # "expiring" => due' = {},
         circuit' = circuit, sinceExpiry' \in 0..1
  PROVE  Table'
<1>1. Bounded(table')
  BY SubsetBounded DEF Table
<1>2. /\ heard' = [f \in Flow |-> IF f \in DOMAIN left THEN heard[f] ELSE {}]
      /\ heard' \in [Flow -> SUBSET (Direction \X Sequence)]
  BY DEF Forget, Table
<1>3. \A f \in DOMAIN table' \cap Tcp : Earned(table'[f], heard'[f])
  BY <1>2 DEF Table, Flow
<1>4. \A f \in Flow \ DOMAIN table' : heard'[f] = {}
  BY <1>2
<1> QED
  BY <1>1, <1>2, <1>3, <1>4 DEF Table

LEMMA TableWorker ==
  ASSUME Table, Worker
  PROVE  Table'
<1>1. CASE OpenQueue \/ OpenFails \/ SkipExpiry \/ ReceiveNothing \/ Bypass
  BY <1>1 DEF Table, OpenQueue, OpenFails, SkipExpiry, ReceiveNothing, Bypass, LoopTop, flows, Bounded
<1>2. CASE NoBuffers
  BY <1>2, ClassifierAssumption DEF Table, NoBuffers, Bounded
<1>3. CASE StartExpiry
  BY <1>3 DEF Table, StartExpiry, flows, Bounded
<1>4. CASE EndExpiry
  BY <1>4 DEF Table, EndExpiry, LoopTop, flows, Bounded
<1>5. ASSUME NEW f \in Flow, ExpireFlow(f)
      PROVE  Table'
  <2>1. /\ DOMAIN Without({f}) = DOMAIN table \ {f}
        /\ \A g \in DOMAIN table \ {f} : Without({f})[g] = table[g]
    BY DEF Without, Restrict
  <2>2. /\ table' = Without({f}) /\ Forget(Without({f})) /\ due' = due \ {f}
        /\ worker' = "expiring" /\ circuit' = circuit /\ sinceExpiry' = sinceExpiry
    BY <1>5 DEF ExpireFlow
  <2>3. due \subseteq DOMAIN table /\ sinceExpiry \in 0..1
    BY DEF Table
  <2> QED
    BY <2>1, <2>2, <2>3, TableForget
<1>6. ASSUME NEW f \in Flow, NoRecord(f)
      PROVE  Table'
  <2>1. PICK records \in MadeRoom : table' = records /\ Forget(records)
    BY <1>6 DEF NoRecord
  <2>2. Leaves(records, f)
    BY <1>6, <2>1, MadeRoomLeaves DEF NoRecord, Table
  <2>3. worker' = "checking" /\ due' = {} /\ circuit' = circuit /\ sinceExpiry' \in 0..1
    BY <1>6 DEF NoRecord, Table
  <2> QED
    BY <2>1, <2>2, <2>3, TableForget DEF Leaves
<1>7. ASSUME NEW f \in Flow, NEW d \in Direction, NEW p \in Packet(f), Inspect(f, d, p)
      PROVE  Table'
  BY <1>7, TableInspect
<1> QED
  BY <1>1, <1>2, <1>3, <1>4, <1>5, <1>6, <1>7 DEF Worker, WorkerLoop, Receive

LEMMA TableTick ==
  ASSUME Table, Tick
  PROVE  Table'
<1>1. ASSUME NEW r \in Record
      PROVE  Aged(r) \in Record /\ Aged(r).unique = r.unique /\ Aged(r).highest = r.highest
  <2> DEFINE r1 == [r EXCEPT !.first = UpTo(@ + 1, MaxLifetime)]
             r2 == [r1 EXCEPT !.last = UpTo(@ + 1, MaxLifetime)]
  <2>1. r1 \in Record /\ r1.unique = r.unique /\ r1.highest = r.highest
    BY ClassifierAssumption DEF Record, UpTo
  <2>2. Aged(r) = r2
    BY DEF Aged, Record
  <2> HIDE DEF r1
  <2>3. r2 \in Record /\ r2.unique = r1.unique /\ r2.highest = r1.highest
    BY <2>1, ClassifierAssumption DEF Record, UpTo
  <2> QED
    BY <2>1, <2>2, <2>3
<1>2. /\ table' = [f \in DOMAIN table |-> Aged(table[f])]
      /\ UNCHANGED <<worker, due, heard>> /\ sinceExpiry' = 1
      /\ circuit' = IF circuit > 0 THEN circuit - 1 ELSE 0
  BY DEF Tick
<1>3. Bounded(table')
  BY <1>1, <1>2 DEF Bounded, Table
<1>4. \A f \in DOMAIN table' \cap Tcp : Earned(table'[f], heard'[f])
  BY <1>1, <1>2 DEF Table, Bounded, Earned
<1>5. circuit' \in 0..OverloadCircuit
  BY <1>2, ClassifierAssumption DEF Table
<1>6. DOMAIN table' = DOMAIN table
  BY <1>2
<1>7. due' \subseteq DOMAIN table' /\ (worker' # "expiring" => due' = {})
  BY <1>2, <1>6 DEF Table
<1>8. heard' \in [Flow -> SUBSET (Direction \X Sequence)] /\ \A f \in Flow \ DOMAIN table' : heard'[f] = {}
  BY <1>2, <1>6 DEF Table
<1>9. sinceExpiry' \in 0..1
  BY <1>2
<1> QED
  BY <1>3, <1>4, <1>5, <1>7, <1>8, <1>9 DEF Table

LEMMA TableSame ==
  ASSUME Table, UNCHANGED flows, UNCHANGED <<sinceExpiry, due>>,
         worker = "expiring" => worker' = "expiring"
  PROVE  Table'
<1>1. UNCHANGED <<circuit, table, heard, sinceExpiry, due>>
  BY DEF flows
<1>2. Bounded(table')
  BY <1>1 DEF Table
<1>3. worker' # "expiring" => due' = {}
  BY <1>1 DEF Table
<1> QED
  BY <1>1, <1>2, <1>3 DEF Table

LEMMA TableMain ==
  ASSUME Table, Threads, Main
  PROVE  Table'
<1>1. CASE SetUpFails \/ CreateWorker \/ CreateFails \/ EndPoll \/ JoinWorker \/ JoinExporter
  <2>1. UNCHANGED flows /\ UNCHANGED <<sinceExpiry, due>>
    BY <1>1 DEF SetUpFails, CreateWorker, CreateFails, EndPoll, JoinWorker, JoinExporter
  <2>2. worker = "expiring" => worker' = "expiring"
    BY <1>1 DEF SetUpFails, CreateWorker, CreateFails, EndPoll, JoinWorker, JoinExporter, Threads
  <2> QED
    BY <2>1, <2>2, TableSame
<1>2. CASE Destroy
  <2> DEFINE none == [f \in {} |-> {}]
  <2>1. DOMAIN none = {}
    OBVIOUS
  <2>2. worker' = worker /\ worker # "expiring" /\ due' = due /\ circuit' = circuit
          /\ sinceExpiry' = sinceExpiry /\ table' = none /\ Forget(none)
    BY <1>2 DEF Destroy, Threads
  <2>3. due = {} /\ sinceExpiry \in 0..1
    BY <2>2 DEF Table
  <2> HIDE DEF none
  <2> QED
    BY <2>1, <2>2, <2>3, TableForget
<1> QED
  BY <1>1, <1>2 DEF Main

-----------------------------------------------------------------------------
(***************************************************************************)
(* The inductive invariant, and what follows from it.                      *)
(***************************************************************************)
LEMMA Starts ==
  Init => IInv
<1> SUFFICES ASSUME Init PROVE IInv
  OBVIOUS
<1>1. Threads
  BY DEF Init, Threads
<1>2. Ring
  BY ClassifierAssumption DEF Init, Ring
<1>3. Table
  <2>1. table = [f \in {} |-> {}] /\ DOMAIN table = {}
    BY DEF Init
  <2>2. Bounded(table)
    BY <2>1, FS_EmptySet, ClassifierAssumption DEF Bounded
  <2>3. heard = [f \in Flow |-> {}] /\ due = {} /\ sinceExpiry = 0 /\ circuit = 0
    BY DEF Init
  <2> QED
    BY <2>1, <2>2, <2>3, ClassifierAssumption DEF Table
<1> QED
  BY <1>1, <1>2, <1>3 DEF IInv

LEMMA Stays ==
  IInv /\ [Next]_vars => IInv'
<1> SUFFICES ASSUME IInv, [Next]_vars PROVE IInv'
  OBVIOUS
<1> USE DEF IInv
<1>1. CASE Main
  BY <1>1, ThreadsMain, TableMain
<1>2. CASE Worker
  BY <1>2, ThreadsWorker, TableWorker
<1>3. CASE Exporter
  <2>1. UNCHANGED <<flows, sinceExpiry, due, worker>>
    BY <1>3 DEF Exporter, TakeEvent, AwaitEvent, SendEvent, LeaveExporter
  <2> QED
    BY <1>3, <2>1, ThreadsExporter, TableSame
<1>4. CASE Signal
  BY <1>4, ThreadsMain, TableSame DEF Signal
<1>5. CASE Tick
  BY <1>5, ThreadsMain, TableTick
<1>6. CASE UNCHANGED vars
  BY <1>6, RingSame, TableSame DEF vars, Threads, events
<1> QED
  BY <1>1, <1>2, <1>3, <1>4, <1>5, <1>6 DEF Next

LEMMA Inductive ==
  Spec => []IInv
BY Starts, Stays, PTL DEF Spec

(***************************************************************************)
(* Types: the table never holds more than max_flows records and the ring   *)
(* never more than its capacity (flow_table.c:95-118, event_queue.c).      *)
(***************************************************************************)
THEOREM SpecTypeOK ==
  Spec => []TypeOK
<1>1. IInv => TypeOK
  <2> SUFFICES ASSUME IInv PROVE TypeOK
    OBVIOUS
  <2>1. {stop, ready, stopping} \subseteq BOOLEAN
    BY DEF IInv, Threads
  <2> QED
    BY <2>1 DEF IInv, Threads, Ring, Table, Bounded, TypeOK
<1> QED
  BY <1>1, Inductive, PTL

(***************************************************************************)
(* The inspection budget of a TCP flow is spent on data not seen before,   *)
(* whatever is retransmitted, reordered or wrapped                         *)
(* (nfqueue_worker.c:143-149).                                             *)
(***************************************************************************)
THEOREM SpecBudgetEarned ==
  Spec => []BudgetEarned
<1>1. IInv => BudgetEarned
  BY DEF IInv, Table, Earned, BudgetEarned
<1> QED
  BY <1>1, Inductive, PTL

(***************************************************************************)
(* Every accepted event is in the ring, with the exporter, or counted, and *)
(* none is left when the process ends (event_queue.c, main.c:124-128).     *)
(***************************************************************************)
THEOREM SpecEventsAccounted ==
  Spec => []EventsAccounted
<1>1. IInv => EventsAccounted
  BY DEF IInv, Threads, Ring, EventsAccounted
<1> QED
  BY <1>1, Inductive, PTL

(***************************************************************************)
(* Main frees the flow table and the ring only after the worker's last     *)
(* step, and serves only with a worker that reads its queue                *)
(* (main.c:104-128).                                                       *)
(***************************************************************************)
THEOREM SpecOrderlyTeardown ==
  Spec => []OrderlyTeardown
<1>1. IInv => OrderlyTeardown
  BY DEF IInv, Threads, OrderlyTeardown
<1> QED
  BY <1>1, Inductive, PTL
=============================================================================
