----------------------------- MODULE PacketMarks -----------------------------
(***************************************************************************)
(* How one router keeps a connection on the tunnel it began on.            *)
(*                                                                         *)
(* A router is a v5 spoke, a v5 hub, a cloud gateway or a v4 spoke.  Each  *)
(* changes iptables chains that move a mark between the packet and the    *)
(* connection-tracking entry, and ip rules that choose a routing table by  *)
(* that mark.  The chains are rebuilt in place, one command at a time, on  *)
(* every policy change, under traffic; a command that fails leaves the     *)
(* rest of the installation undone.  A slot table of version 4 is also     *)
(* emptied and filled again by every reconcile, and led to another tunnel  *)
(* in an emergency.                                                        *)
(*                                                                         *)
(* The module interprets the installed rules for the packets of ONE        *)
(* connection: the entries of different connections never meet.  A mark is *)
(* its hub bits, its slot and its inspection stage; the egress bits of a   *)
(* gateway are the same for all its links and left out.  The kernel        *)
(* (conntrack, the order of hooks, a queue verdict that ends the table) is *)
(* modelled from how the code uses it.  Source and destination NAT and the *)
(* subchain for the emergency bit of version 4 are left out.               *)
(***************************************************************************)
EXTENDS Naturals, FiniteSets, SequencesExt

CONSTANTS Roles,        \* the kinds of router explored
          Hub,          \* v5 hubs
          Path,         \* transports, named as their route slots
          OwnHub,       \* the hub that a "hub" router is
          FallbackPath, \* v4: path of the unknown class
          Intents,      \* marks a policy gives the connection's destination
          NoConn,
          MaxChanges    \* bound: installations, steered slots, classifier stops

Side(h, p) == [hub |-> h, path |-> p]

ASSUME MarkAssumption ==
  /\ OwnHub \in Hub /\ FallbackPath \in Path /\ MaxChanges \in Nat
  /\ Intents \subseteq {Side(h, p) : h \in Hub \cup {"none"}, p \in Path}

Marked(l, s) == [hub |-> l.hub, path |-> l.path, stage |-> s]
NoMark == Marked(Side("none", "none"), "none")
Terminal(l) == Marked(l, "terminal")

VARIABLES
  role,       \* which router this is
  placed,     \* rules in place of each mangle chain: at arrival, at arrival from
              \* the LAN, at departure
  intent,     \* the mark that the LAN chain gives the connection's destination
  tables,     \* routing tables that an ip rule selects
  steered,    \* the tunnel each slot table (101..103) leads to, or Empty
  wanted,     \* the mark that the latest installation is to give
  program,    \* the commands that the running installation has still to issue
  alive,      \* the classifier holds its queue
  conn,       \* the connection, or NoConn
  changes     \* installations, steered slots and classifier stops so far

vars == <<role, placed, intent, tables, steered, wanted, program, alive, conn, changes>>

(* The tunnels of a router: its own mark, and its own routing table, each. *)
Slots == {Side("none", p) : p \in Path}
LinksOf ==
  [r \in {"spoke", "hub", "gateway", "v4"} |->
     CASE r = "spoke" -> {Side(h, p) : h \in Hub, p \in Path}
       [] r = "hub" -> {Side(OwnHub, p) : p \in Path}
       [] r = "gateway" -> {Side(h, "none") : h \in Hub}
       [] r = "v4" -> Slots]
Links == LinksOf[role]
TablesOf == [r \in DOMAIN LinksOf |-> LinksOf[r] \cup IF r = "spoke" THEN Slots ELSE {}]
Main == Side("main", "main")
Empty == Side("empty", "empty")

-----------------------------------------------------------------------------
(* Rules of a chain: what a packet must match, what happens to it then.    *)

Rule(match, target, mark) == [match |-> match, target |-> target, mark |-> mark]

RestoreMark == Rule("any", "restore", NoMark)
SaveMark == Rule("any", "save", NoMark)
StampNew(where, l) == Rule(where, "set", Terminal(l))

Untouched(mark) == mark.hub = "none" /\ mark.path = "none"

(* A packet p is inspected against a rule's match.                         *)
Matches(p, r) ==
  CASE r.match = "any" -> TRUE
    [] r.match = "fresh from" ->
         p.new /\ Terminal(p.from) = r.mark /\ Untouched(p.mark)
    [] r.match = "fresh to" ->
         p.new /\ Terminal(p.to) = r.mark /\ Untouched(p.mark)
    [] r.match = "stamped to" ->
         p.new /\ Terminal(p.to) = r.mark /\ p.mark = r.mark
    [] r.match = "stamped from" -> Terminal(p.from) = r.mark /\ p.mark = r.mark
    [] r.match = "unbegun from" -> Terminal(p.from) = r.mark /\ p.ct.path = "none"
    [] r.match = "blank" -> p.mark = NoMark
    [] r.match = "no path" -> p.mark.path = "none"
    [] r.match = "undecided" -> p.mark.stage # "terminal"
    [] r.match = "decided" -> p.mark.stage = "terminal"
    [] r.match = "ct decided" -> p.ct.stage = "terminal"
    [] r.match = "ct begun" -> p.ct.path # "none"

(* The slot the classifier puts the flow on: the one of the first packet it *)
(* saw of it; only version 4 chooses another, and only then.                *)
FlowPath(p) ==
  CASE p.active # "none" -> p.active
    [] p.active = "none" /\ role = "v4" /\ p.verdict.stage = "terminal" -> p.verdict.path
    [] OTHER -> p.mark.path

(* The verdict replaces slot and stage and keeps the other bits.  Without a *)
(* listener the packet passes unchanged.  Either way the table is left.     *)
Queued(p) ==
  IF ~alive THEN [p EXCEPT !.live = FALSE]
  ELSE [p EXCEPT !.live = FALSE, !.active = FlowPath(p),
                 !.mark = [@ EXCEPT !.path = FlowPath(p), !.stage = p.verdict.stage]]

Passed(p, r) ==
  IF ~Matches(p, r) THEN p
  ELSE CASE r.target = "restore" -> [p EXCEPT !.mark = p.ct]
         [] r.target = "save" -> [p EXCEPT !.ct = p.mark]
         [] r.target = "set" -> [p EXCEPT !.mark = r.mark]
         [] r.target = "return" -> [p EXCEPT !.live = FALSE]
         [] r.target = "queue" -> Queued(p)

-----------------------------------------------------------------------------
(* The chains of a complete router, and the commands that build them.      *)

Each(S, F(_)) == FlattenSeq([i \in 1..Cardinality(S) |-> F(SetToSeq(S)[i])])

StampIn(l) == <<StampNew("fresh from", l)>>
StampOut(l) == <<StampNew("fresh to", l), Rule("stamped to", "save", Terminal(l))>>
(* Fault: the arrival chain stamps connections and does not record them.   *)
ReturnInUnsaved(r) == <<RestoreMark>> \o Each(LinksOf[r], StampIn)
ReturnIn(r) == <<RestoreMark>> \o Each(LinksOf[r], StampIn) \o <<SaveMark>>
ReturnOut(r) == Each(LinksOf[r], StampOut)

LanRules(mark) ==
  <<RestoreMark, Rule("blank", "set", Marked(mark, "none")),
    Rule("undecided", "queue", NoMark), SaveMark>>

Outbound ==
  <<RestoreMark, Rule("decided", "return", NoMark),
    Rule("no path", "set", Marked(Side("none", FallbackPath), "provisional")), SaveMark,
    Rule("any", "queue", NoMark), SaveMark>>
Derived(l) == <<StampNew("unbegun from", l), Rule("stamped from", "save", Terminal(l))>>
Inbound ==
  <<RestoreMark, Rule("ct decided", "set", NoMark), Rule("ct decided", "return", NoMark),
    Rule("ct begun", "queue", NoMark), SaveMark>>
  \o Each(LinksOf["v4"], Derived) \o <<Rule("any", "set", NoMark)>>

AnyIntent == Intents \cup {Side(OwnHub, FallbackPath)}
Chains ==
  [r \in DOMAIN LinksOf, i \in AnyIntent |->
     CASE r = "spoke" -> [in |-> ReturnIn(r), lan |-> LanRules(i), out |-> ReturnOut(r)]
       [] r = "v4" -> [in |-> Inbound, lan |-> Outbound, out |-> <<>>]
       [] OTHER -> [in |-> ReturnIn(r), lan |-> <<>>, out |-> ReturnOut(r)]]
Rules(c) == SubSeq(Chains[role, intent][c], 1, placed[c])
RECURSIVE After(_, _, _)
After(p, rules, n) == IF n > Len(rules) \/ ~p.live THEN p ELSE After(Passed(p, rules[n]), rules, n + 1)
Through(p, c) == [After(p, Rules(c), 1) EXCEPT !.live = TRUE]

Flush(c) == <<[do |-> "flush", of |-> c]>>
Fill(r, c) ==
  [n \in 1..Len(Chains[r, Side(OwnHub, FallbackPath)][c]) |-> [do |-> "append", of |-> c]]
ReplaceRule(t) == <<[do |-> "del", of |-> t], [do |-> "add", of |-> t]>>
PolicyRules(r) ==
  Each(TablesOf[r] \ LinksOf[r], ReplaceRule) \o Each(LinksOf[r], ReplaceRule)
ReturnAffinity(r) == Flush("in") \o Flush("out") \o Fill(r, "in") \o Fill(r, "out")
NativeClassifier == <<[do |-> "kill", of |-> "classifier"], [do |-> "start", of |-> "classifier"]>>
Connmark == Flush("lan") \o Fill("spoke", "lan")
ClassifierChains == Flush("lan") \o Flush("in") \o Fill("v4", "lan") \o Fill("v4", "in")

SpokeDataplane == PolicyRules("spoke") \o ReturnAffinity("spoke") \o NativeClassifier \o Connmark
HubBackhaul == PolicyRules("hub") \o ReturnAffinity("hub")
CloudReturnAffinity == ReturnAffinity("gateway") \o PolicyRules("gateway")
Baseline == PolicyRules("v4") \o ClassifierChains
Installation == [spoke |-> SpokeDataplane, hub |-> HubBackhaul,
                 gateway |-> CloudReturnAffinity, v4 |-> Baseline]

(* The loop of version 4's _apply over its interfaces; one prefix stands    *)
(* for those of the connection.                                            *)
Refill(l) == <<[do |-> "wipe", of |-> l], [do |-> "route", of |-> l]>>
Reapply == Each(Slots, Refill)

Following(hub) == [p \in Path |-> Side(hub, p)]

(* The router has been installed once, with its own hub in the desired state. *)
Init ==
  /\ role \in Roles
  /\ intent = Side(OwnHub, FallbackPath) /\ wanted = intent
  /\ placed = [c \in {"in", "lan", "out"} |-> Len(Chains[role, intent][c])]
  /\ tables = TablesOf[role]
  /\ steered = Following(IF role = "v4" THEN "none" ELSE OwnHub)
  /\ program = <<>>
  /\ alive = (role \in {"spoke", "v4"})
  /\ conn = NoConn
  /\ changes = 0

(* The desired state names a hub for the slots: the slot tables follow it,  *)
(* and the intent of the connection's destination is marked with that hub,  *)
(* or with no hub when it leaves directly.                                  *)
Install ==
  /\ program = <<>> /\ changes < MaxChanges
  /\ changes' = changes + 1
  /\ program' = Installation[role]
  /\ \/ /\ role = "spoke"
        /\ \E mark \in Intents :
             /\ wanted' = mark
             /\ steered' = Following(IF mark.hub = "none" THEN OwnHub ELSE mark.hub)
     \/ role # "spoke" /\ UNCHANGED <<steered, wanted>>
  /\ UNCHANGED <<role, placed, intent, tables, alive, conn>>

(* Version 4 takes a newer desired state, under the actuator's lock.       *)
Reconcile ==
  /\ role = "v4" /\ program = <<>> /\ changes < MaxChanges
  /\ changes' = changes + 1
  /\ program' = Reapply
  /\ UNCHANGED <<role, placed, intent, tables, steered, wanted, alive, conn>>

(* A restarted classifier remembers no flow.                               *)
Forgotten == IF conn = NoConn THEN conn ELSE [conn EXCEPT !.active = "none"]

(* The next command of the installation.                                   *)
Issue ==
  /\ program # <<>>
  /\ program' = Tail(program)
  /\ LET c == Head(program) IN
     \/ /\ c.do = "flush"
        /\ placed' = [placed EXCEPT ![c.of] = 0]
        /\ intent' = IF c.of = "lan" THEN wanted ELSE intent
        /\ UNCHANGED <<tables, steered, alive, conn>>
     \/ /\ c.do = "append"
        /\ placed' = [placed EXCEPT ![c.of] = @ + 1]
        /\ UNCHANGED <<intent, tables, steered, alive, conn>>
     \/ /\ c.do \in {"del", "add"}
        /\ tables' = IF c.do = "del" THEN tables \ {c.of} ELSE tables \cup {c.of}
        /\ UNCHANGED <<placed, intent, steered, alive, conn>>
     \/ /\ c.do \in {"kill", "start"}
        /\ alive' = (c.do = "start") /\ conn' = Forgotten
        /\ UNCHANGED <<placed, intent, tables, steered>>
     \/ /\ c.do \in {"wipe", "route"}
        /\ steered' = [steered EXCEPT ![c.of.path] = IF c.do = "route" THEN c.of ELSE Empty]
        /\ UNCHANGED <<placed, intent, tables, alive, conn>>
  /\ UNCHANGED <<role, wanted, changes>>

(* A reconcile that fails is followed by one of the state before it, which  *)
(* may fail too.                                                           *)
CommandFails ==
  /\ program # <<>>
  /\ program' \in {<<>>} \cup {Reapply : c \in {Head(program).do} \cap {"wipe", "route"}}
  /\ wanted' = intent
  /\ UNCHANGED <<role, placed, intent, tables, steered, alive, conn, changes>>

(* Version 4 takes its chains away when the agent stops.                   *)
Cleanup ==
  /\ role = "v4" /\ program = <<>>
  /\ placed' = [placed EXCEPT !["in"] = 0, !["lan"] = 0]
  /\ UNCHANGED <<role, intent, tables, steered, wanted, program, alive, conn, changes>>

(* The classifier of version 4 has a supervisor; that of version 5 stays    *)
(* away until the next installation.                                        *)
ClassifierStops ==
  /\ alive /\ changes < MaxChanges
  /\ alive' = FALSE /\ conn' = Forgotten /\ changes' = changes + 1
  /\ UNCHANGED <<role, placed, intent, tables, steered, wanted, program>>

SupervisorStarts ==
  /\ role = "v4" /\ ~alive
  /\ alive' = TRUE
  /\ UNCHANGED <<role, placed, intent, tables, steered, wanted, program, conn, changes>>

(* The failover runtime of version 5 moves a slot table to an established   *)
(* tunnel.                                                                  *)
Steer(p, l) ==
  /\ role = "spoke" /\ l # steered[p] /\ changes < MaxChanges
  /\ changes' = changes + 1
  /\ steered' = [steered EXCEPT ![p] = l]
  /\ UNCHANGED <<role, placed, intent, tables, wanted, program, alive, conn>>

(* remap_slot of version 4, under the actuator's lock: an emergency, its end *)
(* or, with the slot's own tunnel, the rollback of one that failed.         *)
RemapSlot(p, q) ==
  /\ role = "v4" /\ program = <<>> /\ changes < MaxChanges
  /\ steered[p] # Side("none", q)
  /\ changes' = changes + 1
  /\ steered' = [steered EXCEPT ![p] = Side("none", q)]
  /\ UNCHANGED <<role, placed, intent, tables, wanted, program, alive, conn>>

-----------------------------------------------------------------------------
(* The packets of the connection.                                          *)

Whole ==
  /\ program = <<>> /\ tables = TablesOf[role]
  /\ \A p \in Path : steered[p] # Empty
  /\ \A c \in DOMAIN placed : placed[c] = Len(Chains[role, intent][c])

(* The rule of a tunnel's own table stands before that of a slot; an empty  *)
(* table is passed over.                                                    *)
Selected(mark) ==
  LET fits == {t \in tables : /\ t.hub \in {"none", mark.hub} /\ t.path \in {"none", mark.path}
                              /\ t \in Slots => steered[t.path] # Empty}
      own == {t \in fits : t.hub # "none"} IN
  CASE own # {} -> CHOOSE t \in own : TRUE
    [] own = {} /\ fits # {} -> CHOOSE t \in fits : TRUE
    [] OTHER -> Main

(* The first interface of a version 4 desired state.                       *)
FirstPath == CHOOSE p \in Path : TRUE

(* What the main table of a router does with traffic for its spokes.       *)
MainLink == CASE role = "hub" -> Side(OwnHub, FallbackPath)
              [] role = "gateway" -> Side(OwnHub, "none")
              [] role = "v4" -> Side("none", FirstPath)
              [] OTHER -> Side("none", "none")

Device(t) == CASE t = Main -> MainLink
               [] t \in Slots -> steered[t.path]
               [] OTHER -> t

Opened(from) ==
  [opener |-> from, mark |-> NoMark, active |-> "none", answered |-> FALSE,
   whole |-> Whole, via |-> from]
Lan == Side("none", "none")
Entry(from) == IF conn = NoConn THEN Opened(from) ELSE conn

Arriving(from, v) ==
  LET e == Entry(from) IN
  [mark |-> NoMark, ct |-> e.mark, active |-> e.active, from |-> from, to |-> Lan,
   verdict |-> v, live |-> TRUE,
   new |-> ~e.answered /\ (from = Lan <=> e.opener = Lan)]

Verdicts == [stage : {"provisional", "terminal"},
             path : IF role = "v4" THEN Path ELSE {"none"}]

Prerouted(from, v) ==
  IF from # Lan THEN Through(Arriving(from, v), "in")
  ELSE IF role = "v4" THEN Through(Arriving(from, v), "lan")
  ELSE Through(Through(Arriving(from, v), "in"), "lan")

Leaving(v) == LET p == Prerouted(Lan, v) IN [p EXCEPT !.to = Device(Selected(p.mark))]

Packet(from, v) ==
  /\ LET e == Entry(from)
         p == IF from = Lan THEN Through(Leaving(v), "out") ELSE Prerouted(from, v) IN
     conn' = [e EXCEPT !.mark = p.ct, !.active = p.active,
                       !.answered = @ \/ (from = Lan) # (e.opener = Lan),
                       !.via = IF conn = NoConn /\ from = Lan THEN p.to ELSE @]
  /\ UNCHANGED <<role, placed, intent, tables, steered, wanted, program, alive, changes>>

Ends ==
  /\ conn # NoConn
  /\ conn' = NoConn
  /\ UNCHANGED <<role, placed, intent, tables, steered, wanted, program, alive, changes>>

Next ==
  \/ Install \/ Reconcile \/ Issue \/ CommandFails \/ Cleanup \/ ClassifierStops \/ SupervisorStarts
  \/ \E p \in Path, h \in Hub, q \in Path : Steer(p, Side(h, q))
  \/ \E p, q \in Path : RemapSlot(p, q)
  \/ \E from \in Links \cup {Lan}, v \in Verdicts : Packet(from, v)
  \/ Ends

Spec == Init /\ [][Next]_vars

-----------------------------------------------------------------------------
(* A connection that a tunnel brought to a fully installed router is        *)
(* answered through that tunnel whenever the router is fully installed      *)
(* again, and one that the far side of a hub or gateway began stays on the  *)
(* tunnel its first packet took: whatever was rebuilt, aborted, remapped or *)
(* restarted in between ("Persist the ingress/egress path selected for      *)
(* every routed connection", edge_agent_v5.py:162).  A version 4 spoke      *)
(* pins the slot and not the tunnel (edge_agent_v4.py:200): in an emergency *)
(* of the slot the answers leave by the tunnel it was remapped to, and by   *)
(* their own again after it.                                                *)
Pinned == conn # NoConn /\ conn.whole /\ (conn.opener # Lan \/ role \in {"hub", "gateway"})

ReturnsWhereItCame ==
  Pinned /\ Whole =>
    \A v \in Verdicts :
      Leaving(v).to = IF role = "v4" THEN steered[conn.via.path] ELSE conn.via

(* What ARCHITECTURE.md:36 says of a remapped slot: existing and new flows  *)
(* of the slot follow it to the backup tunnel.                              *)
FollowsRemap ==
  role = "spoke" /\ Whole /\ conn # NoConn /\ conn.opener = Lan =>
    \A v \in Verdicts : Leaving(v).to = steered[Leaving(v).mark.path]
=============================================================================
