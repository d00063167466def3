--------------------------- MODULE EvidenceBundle ---------------------------
(***************************************************************************)
(* How a chat message comes to its answer: at most two attempts of an      *)
(* agent, the MCP server of each attempt, which appends what its tools      *)
(* return to the message's evidence bundle, and the verdict on the final    *)
(* text.  Every message has a bundle, a task and servers of its own.  The   *)
(* servers are processes that may outlive their attempt, and they append    *)
(* by reading the bundle in one statement and writing it in another.        *)
(***************************************************************************)
EXTENDS Naturals

CONSTANTS
  Tool,         \* the MCP tools; a server calls each at most once (a bound)
  Kind,         \* fact kinds
  Yields,       \* the fact kinds of a tool's payload
  ClaimType,    \* the claim types of an answer
  CompletePath, \* those that must show all their evidence
  Compatible    \* the fact kinds that support a claim type

BundleAssumption ==
  /\ Yields \in [Tool -> SUBSET Kind]
  /\ CompletePath \subseteq ClaimType
  /\ Compatible \in [ClaimType -> SUBSET Kind]

VARIABLES
  step,      \* of the task
  attempt,   \* the attempt it is at
  outcome,   \* its verdict: what was claimed and shown, and what had been gathered
  facts,     \* the facts of the bundle
  verdict,   \* the validation stored with the bundle, "open" until finalized
  server,    \* of each attempt: whether it runs, and the append it is in
  gathered,  \* history: all facts that tools stored
  raced      \* history: an append overwrote what had been stored since it read

bundleVars == <<step, attempt, outcome, facts, verdict, server, gathered, raced>>

Attempt == 1..2

(* A fact has a fresh identifier: it stands for its attempt, tool and kind. *)
Fact == [attempt : Attempt, tool : Tool, kind : Kind]

NoOutcome == [valid |-> FALSE, claimed |-> {}, shown |-> {}, known |-> {}]
Unstarted == [up |-> FALSE, storing |-> {}, read |-> {}, called |-> {}]

BundleInit ==
  /\ step = "agent" /\ attempt = 1 /\ outcome = NoOutcome
  /\ facts = {} /\ verdict = "open"
  /\ server = [a \in Attempt |-> Unstarted]
  /\ gathered = {} /\ raced = FALSE

-----------------------------------------------------------------------------
(* The server starts with its attempt; without a valid context it does not. *)
StartServer(a) ==
  /\ step = "agent" /\ attempt = a
  /\ server[a] = Unstarted
  /\ server' = [server EXCEPT ![a].up = TRUE]
  /\ UNCHANGED <<step, attempt, outcome, facts, verdict, gathered, raced>>

(* The facts of a result: one for each field of the payload.               *)
Results(a, tool) == [attempt : {a}, tool : {tool}, kind : Yields[tool]]

(* A tool was called and its result is to be stored: the bundle is read.   *)
(* Once it is finalized, nothing is stored.                                *)
ReadBundle(a) ==
  /\ server[a].up /\ server[a].storing = {}
  /\ verdict = "open"
  /\ \E tool \in Tool \ server[a].called :
       server' = [server EXCEPT ![a] = [up |-> TRUE, storing |-> {tool}, read |-> facts,
                                        called |-> server[a].called \cup {tool}]]
  /\ UNCHANGED <<step, attempt, outcome, facts, verdict, gathered, raced>>

(* What was read is written back with the new facts, whatever the bundle   *)
(* holds by now.                                                           *)
WriteBundle(a) ==
  /\ \E tool \in server[a].storing :
       /\ facts' = server[a].read \cup Results(a, tool)
       /\ gathered' = gathered \cup Results(a, tool)
  /\ raced' = (raced \/ facts # server[a].read)
  /\ server' = [server EXCEPT ![a].storing = {}, ![a].read = {}]
  /\ UNCHANGED <<step, attempt, outcome, verdict>>

(* The server of an attempt that is over ends, if need be within a call.   *)
StopServer(a) ==
  /\ server[a].up
  /\ step # "agent" \/ attempt # a
  /\ server' = [server EXCEPT ![a] = [Unstarted EXCEPT !.called = Tool]]
  /\ UNCHANGED <<step, attempt, outcome, facts, verdict, gathered, raced>>

-----------------------------------------------------------------------------
(* The agent ends, or is terminated for its time or its output, with a     *)
(* final text or without: then the first attempt is followed by another.   *)
EndAttempt ==
  /\ step = "agent"
  /\ \/ step' = "answered" /\ attempt' = attempt
     \/ attempt = 1 /\ attempt' = 2 /\ step' = step
  /\ UNCHANGED <<outcome, facts, verdict, server, gathered, raced>>

(* An exception ends the task, and leaves the agent running: a line of its *)
(* output longer than the reader takes, or a database that stays locked.   *)
GatewayFails ==
  /\ step # "done"
  /\ step' = "done"
  /\ UNCHANGED <<attempt, outcome, facts, verdict, server, gathered, raced>>

(* The facts that can support a claim, and those that it is judged by: a   *)
(* claim about a complete path is given all of them, whatever it cites.    *)
Supports(type, known) == {f \in known : f.kind \in Compatible[type]}

EvidenceAsCited(claim, known) == claim.cites \* mutant

Evidence(claim, known) ==
  IF claim.type \in CompletePath THEN Supports(claim.type, known) ELSE claim.cites

(* validate: a conceptual answer claims nothing, any other one something,  *)
(* and every claim has evidence, all of it known and of compatible kinds.  *)
Valid(answer, known) ==
  /\ answer.conceptual => answer.claims = {}
  /\ ~answer.conceptual => answer.claims # {} /\ known # {}
  /\ \A claim \in answer.claims :
       /\ Evidence(claim, known) # {}
       /\ Evidence(claim, known) \subseteq Supports(claim.type, known)

Judgement(answer, known) ==
  IF Valid(answer, known)
  THEN [valid |-> TRUE,
        claimed |-> {claim.type : claim \in answer.claims},
        shown |-> UNION {Evidence(claim, known) : claim \in answer.claims},
        known |-> gathered]
  ELSE NoOutcome

(* What a text may say: any claims, here at most two, that cite any facts, *)
(* here at most one each, whether a tool returned them or not.  No text,   *)
(* or one that is no answer, is judged as an answer without claims.        *)
AtMostTwo(S) == {{}} \cup {{x, y} : x \in S, y \in S}
Claim == [type : ClaimType, cites : {{}} \cup {{f} : f \in Fact}]
Answer == [conceptual : BOOLEAN, claims : AtMostTwo(Claim)]

(* validate_final: the bundle is read and the text judged.                 *)
Judge ==
  /\ step = "answered"
  /\ \E answer \in Answer : outcome' = Judgement(answer, facts)
  /\ step' = "judged"
  /\ UNCHANGED <<attempt, facts, verdict, server, gathered, raced>>

(* The verdict is stored, and the answer rendered from the bundle as it    *)
(* was read.                                                               *)
Finalize ==
  /\ step = "judged"
  /\ step' = "done"
  /\ verdict' = IF outcome.valid THEN "valid" ELSE "rejected"
  /\ UNCHANGED <<attempt, outcome, facts, server, gathered, raced>>

BundleNext ==
  \/ EndAttempt \/ GatewayFails \/ Judge \/ Finalize
  \/ \E a \in Attempt : StartServer(a) \/ ReadBundle(a) \/ WriteBundle(a) \/ StopServer(a)

BundleSpec == BundleInit /\ [][BundleNext]_bundleVars

-----------------------------------------------------------------------------
BundleTypeOK ==
  /\ step \in {"agent", "answered", "judged", "done"}
  /\ attempt \in Attempt
  /\ outcome \in [valid : BOOLEAN, claimed : SUBSET ClaimType,
                  shown : SUBSET Fact, known : SUBSET Fact]
  /\ facts \subseteq Fact
  /\ verdict \in {"open", "valid", "rejected"}
  /\ server \in [Attempt -> [up : BOOLEAN, storing : SUBSET Tool,
                             read : SUBSET Fact, called : SUBSET Tool]]
  /\ gathered \subseteq Fact
  /\ raced \in BOOLEAN

(* A verified answer shows only facts that tool calls had stored before it *)
(* was judged, each of a kind that one of its claims allows; an answer     *)
(* about a path shows all such facts, unless the server of an attempt that *)
(* was given up appended together with its successor's, and one of the two *)
(* lost what the other had added.                                          *)
ShownAsGathered ==
  outcome.valid =>
    /\ \A f \in outcome.shown :
         f \in outcome.known /\ \E type \in outcome.claimed : f.kind \in Compatible[type]
    /\ ~raced => \A type \in outcome.claimed \cap CompletePath :
                   Supports(type, outcome.known) \subseteq outcome.shown

(* A finalized bundle keeps its verdict, and its facts too unless a call   *)
(* that read it earlier is still to write; after that it never changes.    *)
Settled == verdict # "open" /\ \A a \in Attempt : server[a].storing = {}

VerdictStands ==
  [][/\ verdict # "open" => verdict' = verdict
     /\ Settled => Settled' /\ facts' = facts]_bundleVars
=============================================================================
