--------------------------- MODULE QuoteContract ----------------------------
(***************************************************************************)
(* What POST /pricing/quote promises, without the mutex, the cache, the    *)
(* evaluation and the audit log that PricingEngine has to keep the promise *)
(* with.  A quote is asked, its request is saved, one decision is made for *)
(* it and saved, and the client is answered with that decision; or it is   *)
(* answered straight away with a decision that is already on record for    *)
(* the same customer, product, quantity and channel; or it fails, at any   *)
(* point, with what it has saved left behind.  A decision on record is     *)
(* never changed.                                                          *)
(***************************************************************************)
EXTENDS Integers, TLC, FiniteSets, Functions, Maps

CONSTANTS
  Connections,
  Keyed          \* a request id can be saved only once

VARIABLES
  requests,      \* map: request id -> what was asked
  decisions,     \* map: decision id -> decision
  phase,         \* connection -> "idle", "asked", "saved" or "made"
  asked,         \* connection -> what its client asks
  answer,        \* connection -> the decision made or answered
  status         \* connection -> the status answered, 0 before

contractVars == <<requests, decisions, phase, asked, answer, status>>

\* What a question and its answer have in common, each part as often as it
\* occurs: a customer and a channel that exchange their names are the same.
Parts(name, sku, quantity, channel) ==
  LET parts == <<name, sku, ToString(quantity), channel>>
  IN  [p \in Range(parts) |-> Cardinality({i \in DOMAIN parts : parts[i] = p})]

SameParts(d, a) ==
  Parts(d.customer.name, d.sku, d.quantity, d.channel)
    = Parts(a.customer, a.sku, a.quantity, a.channel)

\* The decision d is the one to make for what a asks.
DecisionFor(d, a) ==
  /\ d.requestId = a.id /\ d.tenant = a.tenant
  /\ d.customer = [hashed |-> TRUE, name |-> a.customer]
  /\ d.sku = a.sku /\ d.quantity = a.quantity /\ d.channel = a.channel

Enter(q, label) == phase' = [phase EXCEPT ![q] = label]

\* Only what connection q shows its client changes.
Shows(q, d, code) ==
  /\ answer' = [answer EXCEPT ![q] = d]
  /\ status' = [status EXCEPT ![q] = code]

Ask(q) ==
  /\ phase[q] = "idle"
  /\ Enter(q, "asked")
  /\ asked' = [asked EXCEPT ![q] = asked'[q]]
  /\ Shows(q, answer'[q], 0)
  /\ UNCHANGED <<requests, decisions>>

\* Bad input is refused before anything is asked.
Refuse(q) ==
  /\ phase[q] = "idle"
  /\ asked' = [asked EXCEPT ![q] = asked'[q]]
  /\ Shows(q, answer'[q], 400)
  /\ UNCHANGED <<requests, decisions, phase>>

Insert(q) ==
  /\ phase[q] = "asked"
  /\ Keyed => asked[q].id \notin DOMAIN requests
  /\ requests' = MapPut(requests, asked[q].id, asked[q])

Save(q) ==
  /\ Insert(q)
  /\ Enter(q, "saved")
  /\ UNCHANGED <<decisions, asked, answer, status>>

\* A decision under an id of its own, for a request that was saved.
Record(q, d) ==
  /\ phase[q] = "saved"
  /\ DecisionFor(d, asked[q])
  /\ asked[q].id \in DOMAIN requests
  /\ d.id \notin DOMAIN decisions
  /\ decisions' = MapPut(decisions, d.id, d)

Decide(q) ==
  /\ Record(q, answer'[q])
  /\ Enter(q, "made")
  /\ Shows(q, answer'[q], 0)
  /\ UNCHANGED <<requests, asked>>

\* The handler returns.
Return(q, d, code) ==
  /\ Enter(q, "idle")
  /\ Shows(q, d, code)
  /\ UNCHANGED asked

Answer(q) ==
  /\ phase[q] = "made"
  /\ Return(q, answer[q], 200)
  /\ UNCHANGED <<requests, decisions>>

\* Answered with a decision made before, for this client or another.
AnswerFromRecord(q) ==
  /\ phase[q] = "asked"
  /\ Return(q, answer'[q], 200)
  /\ answer'[q].id \in DOMAIN decisions
  /\ decisions[answer'[q].id] = answer'[q]
  /\ SameParts(answer'[q], asked[q])
  /\ UNCHANGED <<requests, decisions>>

\* An error: the row that was being saved may have been saved.
Fail(q) ==
  /\ phase[q] \in {"asked", "saved"}
  /\ status'[q] \in {404, 500}
  /\ Return(q, answer'[q], status'[q])
  /\ \/ UNCHANGED <<requests, decisions>>
     \/ Insert(q) /\ UNCHANGED decisions
     \/ /\ \E i \in DOMAIN decisions' : Record(q, decisions'[i])
        /\ UNCHANGED requests

\* Every connection is lost, and nothing that was saved.
Restart ==
  /\ phase' = [q \in Connections |-> "idle"]
  /\ status' = [q \in Connections |-> 0]
  /\ UNCHANGED <<requests, decisions>>

Init ==
  /\ requests = EmptyMap /\ decisions = EmptyMap
  /\ phase = [q \in Connections |-> "idle"]
  /\ status = [q \in Connections |-> 0]

Next ==
  \/ \E q \in Connections :
       \/ Ask(q) \/ Refuse(q) \/ Save(q) \/ Decide(q)
       \/ Answer(q) \/ AnswerFromRecord(q) \/ Fail(q)
  \/ Restart

Spec == Init /\ [][Next]_contractVars

=============================================================================
