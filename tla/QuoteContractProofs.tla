------------------------ MODULE QuoteContractProofs -------------------------
(***************************************************************************)
(* The engine keeps QuoteContract, for any number of connections and any   *)
(* catalog, promotions, cache and bounds: every step of a handler is one   *)
(* step of the contract or changes nothing it speaks of.                   *)
(***************************************************************************)
EXTENDS PricingEngineProofs

-----------------------------------------------------------------------------
\* The strengthening that the contract needs: a decision that has been made
\* is the one for its handler's request, and a cached one has the parts of
\* its key.

FitsRequest(d, r) ==
  /\ d.customer = [hashed |-> TRUE, name |-> r.customer]
  /\ d.sku = r.sku /\ d.quantity = r.quantity /\ d.channel = r.channel

PartsOf(d) == Contract!Parts(d.customer.name, d.sku, d.quantity, d.channel)

MadeForRequest ==
  \A q \in Quoters :
    pc[q] \in {"put", "audit"} => FitsRequest(frame[q].decision, frame[q].req)

CacheFits == \A k \in DOMAIN entries : PartsOf(entries[k].decision) = k.parts

FittingInv == MadeForRequest /\ CacheFits

LEMMA KeyParts ==
  ASSUME NEW r
  PROVE  CacheKey(r).parts = Contract!Parts(r.customer, r.sku, r.quantity, r.channel)
BY DEF CacheKey, Contract!Parts, Range, Contract!Range, Cardinality, Contract!Cardinality

LEMMA FittingParts ==
  ASSUME NEW d, NEW r, FitsRequest(d, r)
  PROVE  PartsOf(d) = CacheKey(r).parts
BY KeyParts DEF FitsRequest, PartsOf

LEMMA DecisionFits ==
  ASSUME NEW f, NEW n
  PROVE  FitsRequest(InteractiveDecision(f, n), f.req)
BY DEF InteractiveDecision, DecisionOf, FitsRequest

LEMMA CacheFitsStep ==
  ASSUME FittingInv, [Next]_vars
  PROVE  CacheFits'
<1>1. \A k \in DOMAIN entries : PartsOf(entries[k].decision) = k.parts
  BY DEF FittingInv, CacheFits
<1>2. CASE entries' = entries
  BY <1>1, <1>2 DEF CacheFits
<1>3. CASE entries' = EmptyMap
  BY <1>3 DEF CacheFits, EmptyMap
<1>4. ASSUME NEW q \in Quoters, PutCache(q) PROVE CacheFits'
  <2> DEFINE d == frame[q].decision
             key == CacheKey(frame[q].req)
  <2>1. pc[q] = "put"
    BY <1>4 DEF PutCache, At
  <2>2. PartsOf(d) = key.parts
    BY <2>1, FittingParts DEF FittingInv, MadeForRequest
  <2>3. Cache!Put(key, d)
    BY <1>4 DEF PutCache
  <2>4. Cache!NewEntry(d).decision = d
    BY DEF Cache!NewEntry
  <2> HIDE DEF key, d
  <2>5. \A k \in DOMAIN entries' :
          \/ k = key /\ entries'[k] = Cache!NewEntry(d)
          \/ k \in DOMAIN entries /\ entries'[k] = entries[k]
    <3>1. CASE disabled
      BY <2>3, <3>1 DEF Cache!Put
    <3>2. CASE ~disabled
      <4>1. PICK kept \in Cache!Survivors :
              entries' = Cache!MapPut(Cache!MapKeep(entries, kept), key, Cache!NewEntry(d))
        BY <2>3, <3>2 DEF Cache!Put
      <4>2. QED
        BY <4>1 DEF Cache!MapPut, Cache!MapKeep
    <3>3. QED
      BY <3>1, <3>2
  <2>6. QED
    BY <1>1, <2>2, <2>4, <2>5 DEF CacheFits
<1>5. QED
  BY <1>2, <1>3, <1>4, EntriesEffect

\* Only these leave a handler with a decision made.
LEMMA MadeByStep ==
  ASSUME HandlersTypeOK, NEW q \in Quoters,
         ReceiveQuote(q) \/ Lock(q) \/ Step(q) \/ StoreFails(q),
         ~StoreDecision(q), ~PutCache(q)
  PROVE  pc'[q] \notin {"put", "audit"}
<1>1. \A label : Goto(q, label) => pc'[q] = label
  BY DEF Goto, HandlersTypeOK
<1>2. \A status, d : Respond(q, status, d) => pc'[q] = "idle"
  BY <1>1 DEF Respond
<1>3. \A status : Fail(q, status) => pc'[q] = "idle"
  BY <1>2 DEF Fail
<1>4. CASE ReceiveQuote(q) \/ Lock(q)
  BY <1>1, <1>4 DEF ReceiveQuote, Lock, At
<1>5. CASE ReadConfig(q) \/ CacheGet(q) \/ StoreRequest(q)
  BY <1>1, <1>2, <1>3, <1>5 DEF ReadConfig, CacheGet, StoreRequest
<1>6. CASE Lookup(q)
  <2>1. Fail(q, 404) \/ Goto(q, "select")
    BY <1>6 DEF Lookup
  <2>2. QED
    BY <1>1, <1>3, <2>1
<1>7. CASE Select(q) \/ LoadNextConditions(q) \/ Resolve(q) \/ ApplyNext(q)
  BY <1>1, <1>7 DEF Select, LoadNextConditions, Resolve, ApplyNext, At
<1>8. CASE Audit(q) \/ StoreFails(q)
  BY <1>2, <1>3, <1>8
  DEF Audit, StoreFails, ReadFails, RequestFails, DecisionFails, AuditFails
<1>9. QED
  BY <1>4, <1>5, <1>6, <1>7, <1>8 DEF Step

LEMMA MadeForRequestStep ==
  ASSUME TypeOK, FittingInv, [Next]_vars
  PROVE  MadeForRequest'
<1>1. HandlersTypeOK /\ MadeForRequest
  BY DEF TypeOK, FittingInv
<1>2. ASSUME NEW q \in Quoters,
             ReceiveQuote(q) \/ Lock(q) \/ Step(q) \/ StoreFails(q)
      PROVE  MadeForRequest'
  <2>1. \A p \in Quoters \ {q} : pc'[p] = pc[p] /\ frame'[p] = frame[p]
    BY <1>1, <1>2, StepsAreLocal, LocalOthers
  <2>2. pc'[q] \in {"put", "audit"} => FitsRequest(frame'[q].decision, frame'[q].req)
    <3>1. CASE StoreDecision(q)
      <4>1. PICK d : /\ d = InteractiveDecision(frame[q], uuid)
                     /\ SetFrame(q, [frame[q] EXCEPT !.decision = d])
        BY <3>1 DEF StoreDecision
      <4>2. frame'[q].decision = d /\ frame'[q].req = frame[q].req
        BY <1>1, <4>1 DEF SetFrame, HandlersTypeOK, Frame
      <4>3. QED
        BY <4>1, <4>2, DecisionFits
    <3>2. CASE PutCache(q)
      BY <1>1, <3>2 DEF PutCache, At, MadeForRequest
    <3>3. CASE ~StoreDecision(q) /\ ~PutCache(q)
      BY <1>1, <1>2, <3>3, MadeByStep
    <3>4. QED
      BY <3>1, <3>2, <3>3
  <2>3. QED
    BY <1>1, <2>1, <2>2 DEF MadeForRequest, FitsRequest
<1>3. CASE Crash
  BY <1>3 DEF Crash, MadeForRequest
<1>4. CASE ActivateConfig \/ ReplacePromotion \/ Tick \/ Idle \/ UNCHANGED vars
  <2>1. UNCHANGED <<pc, frame>>
    BY <1>4 DEF ActivateConfig, ReplacePromotion, Tick, Idle, vars, engineVars
  <2>2. QED
    BY <1>1, <2>1 DEF MadeForRequest, FitsRequest
<1>5. QED
  BY <1>2, <1>3, <1>4 DEF Next, UndisturbedNext

LEMMA Fitting == Spec => []FittingInv
<1>1. Init => FittingInv
  BY DEF Init, FittingInv, MadeForRequest, CacheFits, Cache!CacheInit, Cache!EmptyMap
<1>2. TypeOK /\ FittingInv /\ [Next]_vars => FittingInv'
  BY MadeForRequestStep, CacheFitsStep DEF FittingInv
<1>3. QED
  BY <1>1, <1>2, Typing, PTL DEF Spec

-----------------------------------------------------------------------------
\* What a handler's step looks like from the contract.

LEMMA AsAskedTyped ==
  ASSUME NEW r \in Request
  PROVE  /\ AsAsked(r).id = r.id /\ AsAsked(r).tenant = r.tenant
         /\ AsAsked(r).customer = r.customer /\ AsAsked(r).sku = r.sku
         /\ AsAsked(r).quantity = r.quantity /\ AsAsked(r).channel = r.channel
BY DEF AsAsked, Request

LEMMA NextPhases == Phases' = [q \in Quoters |-> PhaseOf(pc'[q])]
BY DEF Phases, PhaseOf

\* The step moves connection q to its new phase, and shows what its frame has.
LEMMA View ==
  ASSUME HandlersTypeOK, NEW q \in Quoters, Local(q)
  PROVE  /\ Contract!Enter(q, PhaseOf(pc'[q]))
         /\ Contract!Shows(q, frame'[q].decision, frame'[q].status)
         /\ Asked' = [Asked EXCEPT ![q] = AsAsked(frame'[q].req)]
         /\ Phases[q] = PhaseOf(pc[q]) /\ Asked[q] = AsAsked(frame[q].req)
         /\ Shown[q] = frame[q].decision
         /\ Asked'[q] = AsAsked(frame'[q].req) /\ Shown'[q] = frame'[q].decision
         /\ Statuses'[q] = frame'[q].status
<1>1. \A p \in Quoters : p # q => pc'[p] = pc[p] /\ frame'[p] = frame[p]
  BY LocalOthers
<1>2. Contract!Enter(q, PhaseOf(pc'[q]))
  BY <1>1, NextPhases DEF Contract!Enter, Phases
<1>3. Contract!Shows(q, frame'[q].decision, frame'[q].status)
  BY <1>1 DEF Contract!Shows, Shown, Statuses
<1>4. Asked' = [Asked EXCEPT ![q] = AsAsked(frame'[q].req)]
  BY <1>1 DEF Asked, AsAsked
<1>5. QED
  BY <1>2, <1>3, <1>4 DEF Phases, Asked, AsAsked, Shown, Statuses

TablesKept == UNCHANGED <<pricingRequests, pricingDecisions>>

LEMMA KeptTables ==
  ASSUME TablesKept
  PROVE  UNCHANGED <<Requested, pricingDecisions>>
BY DEF TablesKept, Requested, AsAsked

\* A handler that goes on within its phase.
LEMMA Stutters ==
  ASSUME HandlersTypeOK, NEW q \in Quoters, Local(q), TablesKept,
         PhaseOf(pc'[q]) = PhaseOf(pc[q]),
         AsAsked(frame'[q].req) = AsAsked(frame[q].req),
         frame'[q].decision = frame[q].decision,
         frame'[q].status = frame[q].status
  PROVE  UNCHANGED Contract!contractVars
<1>1. \A p \in Quoters : p # q => pc'[p] = pc[p] /\ frame'[p] = frame[p]
  BY LocalOthers
<1>2. Phases' = Phases
  BY <1>1, NextPhases DEF Phases
<1>3. Asked' = Asked
  BY <1>1 DEF Asked, AsAsked
<1>4. Shown' = Shown /\ Statuses' = Statuses
  BY <1>1 DEF Shown, Statuses
<1>5. QED
  BY <1>2, <1>3, <1>4, KeptTables DEF Contract!contractVars

\* A handler that returns.
LEMMA RespondReturns ==
  ASSUME HandlersTypeOK, NEW q \in Quoters, NEW status, NEW d, Respond(q, status, d)
  PROVE  /\ Contract!Return(q, d, status)
         /\ Shown'[q] = d /\ Statuses'[q] = status
<1>1. pc'[q] = "idle" /\ frame'[q] = Answered(frame[q], status, d)
  BY DEF Respond, Goto, SetFrame, HandlersTypeOK
<1>2. /\ frame'[q].req = frame[q].req
      /\ frame'[q].decision = d /\ frame'[q].status = status
  BY <1>1 DEF Answered, EmptyFrame
<1>3. Local(q)
  BY DEF Respond, Local
<1>4. PhaseOf(pc'[q]) = "idle"
  BY <1>1 DEF PhaseOf
<1>5. /\ Contract!Enter(q, "idle") /\ Contract!Shows(q, d, status)
      /\ Asked' = [Asked EXCEPT ![q] = Asked[q]]
      /\ Shown'[q] = d /\ Statuses'[q] = status
  BY <1>2, <1>3, <1>4, View
<1>6. Asked' = Asked
  BY <1>5 DEF Asked
<1>7. QED
  BY <1>5, <1>6 DEF Contract!Return

LEMMA FailIsFail ==
  ASSUME HandlersTypeOK, NEW q \in Quoters, NEW status \in {404, 500},
         Fail(q, status), PhaseOf(pc[q]) \in {"asked", "saved"},
         \/ UNCHANGED <<Requested, pricingDecisions>>
         \/ Contract!Insert(q) /\ UNCHANGED pricingDecisions
         \/ /\ \E i \in DOMAIN pricingDecisions' :
                 Contract!Record(q, pricingDecisions'[i])
            /\ UNCHANGED Requested
  PROVE  Contract!Fail(q)
<1>1. /\ Contract!Return(q, NoDecision, status)
      /\ Shown'[q] = NoDecision /\ Statuses'[q] = status
  BY RespondReturns DEF Fail
<1>2. Phases[q] = PhaseOf(pc[q])
  BY DEF Phases
<1>3. QED
  BY <1>1, <1>2 DEF Contract!Fail

\* The request's row, as the contract sees it.
LEMMA SaveIsInsert ==
  ASSUME TypeOK, NEW q \in Quoters, pc[q] = "request",
         Insertable(pricingRequests, frame[q].req.id), SaveRequest(frame[q].req)
  PROVE  Contract!Insert(q) /\ UNCHANGED pricingDecisions
<1> DEFINE r == frame[q].req
<1>1. r \in Request
  BY DEF TypeOK, HandlersTypeOK, Frame
<1>2. Phases[q] = "asked" /\ Asked[q] = AsAsked(r)
  BY DEF Phases, PhaseOf, Asked
<1>3. pricingRequests' = MapPut(pricingRequests, r.id, r)
  BY DEF SaveRequest
<1>4. AsAsked(r).id = r.id
  BY <1>1, AsAskedTyped
<1> HIDE DEF r
<1>5. Requested' = Contract!MapPut(Requested, r.id, AsAsked(r))
  BY <1>3 DEF Requested, MapPut, Contract!MapPut, AsAsked
<1>6. Backend = "postgres" => r.id \notin DOMAIN Requested
  BY DEF Insertable, Requested, r
<1>7. QED
  BY <1>2, <1>4, <1>5, <1>6 DEF Contract!Insert, SaveRequest

\* The decision's row.
LEMMA SaveIsRecord ==
  ASSUME TypeOK, PersistenceInv, NEW q \in Quoters, pc[q] = "apply",
         SaveDecision(InteractiveDecision(frame[q], uuid))
  PROVE  /\ Contract!Record(q, InteractiveDecision(frame[q], uuid))
         /\ UNCHANGED Requested
         /\ \E i \in DOMAIN pricingDecisions' :
              pricingDecisions'[i] = InteractiveDecision(frame[q], uuid)
<1> DEFINE r == frame[q].req
           d == InteractiveDecision(frame[q], uuid)
<1>1. r \in Request
  BY DEF TypeOK, HandlersTypeOK, Frame
<1>2. Phases[q] = "saved" /\ Asked[q] = AsAsked(r)
  BY DEF Phases, PhaseOf, Asked
<1>3. Contract!DecisionFor(d, AsAsked(r))
  BY <1>1, AsAskedTyped DEF Contract!DecisionFor, InteractiveDecision, DecisionOf
<1>4. AsAsked(r).id \in DOMAIN Requested
  BY <1>1, AsAskedTyped DEF PersistenceInv, HandlerOK, PastRequest, Requested
<1>5. d.id \notin DOMAIN pricingDecisions
  <2>1. d.id = [mode |-> "interactive", n |-> uuid]
    BY IdOfDecision
  <2>2. uuid \in Nat
    BY DEF TypeOK, HandlersTypeOK
  <2>3. QED
    BY <2>1, <2>2 DEF PersistenceInv, Fresh
<1>6. pricingDecisions' = MapPut(pricingDecisions, d.id, d)
  BY DEF SaveDecision
<1>7. UNCHANGED Requested
  BY DEF SaveDecision, Requested, AsAsked
<1> HIDE DEF d
<1>8. pricingDecisions' = Contract!MapPut(pricingDecisions, d.id, d)
  BY <1>6 DEF MapPut, Contract!MapPut
<1>9. d.id \in DOMAIN pricingDecisions' /\ pricingDecisions'[d.id] = d
  BY <1>6 DEF MapPut
<1>10. QED
  BY <1>2, <1>3, <1>4, <1>5, <1>7, <1>8, <1>9 DEF Contract!Record, d

-----------------------------------------------------------------------------
\* Every step of the engine is a step of the contract or a stutter.

ContractStep(q) ==
  \/ Contract!Ask(q) \/ Contract!Refuse(q) \/ Contract!Save(q)
  \/ Contract!Decide(q) \/ Contract!Answer(q) \/ Contract!AnswerFromRecord(q)
  \/ Contract!Fail(q) \/ UNCHANGED Contract!contractVars

LEMMA ReceiveRefines ==
  ASSUME TypeOK, NEW q \in Quoters, ReceiveQuote(q)
  PROVE  ContractStep(q)
<1>1. HandlersTypeOK /\ Local(q) /\ pc[q] = "idle" /\ TablesKept
  BY StepsAreLocal DEF TypeOK, ReceiveQuote, At, storeVars, TablesKept
<1>2. Phases[q] = "idle" /\ UNCHANGED <<Requested, pricingDecisions>>
  BY <1>1, KeptTables DEF Phases, PhaseOf
<1>3. PICK r : \/ /\ SetFrame(q, [EmptyFrame EXCEPT !.req = r])
                  /\ Goto(q, "lock")
               \/ /\ SetFrame(q, Answered([EmptyFrame EXCEPT !.req = r], 400, NoDecision))
                  /\ pc' = pc
  BY DEF ReceiveQuote
<1>4. CASE SetFrame(q, [EmptyFrame EXCEPT !.req = r]) /\ Goto(q, "lock")
  <2>1. frame'[q].status = 0 /\ pc'[q] = "lock"
    BY <1>1, <1>4 DEF SetFrame, Goto, HandlersTypeOK, EmptyFrame
  <2>2. PhaseOf(pc'[q]) = "asked"
    BY <2>1 DEF PhaseOf
  <2>3. Contract!Ask(q)
    BY <1>1, <1>2, <2>1, <2>2, View DEF Contract!Ask
  <2>4. QED
    BY <2>3 DEF ContractStep
<1>5. CASE /\ SetFrame(q, Answered([EmptyFrame EXCEPT !.req = r], 400, NoDecision))
           /\ pc' = pc
  <2>1. frame'[q].status = 400
    BY <1>1, <1>5 DEF SetFrame, Answered, HandlersTypeOK, EmptyFrame
  <2>2. Phases' = Phases
    BY <1>5, NextPhases DEF Phases
  <2>3. Contract!Refuse(q)
    BY <1>1, <1>2, <2>1, <2>2, View DEF Contract!Refuse
  <2>4. QED
    BY <2>3 DEF ContractStep
<1>6. QED
  BY <1>3, <1>4, <1>5

\* Steps that read, wait or compute, and the ones that a read ends.
LEMMA QuietRefines ==
  ASSUME TypeOK, NEW q \in Quoters,
         \/ Lock(q) \/ ReadConfig(q) \/ Lookup(q) \/ Select(q)
         \/ LoadNextConditions(q) \/ Resolve(q) \/ ApplyNext(q)
         \/ PutCache(q) \/ ReadFails(q)
  PROVE  ContractStep(q)
<1>1. HandlersTypeOK /\ frame[q] \in Frame
  BY DEF TypeOK, HandlersTypeOK
<1>2. Local(q)
  BY StepsAreLocal DEF Step, StoreFails
<1>3. UNCHANGED storeVars
  BY DEF Lock, ReadConfig, Lookup, Select, LoadNextConditions, Resolve,
         ApplyNext, PutCache, ReadFails
<1>4. TablesKept
  BY <1>3 DEF storeVars, TablesKept
<1>5. ASSUME NEW status \in {404, 500}, Fail(q, status),
             PhaseOf(pc[q]) \in {"asked", "saved"}
      PROVE  ContractStep(q)
  BY <1>1, <1>4, <1>5, KeptTables, FailIsFail DEF ContractStep
<1>6. ASSUME PhaseOf(pc'[q]) = PhaseOf(pc[q]),
             AsAsked(frame'[q].req) = AsAsked(frame[q].req),
             frame'[q].decision = frame[q].decision,
             frame'[q].status = frame[q].status
      PROVE  ContractStep(q)
  BY <1>1, <1>2, <1>4, <1>6, Stutters DEF ContractStep
<1>7. \A f, label : SetFrame(q, f) /\ Goto(q, label) => frame'[q] = f /\ pc'[q] = label
  BY <1>1 DEF HandlersTypeOK, SetFrame, Goto
<1>8. CASE Lock(q)
  <2>1. /\ pc[q] = "lock" /\ pc'[q] = "config"
        /\ frame'[q] = [frame[q] EXCEPT
                          !.req.at = IF frame[q].req.at = 0 THEN now ELSE frame[q].req.at]
    BY <1>7, <1>8 DEF Lock, At
  <2>2. AsAsked(frame'[q].req) = AsAsked(frame[q].req)
    BY <1>1, <2>1 DEF AsAsked, Frame, Request
  <2>3. frame'[q].decision = frame[q].decision /\ frame'[q].status = frame[q].status
    BY <1>1, <2>1 DEF Frame
  <2>4. PhaseOf(pc'[q]) = PhaseOf(pc[q])
    BY <2>1 DEF PhaseOf
  <2>5. QED
    BY <1>6, <2>2, <2>3, <2>4
<1>9. CASE ReadConfig(q)
  <2>1. pc[q] = "config"
    BY <1>9 DEF ReadConfig, At
  <2>2. CASE Fail(q, 500)
    BY <1>5, <2>1, <2>2 DEF PhaseOf
  <2>3. CASE SetFrame(q, [frame[q] EXCEPT
                            !.config = activeConfig[frame[q].req.tenant]])
             /\ Goto(q, "cache")
    <3>1. /\ frame'[q].req = frame[q].req /\ frame'[q].decision = frame[q].decision
          /\ frame'[q].status = frame[q].status /\ pc'[q] = "cache"
      BY <1>1, <1>7, <2>3 DEF Frame
    <3>2. PhaseOf(pc'[q]) = PhaseOf(pc[q])
      BY <2>1, <3>1 DEF PhaseOf
    <3>3. QED
      BY <1>6, <3>1, <3>2
  <2>4. QED
    BY <1>9, <2>2, <2>3 DEF ReadConfig
<1>10. CASE Lookup(q)
  <2>1. pc[q] = "lookup"
    BY <1>10 DEF Lookup, At
  <2>2. CASE Fail(q, 404)
    BY <1>5, <2>1, <2>2 DEF PhaseOf
  <2>3. ASSUME NEW p, NEW base, Goto(q, "select"),
               SetFrame(q, [frame[q] EXCEPT !.productId = p.id,
                              !.list = p.list, !.base = base])
        PROVE  ContractStep(q)
    <3>1. /\ frame'[q].req = frame[q].req /\ frame'[q].decision = frame[q].decision
          /\ frame'[q].status = frame[q].status /\ pc'[q] = "select"
      BY <1>1, <1>7, <2>3 DEF Frame
    <3>2. PhaseOf(pc'[q]) = PhaseOf(pc[q])
      BY <2>1, <3>1 DEF PhaseOf
    <3>3. QED
      BY <1>6, <3>1, <3>2
  <2>4. QED
    BY <1>10, <2>2, <2>3 DEF Lookup
<1>11. CASE Select(q) \/ Resolve(q)
  <2>1. /\ pc[q] \in {"select", "conditions"}
        /\ Goto(q, "conditions") \/ Goto(q, "apply")
        /\ \/ \E list : SetFrame(q, [frame[q] EXCEPT !.candidates = list])
           \/ SetFrame(q, [frame[q] EXCEPT !.remaining = Subtotal(frame[q])])
    BY <1>11 DEF Select, Resolve, At
  <2>2. /\ frame'[q].req = frame[q].req /\ frame'[q].decision = frame[q].decision
        /\ frame'[q].status = frame[q].status
    BY <1>1, <2>1 DEF SetFrame, HandlersTypeOK, Frame
  <2>3. pc'[q] \in {"conditions", "apply"}
    BY <1>1, <2>1 DEF Goto, HandlersTypeOK
  <2>4. PhaseOf(pc'[q]) = PhaseOf(pc[q])
    BY <2>1, <2>3 DEF PhaseOf
  <2>5. QED
    BY <1>6, <2>2, <2>4
<1>12. CASE LoadNextConditions(q) \/ ApplyNext(q)
  <2>1. /\ pc' = pc
        /\ \/ frame' = frame
           \/ \E conds : SetFrame(q, [frame[q] EXCEPT !.conds = conds])
           \/ \E p : SetFrame(q, WithPromotion(frame[q], p))
    BY <1>12 DEF LoadNextConditions, ApplyNext
  <2>2. /\ frame'[q].req = frame[q].req /\ frame'[q].decision = frame[q].decision
        /\ frame'[q].status = frame[q].status
    BY <1>1, <2>1 DEF SetFrame, HandlersTypeOK, WithPromotion, Frame
  <2>3. QED
    BY <1>6, <2>1, <2>2
<1>13. CASE PutCache(q)
  <2>1. pc[q] = "put" /\ pc'[q] = "audit" /\ frame' = frame
    BY <1>1, <1>13 DEF PutCache, At, Goto, HandlersTypeOK
  <2>2. PhaseOf(pc'[q]) = PhaseOf(pc[q])
    BY <2>1 DEF PhaseOf
  <2>3. QED
    BY <1>6, <2>1, <2>2
<1>14. CASE ReadFails(q)
  <2>1. PhaseOf(pc[q]) \in {"asked", "saved"}
    BY <1>14 DEF ReadFails, PhaseOf
  <2>2. QED
    BY <1>5, <1>14, <2>1 DEF ReadFails
<1>15. QED
  BY <1>8, <1>9, <1>10, <1>11, <1>12, <1>13, <1>14

\* A hit shows a decision on record that has the parts asked for.
LEMMA CacheRefines ==
  ASSUME TypeOK, PersistenceInv, FittingInv, NEW q \in Quoters, CacheGet(q)
  PROVE  ContractStep(q)
<1> DEFINE r == frame[q].req
           k == CacheKey(r)
<1>1. HandlersTypeOK /\ Local(q) /\ pc[q] = "cache" /\ TablesKept
  BY StepsAreLocal DEF TypeOK, CacheGet, At, storeVars, TablesKept, Step
<1>2. r \in Request /\ Phases[q] = "asked" /\ Asked[q] = AsAsked(r)
  BY <1>1 DEF HandlersTypeOK, Frame, Phases, PhaseOf, Asked
<1>3. CASE Cache!Hit(k)
  <2> DEFINE d == Cache!Got(k)
  <2>1. Stored(d) /\ PartsOf(d) = k.parts
    BY <1>3 DEF Cache!Hit, Cache!Got, PersistenceInv, CacheStored, FittingInv, CacheFits
  <2>2. k.parts = Contract!Parts(r.customer, r.sku, r.quantity, r.channel)
    BY KeyParts
  <2>3. Respond(q, 200, d)
    BY <1>3 DEF CacheGet
  <2> HIDE DEF d, k, r
  <2>4. Contract!SameParts(d, Asked[q])
    BY <1>2, <2>1, <2>2, AsAskedTyped DEF Contract!SameParts, PartsOf
  <2>5. Contract!Return(q, d, 200) /\ Shown'[q] = d
    BY <1>1, <2>3, RespondReturns
  <2>6. Contract!AnswerFromRecord(q)
    BY <1>1, <1>2, <2>1, <2>4, <2>5, KeptTables DEF Contract!AnswerFromRecord, Stored
  <2>7. QED
    BY <2>6 DEF ContractStep
<1>4. CASE ~Cache!Hit(k)
  <2>1. Goto(q, "request") /\ frame' = frame
    BY <1>4 DEF CacheGet
  <2>2. pc'[q] = "request"
    BY <1>1, <2>1 DEF Goto, HandlersTypeOK
  <2>3. PhaseOf(pc'[q]) = PhaseOf(pc[q])
    BY <1>1, <2>2 DEF PhaseOf
  <2>4. QED
    BY <1>1, <2>1, <2>3, Stutters DEF ContractStep
<1>5. QED
  BY <1>3, <1>4

\* The steps that write, whether or not an error is reported.
LEMMA RequestRefines ==
  ASSUME TypeOK, NEW q \in Quoters, StoreRequest(q) \/ RequestFails(q)
  PROVE  ContractStep(q)
<1> DEFINE r == frame[q].req
<1>1. HandlersTypeOK /\ pc[q] = "request"
  BY DEF TypeOK, StoreRequest, RequestFails, At
<1>2. PhaseOf(pc[q]) = "asked"
  BY <1>1 DEF PhaseOf
<1>3. CASE UNCHANGED storeVars /\ Fail(q, 500)
  <2>1. TablesKept
    BY <1>3 DEF storeVars, TablesKept
  <2>2. QED
    BY <1>1, <1>2, <1>3, <2>1, KeptTables, FailIsFail DEF ContractStep
<1>4. CASE /\ Insertable(pricingRequests, r.id) /\ SaveRequest(r)
           /\ Fail(q, 500)
  <2>1. Contract!Insert(q) /\ UNCHANGED pricingDecisions
    BY <1>1, <1>4, SaveIsInsert
  <2>2. QED
    BY <1>1, <1>2, <1>4, <2>1, FailIsFail DEF ContractStep
<1>5. CASE /\ Insertable(pricingRequests, r.id) /\ SaveRequest(r)
           /\ Goto(q, "lookup") /\ frame' = frame
  <2>1. Contract!Insert(q) /\ UNCHANGED pricingDecisions
    BY <1>1, <1>5, SaveIsInsert
  <2>2. pc'[q] = "lookup"
    BY <1>1, <1>5 DEF Goto, HandlersTypeOK
  <2>3. PhaseOf(pc'[q]) = "saved"
    BY <2>2 DEF PhaseOf
  <2>4. Local(q)
    BY <1>5 DEF Local
  <2>5. Contract!Enter(q, "saved")
    BY <1>1, <2>3, <2>4, View
  <2>6. UNCHANGED <<Asked, Shown, Statuses>>
    BY <1>5 DEF Asked, AsAsked, Shown, Statuses
  <2>7. Contract!Save(q)
    BY <2>1, <2>5, <2>6 DEF Contract!Save
  <2>8. QED
    BY <2>7 DEF ContractStep
<1>6. QED
  BY <1>3, <1>4, <1>5 DEF StoreRequest, RequestFails

LEMMA DecisionRefines ==
  ASSUME TypeOK, PersistenceInv, NEW q \in Quoters, StoreDecision(q) \/ DecisionFails(q)
  PROVE  ContractStep(q)
<1> DEFINE d == InteractiveDecision(frame[q], uuid)
<1>1. HandlersTypeOK /\ pc[q] = "apply" /\ HandlerOK(q) /\ frame[q] \in Frame
  BY DEF TypeOK, HandlersTypeOK, PersistenceInv, StoreDecision, DecisionFails, At
<1>2. PhaseOf(pc[q]) = "saved"
  BY <1>1 DEF PhaseOf
<1>3. CASE UNCHANGED storeVars /\ Fail(q, 500)
  <2>1. TablesKept
    BY <1>3 DEF storeVars, TablesKept
  <2>2. QED
    BY <1>1, <1>2, <1>3, <2>1, KeptTables, FailIsFail DEF ContractStep
<1>4. ASSUME SaveDecision(d)
      PROVE  /\ Contract!Record(q, d) /\ UNCHANGED Requested
             /\ \E i \in DOMAIN pricingDecisions' : pricingDecisions'[i] = d
  BY <1>1, <1>4, SaveIsRecord
<1>5. CASE SaveDecision(d) /\ Fail(q, 500)
  <2>1. /\ \E i \in DOMAIN pricingDecisions' :
             Contract!Record(q, pricingDecisions'[i])
        /\ UNCHANGED Requested
    BY <1>4, <1>5
  <2>2. QED
    BY <1>1, <1>2, <1>5, <2>1, FailIsFail DEF ContractStep
<1>6. CASE /\ SaveDecision(d) /\ Goto(q, "put")
           /\ SetFrame(q, [frame[q] EXCEPT !.decision = d])
  <2> HIDE DEF d
  <2>1. /\ pc'[q] = "put" /\ frame'[q].decision = d
        /\ frame'[q].status = 0 /\ frame'[q].req = frame[q].req
    BY <1>1, <1>6 DEF Goto, SetFrame, HandlersTypeOK, HandlerOK, Frame
  <2>2. Local(q)
    BY <1>6 DEF Local
  <2>3. PhaseOf(pc'[q]) = "made"
    BY <2>1 DEF PhaseOf
  <2>4. /\ Contract!Enter(q, "made") /\ Contract!Shows(q, d, 0)
        /\ Asked' = [Asked EXCEPT ![q] = Asked[q]] /\ Shown'[q] = d
    BY <1>1, <2>1, <2>2, <2>3, View
  <2>5. Asked' = Asked
    BY <2>4 DEF Asked
  <2>6. Contract!Decide(q)
    BY <1>4, <1>6, <2>4, <2>5 DEF Contract!Decide
  <2>7. QED
    BY <2>6 DEF ContractStep
<1>7. QED
  BY <1>3, <1>5, <1>6 DEF StoreDecision, DecisionFails

LEMMA AuditRefines ==
  ASSUME TypeOK, NEW q \in Quoters, Audit(q) \/ AuditFails(q)
  PROVE  ContractStep(q)
<1>1. /\ HandlersTypeOK /\ pc[q] = "audit" /\ TablesKept
      /\ Respond(q, 200, frame[q].decision)
  BY DEF TypeOK, Audit, AuditFails, At, AppendAudit, storeVars, TablesKept
<1>2. Phases[q] = "made" /\ Shown[q] = frame[q].decision
  BY <1>1 DEF Phases, PhaseOf, Shown
<1>3. Contract!Return(q, frame[q].decision, 200)
  BY <1>1, RespondReturns
<1>4. Contract!Answer(q)
  BY <1>1, <1>2, <1>3, KeptTables DEF Contract!Answer
<1>5. QED
  BY <1>4 DEF ContractStep

LEMMA CrashRefines ==
  ASSUME Crash
  PROVE  Contract!Restart
<1>1. \A q \in Quoters : pc'[q] = "idle" /\ frame'[q].status = 0
  BY EmptyStatus DEF Crash
<1>2. \A q \in Quoters : PhaseOf(pc'[q]) = "idle"
  BY <1>1 DEF PhaseOf
<1>3. TablesKept
  BY DEF Crash, storeVars, TablesKept
<1>4. QED
  BY <1>1, <1>2, <1>3, NextPhases, KeptTables DEF Contract!Restart, Statuses

LEMMA SurroundingsRefine ==
  ASSUME ActivateConfig \/ ReplacePromotion \/ Tick \/ Idle \/ UNCHANGED vars
  PROVE  UNCHANGED Contract!contractVars
<1>1. UNCHANGED <<pc, frame>>
  BY DEF ActivateConfig, ReplacePromotion, Tick, Idle, vars, engineVars
<1>2. TablesKept
  BY DEF ActivateConfig, SetActiveConfig, ReplacePromotion, PutPromotion, Tick,
         Idle, vars, storeVars, TablesKept
<1>3. Phases' = Phases
  BY <1>1, NextPhases DEF Phases
<1>4. UNCHANGED <<Asked, Shown, Statuses>>
  BY <1>1 DEF Asked, AsAsked, Shown, Statuses
<1>5. QED
  BY <1>2, <1>3, <1>4, KeptTables DEF Contract!contractVars

LEMMA NextRefines ==
  ASSUME TypeOK, PersistenceInv, FittingInv, [Next]_vars
  PROVE  [Contract!Next]_(Contract!contractVars)
<1>1. ASSUME NEW q \in Quoters,
             ReceiveQuote(q) \/ Lock(q) \/ Step(q) \/ StoreFails(q)
      PROVE  ContractStep(q)
  BY <1>1, ReceiveRefines, QuietRefines, CacheRefines, RequestRefines,
     DecisionRefines, AuditRefines
  DEF Step, StoreFails
<1>2. ASSUME NEW q \in Quoters, ContractStep(q)
      PROVE  [Contract!Next]_(Contract!contractVars)
  BY <1>2 DEF ContractStep, Contract!Next
<1>3. CASE Crash
  BY <1>3, CrashRefines DEF Contract!Next
<1>4. CASE ActivateConfig \/ ReplacePromotion \/ Tick \/ Idle \/ UNCHANGED vars
  BY <1>4, SurroundingsRefine
<1>5. QED
  BY <1>1, <1>2, <1>3, <1>4 DEF Next, UndisturbedNext

LEMMA InitRefines == Init => Contract!Init
<1> SUFFICES ASSUME Init PROVE Contract!Init
  OBVIOUS
<1>1. \A q \in Quoters : pc[q] = "idle" /\ frame[q].status = 0
  BY EmptyStatus DEF Init
<1>2. Phases = [q \in Quoters |-> "idle"] /\ Statuses = [q \in Quoters |-> 0]
  BY <1>1 DEF Phases, PhaseOf, Statuses
<1>3. Requested = Contract!EmptyMap /\ pricingDecisions = Contract!EmptyMap
  BY DEF Init, StoreInit, Requested, EmptyMap, Contract!EmptyMap
<1>4. QED
  BY <1>2, <1>3 DEF Contract!Init

\* The engine does to its clients and to the tables what QuoteContract says,
\* whatever runs at once, fails, crashes or is answered from the cache: one
\* decision for a request that was saved before it, under an id of its own,
\* never changed, and no answer that is not on record.
THEOREM Refinement == Spec => KeepsQuoteContract
<1>1. TypeOK /\ PersistenceInv /\ FittingInv /\ [Next]_vars
        => [Contract!Next]_(Contract!contractVars)
  BY NextRefines
<1>2. QED
  BY <1>1, InitRefines, Typing, Persistence, Fitting, PTL
  DEF Spec, KeepsQuoteContract, Contract!Spec

-----------------------------------------------------------------------------
(***************************************************************************)
(* On PostgreSQL a request has one decision, and it is the one made for    *)
(* it.  Both follow from QuoteContract alone: a request id is saved only   *)
(* once, so among the quotes between saving and deciding each has its own. *)
(* The mutex is not needed.                                                *)
(***************************************************************************)

\* A quote whose request is saved and not decided yet.
Pending(q) == Phases[q] = "saved"

OwnRow(q) ==
  /\ Asked[q].id \in DOMAIN Requested /\ Requested[Asked[q].id] = Asked[q]
  /\ \A i \in DOMAIN pricingDecisions :
       pricingDecisions[i].requestId # Asked[q].id

PendingOwnRows ==
  /\ \A q \in Quoters : Pending(q) => OwnRow(q)
  /\ \A p, q \in Quoters :
       Pending(p) /\ Pending(q) /\ Asked[p].id = Asked[q].id => p = q

RowsMatch ==
  \A i \in DOMAIN pricingDecisions :
    LET d == pricingDecisions[i] IN
    /\ d.requestId \in DOMAIN Requested
    /\ Contract!DecisionFor(d, Requested[d.requestId])

OneRowEach ==
  \A i, j \in DOMAIN pricingDecisions :
    pricingDecisions[i].requestId = pricingDecisions[j].requestId => i = j

RecordInv == PendingOwnRows /\ RowsMatch /\ OneRowEach

-----------------------------------------------------------------------------
\* The steps of the contract, by what they do to the two tables

\* Connection q is pending after the step only if it was before.
StaysPending(q) == Pending(q)' => Pending(q) /\ Asked'[q] = Asked[q]

NoRow ==
  /\ UNCHANGED <<Requested, pricingDecisions>>
  /\ \A p \in Quoters : StaysPending(p)

RequestRow(q) ==
  /\ Contract!Insert(q)
  /\ UNCHANGED pricingDecisions
  /\ \A p \in Quoters : p # q => StaysPending(p)
  /\ Asked'[q] = Asked[q]

DecisionRow(q) ==
  /\ \E d : Contract!Record(q, d)
  /\ UNCHANGED Requested
  /\ \A p \in Quoters : StaysPending(p)
  /\ ~Pending(q)'

LEMMA ContractEffects ==
  ASSUME [Contract!Next]_(Contract!contractVars)
  PROVE  NoRow \/ \E q \in Quoters : RequestRow(q) \/ DecisionRow(q)
<1>1. DOMAIN Phases = Quoters /\ DOMAIN Asked = Quoters
  BY DEF Phases, Asked
<1>2. ASSUME NEW q \in Quoters, NEW label, Contract!Enter(q, label)
      PROVE  /\ Phases'[q] = label
             /\ \A p \in Quoters : p # q => Phases'[p] = Phases[p]
  BY <1>1, <1>2 DEF Contract!Enter
<1>3. ASSUME NEW q \in Quoters, Contract!Ask(q) PROVE NoRow
  BY <1>1, <1>2, <1>3 DEF Contract!Ask, NoRow, StaysPending, Pending
<1>4. ASSUME NEW q \in Quoters, Contract!Refuse(q) PROVE NoRow
  BY <1>1, <1>4 DEF Contract!Refuse, NoRow, StaysPending, Pending
<1>5. ASSUME NEW q \in Quoters, Contract!Save(q) PROVE RequestRow(q)
  BY <1>2, <1>5 DEF Contract!Save, RequestRow, StaysPending, Pending
<1>6. ASSUME NEW q \in Quoters, Contract!Decide(q) PROVE DecisionRow(q)
  BY <1>2, <1>6 DEF Contract!Decide, DecisionRow, StaysPending, Pending
<1>7. ASSUME NEW q \in Quoters, Contract!Answer(q) \/ Contract!AnswerFromRecord(q)
      PROVE  NoRow
  BY <1>2, <1>7 DEF Contract!Answer, Contract!AnswerFromRecord, Contract!Return,
                    NoRow, StaysPending, Pending
<1>8. ASSUME NEW q \in Quoters, Contract!Fail(q)
      PROVE  NoRow \/ RequestRow(q) \/ DecisionRow(q)
  <2>1. /\ Phases'[q] = "idle" /\ Asked' = Asked
        /\ \A p \in Quoters : p # q => Phases'[p] = Phases[p]
    BY <1>2, <1>8 DEF Contract!Fail, Contract!Return
  <2>2. \A p \in Quoters : StaysPending(p)
    BY <2>1 DEF StaysPending, Pending
  <2>3. QED
    BY <1>8, <2>1, <2>2 DEF Contract!Fail, NoRow, RequestRow, DecisionRow, Pending
<1>9. CASE Contract!Restart
  BY <1>9 DEF Contract!Restart, NoRow, StaysPending, Pending
<1>10. CASE UNCHANGED Contract!contractVars
  BY <1>10 DEF Contract!contractVars, NoRow, StaysPending, Pending
<1>11. QED
  BY <1>3, <1>4, <1>5, <1>6, <1>7, <1>8, <1>9, <1>10 DEF Contract!Next

-----------------------------------------------------------------------------
\* Each of them keeps the invariant

LEMMA NoRowStep ==
  ASSUME RecordInv, NoRow
  PROVE  RecordInv'
<1>1. PendingOwnRows'
  BY DEF RecordInv, PendingOwnRows, OwnRow, NoRow, StaysPending
<1>2. RowsMatch' /\ OneRowEach'
  BY DEF RecordInv, RowsMatch, OneRowEach, NoRow, Contract!DecisionFor
<1>3. QED
  BY <1>1, <1>2 DEF RecordInv

\* The new row's id was not in use: no decision names it, and no other
\* pending quote has it.
LEMMA RequestRowStep ==
  ASSUME RecordInv, Backend = "postgres", NEW q \in Quoters, RequestRow(q)
  PROVE  RecordInv'
<1> DEFINE id == Asked[q].id
<1>1. /\ id \notin DOMAIN Requested
      /\ Requested' = Contract!MapPut(Requested, id, Asked[q])
      /\ pricingDecisions' = pricingDecisions /\ Asked'[q] = Asked[q]
  BY DEF RequestRow, Contract!Insert
<1>2. /\ DOMAIN Requested' = DOMAIN Requested \cup {id}
      /\ Requested'[id] = Asked[q]
      /\ \A i \in DOMAIN Requested : Requested'[i] = Requested[i]
  BY <1>1 DEF Contract!MapPut
<1> HIDE DEF id
<1>3. \A i \in DOMAIN pricingDecisions : pricingDecisions[i].requestId \in DOMAIN Requested
  BY DEF RecordInv, RowsMatch
<1>4. ASSUME NEW p \in Quoters, p # q, Pending(p)'
      PROVE  /\ Pending(p) /\ Asked'[p] = Asked[p] /\ OwnRow(p)
             /\ Asked[p].id # id
  <2>1. Pending(p) /\ Asked'[p] = Asked[p]
    BY <1>4 DEF RequestRow, StaysPending
  <2>2. OwnRow(p)
    BY <2>1 DEF RecordInv, PendingOwnRows
  <2>3. QED
    BY <1>1, <2>1, <2>2 DEF OwnRow
<1>5. OwnRow(q)'
  BY <1>1, <1>2, <1>3 DEF OwnRow, id
<1>6. \A p \in Quoters : Pending(p)' => OwnRow(p)'
  BY <1>1, <1>2, <1>4, <1>5 DEF OwnRow
<1>7. \A p \in Quoters : p # q /\ Pending(p)' => Pending(p) /\ Asked'[p] = Asked[p]
                                               /\ Asked[p].id # id
  BY <1>4
<1>8. ASSUME NEW a \in Quoters, NEW b \in Quoters,
             Pending(a)', Pending(b)', Asked'[a].id = Asked'[b].id
      PROVE  a = b
  <2>1. CASE a = q \/ b = q
    BY <1>1, <1>7, <1>8, <2>1 DEF id
  <2>2. CASE a # q /\ b # q
    BY <1>7, <1>8, <2>2 DEF RecordInv, PendingOwnRows
  <2>3. QED
    BY <2>1, <2>2
<1>9. PendingOwnRows'
  BY <1>6, <1>8 DEF PendingOwnRows
<1>10. RowsMatch' /\ OneRowEach'
  BY <1>1, <1>2 DEF RecordInv, RowsMatch, OneRowEach, Contract!DecisionFor
<1>11. QED
  BY <1>9, <1>10 DEF RecordInv

\* The request was pending, so it had no decision yet; the other pending
\* quotes have other ids.
LEMMA DecisionRowStep ==
  ASSUME RecordInv, NEW q \in Quoters, DecisionRow(q)
  PROVE  RecordInv'
<1>1. PICK d : Contract!Record(q, d)
  BY DEF DecisionRow
<1>2. /\ Pending(q) /\ Contract!DecisionFor(d, Asked[q])
      /\ d.id \notin DOMAIN pricingDecisions
      /\ pricingDecisions' = Contract!MapPut(pricingDecisions, d.id, d)
      /\ Requested' = Requested
  BY <1>1 DEF Contract!Record, Pending, DecisionRow
<1>3. /\ DOMAIN pricingDecisions' = DOMAIN pricingDecisions \cup {d.id}
      /\ pricingDecisions'[d.id] = d
      /\ \A i \in DOMAIN pricingDecisions : pricingDecisions'[i] = pricingDecisions[i]
  BY <1>2 DEF Contract!MapPut
<1>4. OwnRow(q) /\ d.requestId = Asked[q].id
  BY <1>2 DEF RecordInv, PendingOwnRows, Contract!DecisionFor
<1>5. ASSUME NEW p \in Quoters, Pending(p)'
      PROVE  p # q /\ Pending(p) /\ Asked'[p] = Asked[p]
  BY <1>5 DEF DecisionRow, StaysPending
<1>6. ASSUME NEW p \in Quoters, Pending(p)' PROVE OwnRow(p)'
  <2>1. OwnRow(p) /\ Asked[p].id # Asked[q].id
    BY <1>2, <1>5, <1>6 DEF RecordInv, PendingOwnRows
  <2>2. QED
    BY <1>2, <1>3, <1>4, <1>5, <1>6, <2>1 DEF OwnRow
<1>7. PendingOwnRows'
  BY <1>5, <1>6 DEF RecordInv, PendingOwnRows
<1>8. RowsMatch'
  <2> SUFFICES ASSUME NEW i \in DOMAIN pricingDecisions'
               PROVE  LET e == pricingDecisions'[i] IN
                      /\ e.requestId \in DOMAIN Requested
                      /\ Contract!DecisionFor(e, Requested[e.requestId])
    BY <1>2 DEF RowsMatch, Contract!DecisionFor
  <2>1. CASE i = d.id
    BY <1>2, <1>3, <1>4, <2>1 DEF OwnRow
  <2>2. CASE i \in DOMAIN pricingDecisions
    BY <1>3, <2>2 DEF RecordInv, RowsMatch
  <2>3. QED
    BY <1>3, <2>1, <2>2
<1>9. OneRowEach'
  BY <1>3, <1>4 DEF RecordInv, OneRowEach, OwnRow
<1>10. QED
  BY <1>7, <1>8, <1>9 DEF RecordInv

LEMMA Records == Spec => [](Backend = "postgres" => RecordInv)
<1>1. Init => RecordInv
  <2> SUFFICES ASSUME Init PROVE RecordInv
    OBVIOUS
  <2>1. \A q \in Quoters : Phases[q] = "idle"
    BY DEF Init, Phases, PhaseOf
  <2>2. DOMAIN pricingDecisions = {}
    BY DEF Init, StoreInit, EmptyMap
  <2>3. QED
    BY <2>1, <2>2 DEF RecordInv, PendingOwnRows, Pending, RowsMatch, OneRowEach
<1>2. /\ TypeOK /\ PersistenceInv /\ FittingInv /\ [Next]_vars
      /\ (Backend = "postgres" => RecordInv)
      => (Backend = "postgres" => RecordInv)'
  <2> SUFFICES ASSUME TypeOK, PersistenceInv, FittingInv, [Next]_vars,
                      Backend = "postgres", RecordInv
               PROVE  RecordInv'
    OBVIOUS
  <2>1. [Contract!Next]_(Contract!contractVars)
    BY NextRefines
  <2>2. QED
    BY <2>1, ContractEffects, NoRowStep, RequestRowStep, DecisionRowStep
<1>3. QED
  BY <1>1, <1>2, Typing, Persistence, Fitting, PTL DEF Spec

\* A row of the request table reads the same as it was asked, but for its time.
LEMMA RowAsAsked ==
  ASSUME TypeOK, NEW i \in DOMAIN Requested
  PROVE  LET r == pricingRequests[i] IN
         /\ Requested[i].tenant = r.tenant /\ Requested[i].customer = r.customer
         /\ Requested[i].sku = r.sku /\ Requested[i].quantity = r.quantity
         /\ Requested[i].channel = r.channel
<1>1. pricingRequests[i] \in Request /\ Requested[i] = AsAsked(pricingRequests[i])
  BY DEF TypeOK, TablesTypeOK, Requested
<1>2. QED
  BY <1>1, AsAskedTyped

\* On PostgreSQL the row a decision names is the request it was made for,
\* whatever was retried, failed or crashed: the primary key keeps it.
THEOREM DecisionsMatch == Spec => []DecisionMatchesRequest
<1>1. TypeOK /\ (Backend = "postgres" => RecordInv) => DecisionMatchesRequest
  <2> SUFFICES ASSUME TypeOK, Backend = "postgres", RecordInv, NEW d \in Decided
               PROVE  LET r == pricingRequests[d.requestId] IN
                      /\ d.tenant = r.tenant /\ d.customer.name = r.customer
                      /\ d.sku = r.sku /\ d.quantity = r.quantity
                      /\ d.channel = r.channel
    BY DEF DecisionMatchesRequest
  <2>1. /\ d.requestId \in DOMAIN Requested
        /\ Contract!DecisionFor(d, Requested[d.requestId])
    BY DEF RecordInv, RowsMatch, Decided
  <2>2. QED
    BY <2>1, RowAsAsked DEF Contract!DecisionFor
<1>2. QED
  BY <1>1, Typing, Records, PTL

\* On PostgreSQL a request sent again under its id is never decided twice.
THEOREM DecidedOnce == Spec => []OneDecisionPerRequest
<1>1. (Backend = "postgres" => RecordInv) => OneDecisionPerRequest
  BY DEF RecordInv, OneRowEach, OneDecisionPerRequest, Decided
<1>2. QED
  BY <1>1, Records, PTL

-----------------------------------------------------------------------------
(***************************************************************************)
(* An answer is for what was asked, from the cache too, unless clients     *)
(* also send a request of the same parts in another order: a decision on   *)
(* record was made for some accepted request, and the cache answers with   *)
(* it only those who ask for its parts.                                    *)
(***************************************************************************)

AskedAccepted(a) == \E r \in Requests : Accepted(r) /\ SameFields(a, r)

MadeForAccepted(d) == \E r \in Requests : Accepted(r) /\ FitsRequest(d, r)

\* The decision d was made for some accepted request, and has a's parts.
Suits(d, a) == MadeForAccepted(d) /\ Contract!SameParts(d, a)

AnswersFit ==
  /\ \A q \in Quoters :
       /\ Phases[q] # "idle" => AskedAccepted(Asked[q]) /\ Statuses[q] # 200
       /\ Phases[q] = "made" => Suits(Shown[q], Asked[q])
       /\ Statuses[q] = 200 => Suits(Shown[q], Asked[q])
  /\ \A i \in DOMAIN pricingDecisions : MadeForAccepted(pricingDecisions[i])

\* Only an accepted request is asked.
LEMMA AsksAccepted ==
  ASSUME TypeOK, [Next]_vars, NEW q \in Quoters,
         Phases[q] = "idle", Phases'[q] # "idle"
  PROVE  AskedAccepted(Asked'[q])
<1>1. /\ HandlersTypeOK
      /\ Phases[q] = PhaseOf(pc[q]) /\ Phases'[q] = PhaseOf(pc'[q])
      /\ Asked'[q] = AsAsked(frame'[q].req)
  BY NextPhases DEF TypeOK, Phases, Asked, AsAsked
<1>2. pc[q] = "idle" /\ pc'[q] # "idle"
  BY <1>1 DEF PhaseOf, HandlersTypeOK, Label
<1>3. ReceiveQuote(q)
  <2>1. ASSUME NEW p \in Quoters,
               ReceiveQuote(p) \/ Lock(p) \/ Step(p) \/ StoreFails(p)
        PROVE  p = q
    BY <1>1, <1>2, <2>1, StepsAreLocal, LocalOthers
  <2>2. ~(Lock(q) \/ Step(q) \/ StoreFails(q))
    BY <1>2 DEF Lock, Step, ReadConfig, CacheGet, StoreRequest, Lookup, Select,
                LoadNextConditions, Resolve, ApplyNext, StoreDecision, PutCache, Audit,
                StoreFails, ReadFails, RequestFails, DecisionFails, AuditFails, At
  <2>3. ~(Crash \/ ActivateConfig \/ ReplacePromotion \/ Tick \/ Idle \/ UNCHANGED vars)
    BY <1>2 DEF Crash, ActivateConfig, ReplacePromotion, Tick, Idle, vars, engineVars
  <2>4. QED
    BY <2>1, <2>2, <2>3 DEF Next, UndisturbedNext
<1>4. PICK r \in Requests :
        /\ Accepted(r) /\ Goto(q, "lock")
        /\ SetFrame(q, [EmptyFrame EXCEPT
                          !.req = [r EXCEPT !.id = IF @ = 0 THEN uuid ELSE @]])
  BY <1>2, <1>3 DEF ReceiveQuote, Accepted
<1>5. r \in Request /\ EmptyFrame \in Frame /\ uuid \in Nat
  BY <1>1, EngineAssumption, ZeroesTyped DEF HandlersTypeOK
<1>6. frame'[q].req = [r EXCEPT !.id = IF @ = 0 THEN uuid ELSE @]
  BY <1>1, <1>4, <1>5 DEF SetFrame, HandlersTypeOK, Frame
<1>7. SameFields(AsAsked(frame'[q].req), r)
  BY <1>5, <1>6 DEF SameFields, AsAsked, Request
<1>8. QED
  BY <1>1, <1>4, <1>7 DEF AskedAccepted

\* What a connection owes the invariant after a step.
ConnectionFits(q) ==
  /\ Phases[q] # "idle" => AskedAccepted(Asked[q]) /\ Statuses[q] # 200
  /\ Phases[q] = "made" => Suits(Shown[q], Asked[q])
  /\ Statuses[q] = 200 => Suits(Shown[q], Asked[q])

\* A decision recorded for what an accepted request asks.
LEMMA RecordedFits ==
  ASSUME NEW a, AskedAccepted(a), NEW d, Contract!DecisionFor(d, a)
  PROVE  Suits(d, a)
<1>1. MadeForAccepted(d)
  BY DEF AskedAccepted, SameFields, Contract!DecisionFor, FitsRequest, MadeForAccepted
<1>2. Contract!SameParts(d, a)
  <2>1. d.customer.name = a.customer
    BY DEF Contract!DecisionFor
  <2>2. d.sku = a.sku /\ d.quantity = a.quantity /\ d.channel = a.channel
    BY DEF Contract!DecisionFor
  <2>3. QED
    BY <2>1, <2>2 DEF Contract!SameParts
<1>3. QED
  BY <1>1, <1>2 DEF Suits

\* A step changes what one connection shows, and puts a decision on record
\* only for what it was asked.
LEMMA ContractStepFits ==
  ASSUME AnswersFit, NEW q \in Quoters,
         Phases[q] = "idle" /\ Phases'[q] # "idle" => AskedAccepted(Asked'[q]),
         \/ Contract!Ask(q) \/ Contract!Refuse(q) \/ Contract!Save(q)
         \/ Contract!Decide(q) \/ Contract!Answer(q)
         \/ Contract!AnswerFromRecord(q) \/ Contract!Fail(q)
  PROVE  /\ ConnectionFits(q)'
         /\ \/ pricingDecisions' = pricingDecisions
            \/ \E d : /\ MadeForAccepted(d)
                      /\ pricingDecisions' = Contract!MapPut(pricingDecisions, d.id, d)
         /\ \A p \in Quoters : p # q =>
              /\ Phases'[p] = Phases[p] /\ Asked'[p] = Asked[p]
              /\ Shown'[p] = Shown[p] /\ Statuses'[p] = Statuses[p]
<1>1. /\ DOMAIN Phases = Quoters /\ DOMAIN Asked = Quoters
      /\ DOMAIN Shown = Quoters /\ DOMAIN Statuses = Quoters
  BY DEF Phases, Asked, Shown, Statuses
<1>2. ConnectionFits(q) /\ \A i \in DOMAIN pricingDecisions : MadeForAccepted(pricingDecisions[i])
  BY DEF AnswersFit, ConnectionFits
<1>3. ASSUME NEW label, Contract!Enter(q, label)
      PROVE  /\ Phases'[q] = label
             /\ \A p \in Quoters : p # q => Phases'[p] = Phases[p]
  BY <1>1, <1>3 DEF Contract!Enter
<1>4. ASSUME NEW d, NEW code, Contract!Shows(q, d, code)
      PROVE  /\ Shown'[q] = d /\ Statuses'[q] = code
             /\ \A p \in Quoters : p # q => Shown'[p] = Shown[p] /\ Statuses'[p] = Statuses[p]
  BY <1>1, <1>4 DEF Contract!Shows
<1>5. CASE Contract!Ask(q)
  BY <1>1, <1>3, <1>4, <1>5 DEF Contract!Ask, ConnectionFits
<1>6. CASE Contract!Refuse(q)
  BY <1>1, <1>4, <1>6 DEF Contract!Refuse, ConnectionFits
<1>7. CASE Contract!Save(q)
  <2>1. /\ Phases[q] = "asked" /\ Contract!Enter(q, "saved")
        /\ UNCHANGED <<pricingDecisions, Asked, Shown, Statuses>>
    BY <1>7 DEF Contract!Save, Contract!Insert
  <2>2. QED
    BY <1>2, <1>3, <2>1 DEF ConnectionFits
<1>8. CASE Contract!Decide(q)
  <2> DEFINE d == Shown'[q]
  <2>1. /\ Phases[q] = "saved" /\ Contract!DecisionFor(d, Asked[q])
        /\ pricingDecisions' = Contract!MapPut(pricingDecisions, d.id, d)
        /\ Contract!Enter(q, "made") /\ Contract!Shows(q, d, 0) /\ Asked' = Asked
    BY <1>8 DEF Contract!Decide, Contract!Record
  <2>2. AskedAccepted(Asked[q])
    BY <1>2, <2>1 DEF ConnectionFits
  <2>3. Suits(d, Asked[q])
    BY <2>1, <2>2, RecordedFits
  <2>4. QED
    BY <1>3, <1>4, <2>1, <2>2, <2>3 DEF ConnectionFits, Suits
<1>9. CASE Contract!Answer(q)
  <2>1. /\ Phases[q] = "made" /\ Contract!Enter(q, "idle")
        /\ Contract!Shows(q, Shown[q], 200)
        /\ UNCHANGED <<Asked, pricingDecisions>>
    BY <1>9 DEF Contract!Answer, Contract!Return
  <2>2. QED
    BY <1>2, <1>3, <1>4, <2>1 DEF ConnectionFits
<1>10. CASE Contract!AnswerFromRecord(q)
  <2> DEFINE d == Shown'[q]
  <2>1. /\ Phases[q] = "asked" /\ Contract!Enter(q, "idle")
        /\ Contract!Shows(q, d, 200)
        /\ d.id \in DOMAIN pricingDecisions /\ pricingDecisions[d.id] = d
        /\ Contract!SameParts(d, Asked[q])
        /\ UNCHANGED <<Asked, pricingDecisions>>
    BY <1>10 DEF Contract!AnswerFromRecord, Contract!Return
  <2>2. AskedAccepted(Asked[q]) /\ MadeForAccepted(d)
    BY <1>2, <2>1 DEF ConnectionFits
  <2>3. Suits(d, Asked[q])
    BY <2>1, <2>2 DEF Suits
  <2>4. QED
    BY <1>3, <1>4, <2>1, <2>3 DEF ConnectionFits
<1>11. CASE Contract!Fail(q)
  <2>1. /\ Phases[q] \in {"asked", "saved"} /\ Statuses'[q] \in {404, 500}
        /\ Contract!Enter(q, "idle")
        /\ Contract!Shows(q, Shown'[q], Statuses'[q]) /\ Asked' = Asked
    BY <1>11 DEF Contract!Fail, Contract!Return
  <2>2. AskedAccepted(Asked[q])
    BY <1>2, <2>1 DEF ConnectionFits
  <2>3. \/ pricingDecisions' = pricingDecisions
        \/ \E d : /\ Contract!DecisionFor(d, Asked[q])
                  /\ pricingDecisions' = Contract!MapPut(pricingDecisions, d.id, d)
    BY <1>11 DEF Contract!Fail, Contract!Record
  <2>4. \/ pricingDecisions' = pricingDecisions
        \/ \E d : /\ MadeForAccepted(d)
                  /\ pricingDecisions' = Contract!MapPut(pricingDecisions, d.id, d)
    BY <2>2, <2>3, RecordedFits DEF Suits
  <2>5. ConnectionFits(q)'
    BY <1>3, <2>1 DEF ConnectionFits
  <2>6. QED
    BY <1>3, <1>4, <2>1, <2>4, <2>5
<1>12. QED
  BY <1>5, <1>6, <1>7, <1>8, <1>9, <1>10, <1>11

LEMMA AnswersFitStep ==
  ASSUME TypeOK, AnswersFit, [Next]_vars,
         [Contract!Next]_(Contract!contractVars)
  PROVE  AnswersFit'
<1>1. /\ \A q \in Quoters : ConnectionFits(q)
      /\ \A i \in DOMAIN pricingDecisions : MadeForAccepted(pricingDecisions[i])
  BY DEF AnswersFit, ConnectionFits
<1>2. SUFFICES (\A q \in Quoters : ConnectionFits(q)')
               /\ \A i \in DOMAIN pricingDecisions' : MadeForAccepted(pricingDecisions'[i])
  BY DEF AnswersFit, ConnectionFits
<1>3. ASSUME NEW q \in Quoters,
             \/ Contract!Ask(q) \/ Contract!Refuse(q) \/ Contract!Save(q)
             \/ Contract!Decide(q) \/ Contract!Answer(q)
             \/ Contract!AnswerFromRecord(q) \/ Contract!Fail(q)
      PROVE  /\ \A p \in Quoters : ConnectionFits(p)'
             /\ \A i \in DOMAIN pricingDecisions' : MadeForAccepted(pricingDecisions'[i])
  <2>1. Phases[q] = "idle" /\ Phases'[q] # "idle" => AskedAccepted(Asked'[q])
    BY AsksAccepted
  <2>2. /\ ConnectionFits(q)'
        /\ \/ pricingDecisions' = pricingDecisions
           \/ \E d : /\ MadeForAccepted(d)
                     /\ pricingDecisions' = Contract!MapPut(pricingDecisions, d.id, d)
        /\ \A p \in Quoters : p # q =>
             /\ Phases'[p] = Phases[p] /\ Asked'[p] = Asked[p]
             /\ Shown'[p] = Shown[p] /\ Statuses'[p] = Statuses[p]
    BY <1>3, <2>1, ContractStepFits
  <2>3. \A p \in Quoters : ConnectionFits(p)'
    BY <1>1, <2>2 DEF ConnectionFits
  <2>4. \A i \in DOMAIN pricingDecisions' : MadeForAccepted(pricingDecisions'[i])
    BY <1>1, <2>2 DEF Contract!MapPut
  <2>5. QED
    BY <2>3, <2>4
<1>4. CASE Contract!Restart
  <2>1. /\ \A q \in Quoters : Phases'[q] = "idle" /\ Statuses'[q] = 0
        /\ pricingDecisions' = pricingDecisions
    BY <1>4 DEF Contract!Restart
  <2>2. QED
    BY <1>1, <2>1 DEF ConnectionFits
<1>5. CASE UNCHANGED Contract!contractVars
  BY <1>1, <1>5 DEF Contract!contractVars, ConnectionFits
<1>6. QED
  BY <1>3, <1>4, <1>5 DEF Contract!Next

\* Whatever the cache did, an answer is for the customer, product, quantity and
\* channel asked for, unless clients send another request of the same parts:
\* a cache key does not say which part is which.
THEOREM AnswersMatch == Spec => []AnswerMatchesRequest
<1>1. Init => AnswersFit
  <2> SUFFICES ASSUME Init PROVE AnswersFit
    OBVIOUS
  <2>1. \A q \in Quoters : Phases[q] = "idle" /\ Statuses[q] = 0
    BY EmptyStatus DEF Init, Phases, PhaseOf, Statuses
  <2>2. DOMAIN pricingDecisions = {}
    BY DEF Init, StoreInit, EmptyMap
  <2>3. QED
    BY <2>1, <2>2 DEF AnswersFit
<1>2. TypeOK /\ PersistenceInv /\ FittingInv /\ AnswersFit /\ [Next]_vars
        => AnswersFit'
  BY NextRefines, AnswersFitStep
<1>3. TypeOK /\ AnswersFit => AnswerMatchesRequest
  <2> SUFFICES ASSUME TypeOK, AnswersFit, NEW q \in Quoters, frame[q].status = 200,
                      Unmistakable(frame[q].req)
               PROVE  FitsRequest(frame[q].decision, frame[q].req)
    BY DEF AnswerMatchesRequest, Quotes, FitsRequest
  <2> DEFINE r == frame[q].req
  <2>1. r \in Request
    BY DEF TypeOK, HandlersTypeOK, Frame
  <2>2. /\ Statuses[q] = 200 /\ Shown[q] = frame[q].decision
        /\ Asked[q] = AsAsked(r)
    BY DEF Statuses, Shown, Asked
  <2>3. SameFields(AsAsked(r), r)
    BY <2>1, AsAskedTyped DEF SameFields
  <2>4. PICK x \in Requests : Accepted(x) /\ FitsRequest(frame[q].decision, x)
    BY <2>2 DEF AnswersFit, Suits, MadeForAccepted
  <2>5. Contract!Parts(x.customer, x.sku, x.quantity, x.channel)
          = Contract!Parts(r.customer, r.sku, r.quantity, r.channel)
    <3>1. Contract!SameParts(frame[q].decision, AsAsked(r))
      BY <2>2 DEF AnswersFit, Suits
    <3>2. QED
      BY <2>3, <2>4, <3>1 DEF Contract!SameParts, FitsRequest, SameFields
  <2>6. SameFields(x, r)
    BY <2>4, <2>5 DEF Unmistakable
  <2>7. QED
    BY <2>4, <2>6 DEF FitsRequest, SameFields
<1>4. QED
  BY <1>1, <1>2, <1>3, Typing, Persistence, Fitting, PTL DEF Spec

=============================================================================
