--------------------------- MODULE ControlProofs ----------------------------
(***************************************************************************)
(* Proofs about ControlStore and ControlPlane, for any records, handlers   *)
(* and guards, and any number of requests and Redis errors.                *)
(***************************************************************************)
EXTENDS ControlPlane, WellFoundedInduction, NaturalsInduction, TLAPS

(* A handler that is alone on its key will find the record as its first    *)
(* call left it; nobody is at work on a settled key.                       *)
AloneInv ==
    /\ \A k \in Keys : \A h \in OnKey(k) : request[h].alone =>
          /\ OnKey(k) = {h}
          /\ record[k] # Absent <=> request[h].call = "sadd"
    /\ \A k \in settled : OnKey(k) = {} /\ (k \in index <=> record[k] # Absent)

During == [standing : SUBSET Entries, seen : SUBSET Entries, worst : Nat, lifted : BOOLEAN]

(* What stood all along is read or about to be read.                       *)
Unread(g, e) == e[1] \in unread[g] \/ e \in plan[g]
StandingInv ==
    \A g \in Guards :
       /\ Loading(g) => during[g].standing \subseteq InForce
       /\ \A e \in during[g].standing :
             /\ gpc[g] = "limits" /\ e[1] \in RuleIds => Unread(g, e)
             /\ gpc[g] = "switches" => Unread(g, e)
             /\ gpc[g] = "switches" /\ e[1] \in RuleIds => e \in plan[g]

(* Unless something was lifted, the rules now in force were in force when  *)
(* the guard listed them; and what was in force when it listed the         *)
(* switches (the moment P) ends up in its plan.                            *)
Moment(g, P) ==
    /\ AllowedBy(P, asked[g]) <= during[g].worst
    /\ \A e \in P : /\ e[1] \in RuleIds => e \in plan[g]
                    /\ e[1] \in SwitchIds => e \in InForce /\ Unread(g, e)
GapInv ==
    \A g \in Guards : ~during[g].lifted =>
       /\ gpc[g] = "limits" =>
             /\ AllowedBy(InForce, asked[g]) <= during[g].worst
             /\ \A e \in InForce : e[1] \in RuleIds => Unread(g, e)
       /\ gpc[g] = "switches" => \E P \in SUBSET Entries : Moment(g, P)

(* What a guard has read and goes by was there to be seen.                 *)
SeenInv ==
    \A g \in Guards : Loading(g) =>
       /\ Enabled \subseteq during[g].seen
       /\ \A e \in plan[g] : e[2].enabled => e \in during[g].seen

ControlInv == ControlTypeOK /\ AloneInv /\ StandingInv /\ StandingRulesBind
              /\ SeenInv /\ RefusalHasCause /\ GapInv /\ NoGapWhileTightening

-----------------------------------------------------------------------------
(* Min picks the least element of a set of integers bounded from below.    *)
LEMMA MinIsLeast ==
    ASSUME NEW S \in SUBSET Int, S # {}, NEW low \in Int, \A x \in S : low <= x
    PROVE  /\ Min(S) \in S
           /\ \A y \in S : Min(S) <= y
<1> DEFINE T == {x - low : x \in S}
<1>0. \A x \in S : x \in Int /\ x - low \in Nat
  OBVIOUS
<1>1. T \subseteq Nat /\ T # {}
  BY <1>0, Zenon
<1>2. \E x \in T : \A y \in T : ~(<<y, x>> \in OpToRel(<, Nat))
  <2> HIDE DEF T
  <2> QED
    BY <1>1, NatLessThanWellFounded, WFMin, Zenon
<1>3. \A x, y \in T : y < x => <<y, x>> \in OpToRel(<, Nat)
  BY <1>1 DEF OpToRel
<1>4. PICK x \in T : \A y \in T : ~(y < x)
  <2> HIDE DEF T
  <2> QED
    BY <1>2, <1>3, Zenon
<1>5. PICK m \in S : x = m - low
  BY <1>4, Zenon
<1>6. \A y \in S : m <= y
  <2> SUFFICES ASSUME NEW y \in S
               PROVE  m <= y
    OBVIOUS
  <2>1. y - low \in T
    BY Zenon
  <2>2. ~(y - low < m - low)
    BY <2>1, <1>4, <1>5, Zenon
  <2>3. m \in Int /\ y \in Int
    BY <1>0
  <2> HIDE DEF T
  <2> QED
    BY <2>2, <2>3
<1> QED
  BY <1>6, Zenon DEF Min

(* The limits a decision is the lowest of.                                 *)
Candidates(p, q) == {q.requested_notional} \cup _matching_limit_values(p, q)

LEMMA CandidatesBounded ==
    ASSUME NEW p \in SUBSET Entries, NEW q \in OpenRequests
    PROVE  /\ Candidates(p, q) \in SUBSET Int
           /\ \E low \in Int : \A x \in Candidates(p, q) : low <= x
<1>1. q.requested_notional \in Nat
  BY OpenRequestAssumption DEF OpenRequestAssumption
<1>2. limit_rules(p) \subseteq LimitRecords
  BY DEF limit_rules, Entries, RecordsOf
<1>3. _matching_limit_values(p, q) \subseteq {r.limit_value : r \in LimitRecords}
  BY <1>2 DEF _matching_limit_values
<1>4. {r.limit_value : r \in LimitRecords} \subseteq Int
  BY ControlAssumption DEF ControlAssumption
<1>5. CASE LimitRecords = {}
  BY <1>1, <1>3, <1>5 DEF Candidates
<1>6. CASE LimitRecords # {}
  <2>1. PICK r \in LimitRecords : \A s \in LimitRecords : r.limit_value <= s.limit_value
    BY <1>6, ControlAssumption DEF ControlAssumption
  <2>2. r.limit_value \in Int
    BY ControlAssumption DEF ControlAssumption
  <2> DEFINE low == IF r.limit_value < 0 THEN r.limit_value ELSE 0
  <2>3. low \in Int
    BY <2>2
  <2>4. \A v \in _matching_limit_values(p, q) : low <= v
    BY <2>1, <2>2, <1>3, <1>4
  <2>5. low <= q.requested_notional
    BY <1>1, <2>2
  <2>6. \A x \in Candidates(p, q) : low <= x
    BY <2>4, <2>5 DEF Candidates
  <2>7. Candidates(p, q) \in SUBSET Int
    BY <1>1, <1>3, <1>4 DEF Candidates
  <2> HIDE DEF low
  <2> QED
    BY <2>3, <2>6, <2>7
<1> QED
  BY <1>5, <1>6

LEMMA LowestCandidate ==
    ASSUME NEW p \in SUBSET Entries, NEW q \in OpenRequests
    PROVE  /\ Min(Candidates(p, q)) \in Candidates(p, q)
           /\ Min(Candidates(p, q)) \in Int
           /\ \A x \in Candidates(p, q) : Min(Candidates(p, q)) <= x
<1>1. Candidates(p, q) # {}
  BY DEF Candidates
<1>2. PICK low \in Int : \A x \in Candidates(p, q) : low <= x
  BY CandidatesBounded
<1> QED
  BY <1>1, <1>2, CandidatesBounded, MinIsLeast

LEMMA DecisionType ==
    ASSUME NEW p \in SUBSET Entries, NEW q \in OpenRequests
    PROVE  /\ evaluate_open_request(p, q) \in Int
           /\ AllowedBy(p, q) \in Nat
<1>1. evaluate_open_request(p, q) \in Int
  BY LowestCandidate DEF evaluate_open_request, Candidates
<1> QED
  BY <1>1 DEF AllowedBy, Opened

(* A guard that read more rules and switches never opens more.             *)
LEMMA MoreReadLessOpened ==
    ASSUME NEW p, NEW r \in SUBSET Entries, p \subseteq r, NEW q \in OpenRequests
    PROVE  AllowedBy(r, q) <= AllowedBy(p, q)
<1>1. p \in SUBSET Entries
  OBVIOUS
<1>2. AllowedBy(r, q) \in Nat /\ AllowedBy(p, q) \in Nat
  BY <1>1, DecisionType
<1>3. CASE _is_reduce_only_active(r, q)
  BY <1>2, <1>3 DEF AllowedBy, Opened, evaluate_open_request
<1>4. CASE ~_is_reduce_only_active(r, q)
  <2>1. ~_is_reduce_only_active(p, q)
    BY <1>4 DEF _is_reduce_only_active, switches
  <2>2. limit_rules(p) \subseteq limit_rules(r)
    BY DEF limit_rules
  <2>3. Candidates(p, q) \subseteq Candidates(r, q)
    BY <2>2 DEF Candidates, _matching_limit_values
  <2>4. Min(Candidates(r, q)) <= Min(Candidates(p, q))
    BY <1>1, <2>3, LowestCandidate
  <2>5. Min(Candidates(r, q)) \in Int /\ Min(Candidates(p, q)) \in Int
    BY <1>1, LowestCandidate
  <2> QED
    BY <1>4, <2>1, <2>4, <2>5 DEF AllowedBy, Opened, evaluate_open_request, Candidates
<1> QED
  BY <1>3, <1>4

-----------------------------------------------------------------------------
LEMMA InForceType == StoreTypeOK => InForce \in SUBSET Entries
BY DEF StoreTypeOK, InForce, Listed, Entries, RecordsOf

LEMMA InForceTypeNext == StoreTypeOK' => InForce' \in SUBSET Entries
BY DEF StoreTypeOK, InForce, Listed, Entries, RecordsOf

LEMMA EnabledType == StoreTypeOK => Enabled \in SUBSET Entries
BY DEF StoreTypeOK, Enabled, Entries, RecordsOf

LEMMA EnabledTypeNext == StoreTypeOK' => Enabled' \in SUBSET Entries
BY DEF StoreTypeOK, Enabled, Entries, RecordsOf

LEMMA StoreTypeInit == StoreInit => StoreTypeOK
BY ControlAssumption DEF StoreInit, StoreTypeOK, ControlAssumption

(* No record is mistaken for an absent one.                                *)
LEMMA RecordsArePresent == \A r \in AnyRecord : r # Absent
<1>1. \A r \in LimitRecords : "enabled" \in DOMAIN r
  BY ControlAssumption DEF ControlAssumption
<1>2. \A r \in SwitchRecords : "enabled" \in DOMAIN r
  BY DEF SwitchRecords
<1>3. "enabled" \notin DOMAIN Absent
  BY DEF Absent
<1> QED
  BY <1>1, <1>2, <1>3 DEF AnyRecord

LEMMA StoreTypeStep ==
    ASSUME StoreTypeOK, StoreStep
    PROVE  StoreTypeOK'
<1> USE DEF StoreTypeOK
<1>1. ASSUME NEW h \in Handlers, NEW k \in Keys, NEW call \in {"sadd", "srem"},
             Begin(h, k, call)
      PROVE  /\ request' \in [Handlers -> Requests \cup {NoRequest}]
             /\ requests' \in 0..MaxRequests
             /\ index' \subseteq Keys /\ settled' \subseteq Keys
             /\ errors' \in 0..MaxRedisErrors
  <2>1. \A g \in OnKey(k) : [request[g] EXCEPT !.alone = FALSE] \in Requests
    BY DEF OnKey, Requests
  <2>2. [call |-> call, key |-> k, alone |-> OnKey(k) = {}] \in Requests
    BY DEF Requests
  <2>3. request' \in [Handlers -> Requests \cup {NoRequest}]
    BY <1>1, <2>1, <2>2 DEF Begin
  <2> QED
    BY <1>1, <2>3, ControlAssumption DEF Begin, ControlAssumption
<1>2. ASSUME NEW h \in Handlers, PutRecord(h)
      PROVE  StoreTypeOK'
  <2>0. PICK k \in Keys : \E r \in RecordsOf(k) :
           Begin(h, k, "sadd") /\ record' = [record EXCEPT ![k] = r]
    BY <1>2 DEF PutRecord
  <2>1. PICK r \in RecordsOf(k) :
           Begin(h, k, "sadd") /\ record' = [record EXCEPT ![k] = r]
    BY <2>0
  <2>2. r \in AnyRecord
    BY DEF AnyRecord, RecordsOf
  <2> QED
    BY <1>1, <2>1, <2>2
<1>3. ASSUME NEW h \in Handlers, DeleteRecord(h)
      PROVE  StoreTypeOK'
  <2>1. PICK k \in Keys : Begin(h, k, "srem") /\ record' = [record EXCEPT ![k] = Absent]
    BY <1>3 DEF DeleteRecord
  <2> QED
    BY <1>1, <2>1
<1>4. ASSUME NEW h \in Handlers, request[h] # NoRequest
      PROVE  request[h] \in Requests /\ request[h].key \in Keys
  BY <1>4 DEF Requests
<1>5. ASSUME NEW h \in Handlers, IndexRecord(h) \/ UnindexRecord(h) \/ RequestFails(h)
      PROVE  StoreTypeOK'
  BY <1>4, <1>5, ControlAssumption
     DEF IndexRecord, UnindexRecord, RequestFails, End, Settle, ControlAssumption
<1> QED
  BY <1>2, <1>3, <1>5 DEF StoreStep

LEMMA AloneInit == StoreInit => AloneInv
BY DEF StoreInit, AloneInv, OnKey

(* Joining a key ends whoever was alone on it.                             *)
LEMMA BeginKeepsAlone ==
    ASSUME StoreTypeOK, AloneInv,
           NEW h \in Handlers, NEW k \in Keys, NEW call \in {"sadd", "srem"}, NEW v,
           Begin(h, k, call), record' = [record EXCEPT ![k] = v],
           v # Absent <=> call = "sadd"
    PROVE  AloneInv'
<1> USE DEF StoreTypeOK
<1>1. \A g \in Handlers : request[g] # NoRequest => request[g] \in Requests
  OBVIOUS
<1>2. \A g \in OnKey(k) : /\ [request[g] EXCEPT !.alone = FALSE].alone = FALSE
                          /\ [request[g] EXCEPT !.alone = FALSE].key = k
                          /\ [request[g] EXCEPT !.alone = FALSE] \in Requests
  BY <1>1 DEF OnKey, Requests
<1>3. \A r \in Requests : r # NoRequest
  BY DEF Requests, NoRequest
<1>4. /\ request'[h] = [call |-> call, key |-> k, alone |-> OnKey(k) = {}]
      /\ request'[h] \in Requests
  BY DEF Begin, Requests
<1>4a. request'[h].key = k
  BY <1>4
<1>4b. OnKey(k) # {} => request'[h].alone = FALSE
  <2>1. CASE OnKey(k) # {}
    <3>1. (OnKey(k) = {}) = FALSE
      BY <2>1, Zenon
    <3>2. request'[h] = [call |-> call, key |-> k, alone |-> FALSE]
      BY <3>1, <1>4, Zenon
    <3> QED
      BY <3>2
  <2> QED
    BY <2>1
<1>5. \A g \in OnKey(k) : g # h /\ request'[g] = [request[g] EXCEPT !.alone = FALSE]
  BY DEF Begin, OnKey
<1>6. \A g \in Handlers \ (OnKey(k) \cup {h}) : request'[g] = request[g]
  BY DEF Begin
<1>7. OnKey(k)' = OnKey(k) \cup {h}
  <2>1. \A g \in OnKey(k) \cup {h} : g \in OnKey(k)'
    <3>1. h \in OnKey(k)'
      BY <1>3, <1>4, <1>4a DEF OnKey
    <3>2. \A g \in OnKey(k) : g \in Handlers /\ request'[g] # NoRequest /\ request'[g].key = k
      BY <1>2, <1>3, <1>5 DEF OnKey
    <3>3. \A g \in OnKey(k) : g \in OnKey(k)'
      BY <3>2 DEF OnKey
    <3> QED
      BY <3>1, <3>3
  <2>2. \A g \in Handlers \ (OnKey(k) \cup {h}) : g \notin OnKey(k)'
    BY <1>6 DEF OnKey
  <2> QED
    BY <2>1, <2>2 DEF OnKey
<1>8. \A j \in Keys \ {k} : OnKey(j)' = OnKey(j)
  <2> TAKE j \in Keys \ {k}
  <2>1. \A g \in OnKey(k) \cup {h} : g \notin OnKey(j) /\ g \notin OnKey(j)'
    BY <1>2, <1>4, <1>5 DEF OnKey, Begin
  <2> QED
    BY <2>1, <1>6 DEF OnKey
<1>9. \A j \in Keys \ {k} : record'[j] = record[j]
  OBVIOUS
<1>10. ASSUME NEW g \in OnKey(k)', request'[g].alone
       PROVE  OnKey(k)' = {g} /\ (record'[k] # Absent <=> request'[g].call = "sadd")
  <2>1. g \notin OnKey(k)
    BY <1>2, <1>5, <1>10
  <2>2. g = h
    BY <2>1, <1>7
  <2>3. OnKey(k) = {}
    BY <2>2, <1>4b, <1>10
  <2> QED
    BY <2>2, <2>3, <1>4, <1>7
<1>11. ASSUME NEW j \in Keys \ {k}, NEW g \in OnKey(j)', request'[g].alone
       PROVE  OnKey(j)' = {g} /\ (record'[j] # Absent <=> request'[g].call = "sadd")
  <2>1. g \in OnKey(j) /\ g \notin OnKey(k) \cup {h}
    BY <1>7, <1>8, <1>4 DEF OnKey
  <2>2. request'[g] = request[g]
    BY <2>1, <1>6 DEF OnKey
  <2> QED
    BY <2>1, <2>2, <1>8, <1>9, <1>11 DEF AloneInv
<1>12. \A j \in settled' : OnKey(j)' = {} /\ (j \in index' <=> record'[j] # Absent)
  BY <1>8, <1>9 DEF AloneInv, Begin
<1> QED
  BY <1>10, <1>11, <1>12 DEF AloneInv

(* Leaving a key: the others on it were not alone.                         *)
LEMMA EndKeepsAlone ==
    ASSUME StoreTypeOK, AloneInv, NEW h \in Handlers, request[h] # NoRequest, End(h),
           \A j \in Keys \ {request[h].key} : j \in index' <=> j \in index,
           \/ settled' = settled
           \/ /\ Settle(h)
              /\ request[h].key \in index' <=> request[h].call = "sadd"
    PROVE  AloneInv'
<1> USE DEF StoreTypeOK
<1>1. request'[h] = NoRequest /\ \A g \in Handlers \ {h} : request'[g] = request[g]
  BY DEF End
<1>2. \A j \in Keys : OnKey(j)' = OnKey(j) \ {h}
  BY <1>1 DEF OnKey
<1>3. request[h].key \in Keys /\ h \in OnKey(request[h].key)
  BY DEF OnKey, Requests
<1>4. ASSUME NEW j \in Keys, NEW g \in OnKey(j)', request'[g].alone
      PROVE  OnKey(j)' = {g} /\ (record'[j] # Absent <=> request'[g].call = "sadd")
  <2>1. g \in OnKey(j) /\ g # h
    BY <1>2
  <2>2. request'[g] = request[g]
    BY <2>1, <1>1 DEF OnKey
  <2> QED
    BY <2>1, <2>2, <1>2, <1>4 DEF AloneInv, End
<1>5. ASSUME NEW j \in settled
      PROVE  OnKey(j)' = {} /\ (j \in index' <=> record'[j] # Absent)
  <2>1. j \in Keys /\ OnKey(j) = {}
    BY DEF AloneInv
  <2> QED
    BY <2>1, <1>2, <1>3 DEF AloneInv, End
<1>6. ASSUME NEW k \in Keys, request[h].alone, k = request[h].key,
             k \in index' <=> request[h].call = "sadd"
      PROVE  OnKey(k)' = {} /\ (k \in index' <=> record'[k] # Absent)
  BY <1>2, <1>3, <1>6 DEF AloneInv, End
<1>7. \A j \in settled' : OnKey(j)' = {} /\ (j \in index' <=> record'[j] # Absent)
  BY <1>3, <1>5, <1>6 DEF Settle
<1> QED
  BY <1>4, <1>7 DEF AloneInv

LEMMA AloneStep ==
    ASSUME StoreTypeOK, AloneInv, StoreStep
    PROVE  AloneInv'
<1>1. ASSUME NEW h \in Handlers, PutRecord(h)
      PROVE  AloneInv'
  <2>1. PICK k \in Keys : \E r \in RecordsOf(k) :
           Begin(h, k, "sadd") /\ record' = [record EXCEPT ![k] = r]
    BY <1>1 DEF PutRecord
  <2>2. PICK r \in RecordsOf(k) :
           Begin(h, k, "sadd") /\ record' = [record EXCEPT ![k] = r]
    BY <2>1
  <2>3. r # Absent
    BY RecordsArePresent DEF AnyRecord, RecordsOf
  <2> QED
    BY <2>2, <2>3, BeginKeepsAlone
<1>2. ASSUME NEW h \in Handlers, DeleteRecord(h)
      PROVE  AloneInv'
  <2>1. PICK k \in Keys : Begin(h, k, "srem") /\ record' = [record EXCEPT ![k] = Absent]
    BY <1>2 DEF DeleteRecord
  <2> QED
    BY <2>1, BeginKeepsAlone
<1>3. ASSUME NEW h \in Handlers, IndexRecord(h)
      PROVE  AloneInv'
  BY <1>3, EndKeepsAlone DEF IndexRecord
<1>4. ASSUME NEW h \in Handlers, UnindexRecord(h)
      PROVE  AloneInv'
  BY <1>4, EndKeepsAlone DEF UnindexRecord
<1>5. ASSUME NEW h \in Handlers, RequestFails(h)
      PROVE  AloneInv'
  BY <1>5, EndKeepsAlone DEF RequestFails
<1> QED
  BY <1>1, <1>2, <1>3, <1>4, <1>5 DEF StoreStep

-----------------------------------------------------------------------------
LEMMA MaxOfTwo ==
    ASSUME NEW a \in Nat, NEW b \in Nat
    PROVE  Max({a, b}) \in Nat /\ a <= Max({a, b}) /\ b <= Max({a, b})
<1>1. \E x \in {a, b} : \A y \in {a, b} : x >= y
  OBVIOUS
<1>2. Max({a, b}) \in {a, b} /\ \A y \in {a, b} : Max({a, b}) >= y
  BY <1>1, Zenon DEF Max
<1> QED
  BY <1>2

LEMMA InForceIsRecorded ==
    ASSUME NEW e \in InForce
    PROVE  e[1] \in index /\ record[e[1]] # Absent /\ e = <<e[1], record[e[1]]>>
BY DEF InForce, Listed

LEMMA StoreStands == UNCHANGED storeVars => InForce' = InForce /\ Enabled' = Enabled
BY DEF storeVars, InForce, Listed, Enabled

(* The id read next is that of a key.                                      *)
LEMMA NextRead ==
    ASSUME ControlTypeOK, NEW g \in Guards, ReadRecord(g)
    PROVE  Min(unread[g]) \in Keys
<1>1. Keys \subseteq Nat
  BY ControlAssumption DEF ControlAssumption, Keys
<1>2. unread[g] \in SUBSET Keys
  BY DEF ControlTypeOK
<1>3. \A k \in unread[g] : k \in Nat
  BY <1>1, <1>2
<1>4. unread[g] \in SUBSET Int /\ \A k \in unread[g] : 0 <= k
  BY <1>3
<1>5. unread[g] # {} /\ 0 \in Int
  BY DEF ReadRecord
<1>6. Min(unread[g]) \in unread[g]
  BY <1>4, <1>5, MinIsLeast
<1> QED
  BY <1>2, <1>6

LEMMA ControlTypeStep ==
    ASSUME ControlTypeOK, ControlNext
    PROVE  ControlTypeOK'
<1> USE DEF ControlTypeOK, During
<1>0. Keys \subseteq Nat /\ \A S : index \cap S \in SUBSET Keys
  BY ControlAssumption DEF ControlAssumption, Keys, StoreTypeOK
<1>1. InForce \in SUBSET Entries /\ Enabled \in SUBSET Entries
  BY InForceType, EnabledType
<1>2. ASSUME StoreChanges
      PROVE  ControlTypeOK'
  <2>1. StoreTypeOK' /\ InForce' \in SUBSET Entries /\ Enabled' \in SUBSET Entries
    BY <1>2, StoreTypeStep, InForceTypeNext, EnabledTypeNext DEF StoreChanges
  <2>2. ASSUME NEW g \in Guards
        PROVE  Max({during[g].worst, AllowedBy(InForce', asked[g])}) \in Nat
    BY <2>1, DecisionType, MaxOfTwo
  <2>3. during' \in [Guards -> During]
    <3>1. \A g \in Guards : (during[g].lifted \/ Lifts) \in BOOLEAN
      OBVIOUS
    <3>2. \A g \in Guards : during[g].standing \cap InForce' \in SUBSET Entries
      OBVIOUS
    <3>3. \A g \in Guards : during[g].seen \cup Enabled' \in SUBSET Entries
      BY <2>1
    <3> QED
      BY <1>2, <2>2, <3>1, <3>2, <3>3 DEF StoreChanges
  <2> QED
    BY <1>2, <2>1, <2>3 DEF StoreChanges, guardVars
<1>3. ASSUME UNCHANGED storeVars
      PROVE  StoreTypeOK'
  BY <1>3 DEF storeVars, StoreTypeOK, OnKey
<1>4. ASSUME NEW g \in Guards, ListLimits(g)
      PROVE  ControlTypeOK'
  <2>1. PICK q \in OpenRequests :
           /\ asked' = [asked EXCEPT ![g] = q]
           /\ during' = [during EXCEPT ![g] =
                 [standing |-> InForce, seen |-> Enabled,
                  worst |-> AllowedBy(InForce, q), lifted |-> FALSE]]
    BY <1>4 DEF ListLimits
  <2>2. AllowedBy(InForce, q) \in Nat
    BY <1>1, DecisionType
  <2>3. during' \in [Guards -> During]
    BY <1>1, <2>1, <2>2
  <2> QED
    BY <1>0, <1>3, <1>4, <2>1, <2>3 DEF ListLimits
<1>5. ASSUME NEW g \in Guards, ReadRecord(g)
      PROVE  ControlTypeOK'
  <2>2. Min(unread[g]) \in Keys
    BY <1>5, NextRead
  <2>3. record[Min(unread[g])] # Absent
          => <<Min(unread[g]), record[Min(unread[g])]>> \in Entries
    BY <2>2 DEF StoreTypeOK, Entries, AnyRecord, RecordsOf
  <2> QED
    BY <1>3, <1>5, <2>3 DEF ReadRecord
<1>6. ASSUME NEW g \in Guards, ListSwitches(g)
      PROVE  ControlTypeOK'
  BY <1>0, <1>3, <1>6 DEF ListSwitches
<1>7. ASSUME NEW g \in Guards, Evaluate(g)
      PROVE  ControlTypeOK'
  <2>1. evaluate_open_request(plan[g], asked[g]) \in Int
    BY DecisionType
  <2> QED
    BY <1>3, <1>7, <2>1 DEF Evaluate
<1> QED
  BY <1>2, <1>4, <1>5, <1>6, <1>7 DEF ControlNext, GuardStep

-----------------------------------------------------------------------------
(* A GET of a record in force puts it into the plan.                       *)
LEMMA ReadKeepsUnread ==
    ASSUME ControlTypeOK, NEW g \in Guards, ReadRecord(g), NEW f \in Guards,
           NEW e, e \in InForce, Unread(f, e)
    PROVE  Unread(f, e)'
<1>1. e = <<e[1], record[e[1]]>> /\ record[e[1]] # Absent
  BY InForceIsRecorded
<1> QED
  BY <1>1 DEF ReadRecord, Unread, ControlTypeOK

LEMMA ReadKeepsPlan ==
    ASSUME ControlTypeOK, NEW g \in Guards, ReadRecord(g), NEW f \in Guards
    PROVE  plan[f] \subseteq plan'[f]
BY DEF ReadRecord, ControlTypeOK

(* A GET brings what is stored.                                            *)
LEMMA ReadIsStored ==
    ASSUME ControlTypeOK, NEW g \in Guards, ReadRecord(g), NEW f \in Guards,
           NEW e \in plan'[f]
    PROVE  e \in plan[f] \/ (e[2].enabled => e \in Enabled)
<1> DEFINE k == Min(unread[g])
<1>1. CASE f # g
  BY <1>1 DEF ReadRecord, ControlTypeOK
<1>2. CASE f = g
  <2>1. e \in plan[g] \/ (record[k] # Absent /\ e = <<k, record[k]>>)
    BY <1>2 DEF ReadRecord, ControlTypeOK
  <2>2. k \in Keys
    BY NextRead
  <2> HIDE DEF k
  <2>3. record[k] # Absent /\ e = <<k, record[k]>> /\ e[2].enabled => e \in Enabled
    BY <2>2 DEF Enabled
  <2> QED
    BY <1>2, <2>1, <2>3
<1> QED
  BY <1>1, <1>2

(* When the last record is read, what was to be read is in the plan.       *)
LEMMA AllReadLimits ==
    ASSUME ControlTypeOK, NEW g \in Guards, unread[g] = {},
           NEW P \in SUBSET Entries, \A e \in P : Unread(g, e)
    PROVE  AllowedBy(plan[g], asked[g]) <= AllowedBy(P, asked[g])
<1>1. P \subseteq plan[g]
  BY DEF Unread
<1> QED
  BY <1>1, MoreReadLessOpened DEF ControlTypeOK

LEMMA StandingStep ==
    ASSUME ControlTypeOK, StandingInv, StandingRulesBind, ControlNext
    PROVE  StandingInv' /\ StandingRulesBind'
<1> USE DEF ControlTypeOK
<1>0. ASSUME \A f \in Guards : gpc'[f] = "decided" =>
               Opened(approved'[f]) <= AllowedBy(during'[f].standing, asked'[f])
      PROVE  StandingRulesBind'
  BY <1>0 DEF StandingRulesBind, Decided
<1>1. CASE StoreChanges
  <2>1. \A f \in Guards : Loading(f) => during'[f].standing = during[f].standing \cap InForce'
    BY <1>1 DEF StoreChanges
  <2>2. \A f \in Guards : ~Loading(f) => during'[f] = during[f]
    BY <1>1 DEF StoreChanges
  <2>3. StandingInv'
    BY <1>1, <2>1, <2>2 DEF StoreChanges, StandingInv, guardVars, Loading, Unread
  <2>4. StandingRulesBind'
    BY <1>0, <1>1, <2>2 DEF StoreChanges, StandingRulesBind, guardVars, Decided, Loading
  <2> QED
    BY <2>3, <2>4
<1>2. ASSUME NEW g \in Guards, ListLimits(g)
      PROVE  StandingInv' /\ StandingRulesBind'
  <2>1. InForce' = InForce
    BY <1>2, StoreStands DEF ListLimits
  <2>2. \A f \in Guards \ {g} : /\ during'[f] = during[f] /\ gpc'[f] = gpc[f]
                               /\ asked'[f] = asked[f] /\ approved'[f] = approved[f]
                               /\ plan'[f] = plan[f] /\ unread'[f] = unread[f]
    BY <1>2 DEF ListLimits
  <2>3. gpc'[g] = "limits" /\ during'[g].standing = InForce /\ unread'[g] = index \cap RuleIds
    BY <1>2 DEF ListLimits, IdsOf
  <2>4. \A e \in InForce : e[1] \in RuleIds => e[1] \in unread'[g]
    BY <2>3, InForceIsRecorded
  <2>5. StandingInv'
    BY <2>1, <2>2, <2>3, <2>4 DEF StandingInv, Loading, Unread
  <2>6. StandingRulesBind'
    BY <1>0, <2>2, <2>3 DEF StandingRulesBind, Decided
  <2> QED
    BY <2>5, <2>6
<1>3. ASSUME NEW g \in Guards, ReadRecord(g)
      PROVE  StandingInv' /\ StandingRulesBind'
  <2>1. InForce' = InForce
    BY <1>3, StoreStands DEF ReadRecord
  <2>2. gpc' = gpc /\ during' = during /\ asked' = asked /\ approved' = approved
    BY <1>3 DEF ReadRecord
  <2>3. \A f \in Guards : \A e \in InForce : Unread(f, e) => Unread(f, e)'
    BY <1>3, ReadKeepsUnread
  <2>4. \A f \in Guards : plan[f] \subseteq plan'[f]
    BY <1>3, ReadKeepsPlan
  <2>5. StandingInv'
    BY <2>1, <2>2, <2>3, <2>4 DEF StandingInv, Loading
  <2>6. StandingRulesBind'
    BY <1>0, <2>2 DEF StandingRulesBind, Decided
  <2> QED
    BY <2>5, <2>6
<1>4. ASSUME NEW g \in Guards, ListSwitches(g)
      PROVE  StandingInv' /\ StandingRulesBind'
  <2>1. InForce' = InForce
    BY <1>4, StoreStands DEF ListSwitches
  <2>2. during' = during /\ asked' = asked /\ approved' = approved /\ plan' = plan
    BY <1>4 DEF ListSwitches
  <2>3. \A f \in Guards \ {g} : gpc'[f] = gpc[f] /\ unread'[f] = unread[f]
    BY <1>4 DEF ListSwitches
  <2>4. /\ gpc[g] = "limits" /\ unread[g] = {}
        /\ gpc'[g] = "switches" /\ unread'[g] = index \cap SwitchIds
    BY <1>4 DEF ListSwitches, IdsOf
  <2>5. \A e \in during[g].standing : e[1] \in RuleIds => e \in plan[g]
    BY <2>4 DEF StandingInv, Unread
  <2>6. \A e \in during[g].standing : e[1] \in SwitchIds => e[1] \in unread'[g]
    BY <2>4, InForceIsRecorded DEF StandingInv, Loading
  <2>7. \A e \in during[g].standing : e[1] \in RuleIds \cup SwitchIds
    BY DEF Entries, Keys
  <2>8. StandingInv'
    BY <2>1, <2>2, <2>3, <2>4, <2>5, <2>6, <2>7 DEF StandingInv, Loading, Unread
  <2>9. StandingRulesBind'
    BY <1>0, <2>2, <2>3, <2>4 DEF StandingRulesBind, Decided
  <2> QED
    BY <2>8, <2>9
<1>5. ASSUME NEW g \in Guards, Evaluate(g)
      PROVE  StandingInv' /\ StandingRulesBind'
  <2>1. InForce' = InForce
    BY <1>5, StoreStands DEF Evaluate
  <2>2. during' = during /\ asked' = asked /\ unread' = unread
    BY <1>5 DEF Evaluate
  <2>3. \A f \in Guards \ {g} : /\ gpc'[f] = gpc[f] /\ plan'[f] = plan[f]
                               /\ approved'[f] = approved[f]
    BY <1>5 DEF Evaluate
  <2>4. /\ gpc[g] = "switches" /\ unread[g] = {} /\ gpc'[g] = "decided"
        /\ approved'[g] = evaluate_open_request(plan[g], asked[g])
    BY <1>5 DEF Evaluate
  <2>5. StandingInv'
    BY <2>1, <2>2, <2>3, <2>4 DEF StandingInv, Loading, Unread
  <2>6. AllowedBy(plan[g], asked[g]) <= AllowedBy(during[g].standing, asked[g])
    BY <2>4, AllReadLimits DEF StandingInv
  <2>7. Opened(approved'[g]) <= AllowedBy(during[g].standing, asked[g])
    BY <2>4, <2>6 DEF AllowedBy
  <2>8. StandingRulesBind'
    BY <1>0, <2>2, <2>3, <2>7 DEF StandingRulesBind, Decided
  <2> QED
    BY <2>5, <2>8
<1> QED
  BY <1>1, <1>2, <1>3, <1>4, <1>5 DEF ControlNext, GuardStep

-----------------------------------------------------------------------------
(* Records that are not enabled make no difference.                        *)
LEMMA OnlyEnabledCounts ==
    ASSUME NEW p, NEW q
    PROVE  AllowedBy({e \in p : e[2].enabled}, q) = AllowedBy(p, q)
<1> DEFINE on == {e \in p : e[2].enabled}
<1>1. limit_rules(on) = limit_rules(p)
  BY DEF limit_rules
<1>2. switches(on) = switches(p)
  BY DEF switches
<1> HIDE DEF on
<1>3. evaluate_open_request(on, q) = evaluate_open_request(p, q)
  BY <1>1, <1>2, Zenon DEF evaluate_open_request, _is_reduce_only_active, _matching_limit_values
<1>4. AllowedBy(on, q) = AllowedBy(p, q)
  BY <1>3, Zenon DEF AllowedBy
<1> QED
  BY <1>4 DEF on

(* One guard at a time, as for the gap below.                              *)
Cause(g) ==
    /\ Loading(g) => /\ Enabled \subseteq during[g].seen
                     /\ \A e \in plan[g] : e[2].enabled => e \in during[g].seen
    /\ Decided(g) => AllowedBy(during[g].seen, asked[g]) <= Opened(approved[g])

LEMMA CauseOfEach == SeenInv /\ RefusalHasCause <=> \A g \in Guards : Cause(g)
BY DEF SeenInv, RefusalHasCause, Cause

LEMMA CauseOfEachNext ==
    (\A g \in Guards : Cause(g)') => SeenInv' /\ RefusalHasCause'
BY DEF SeenInv, RefusalHasCause, Cause

(* A guard that a step does not touch, in a store that stands.             *)
LEMMA CauseStands ==
    ASSUME NEW g \in Guards, Cause(g), Enabled' = Enabled, during'[g] = during[g],
           gpc'[g] = gpc[g], asked'[g] = asked[g], plan'[g] = plan[g],
           approved'[g] = approved[g]
    PROVE  Cause(g)'
BY DEF Cause, Loading, Decided

LEMMA CauseStep ==
    ASSUME ControlTypeOK, SeenInv, RefusalHasCause, ControlNext
    PROVE  SeenInv' /\ RefusalHasCause'
<1> USE DEF ControlTypeOK
<1> SUFFICES ASSUME NEW f \in Guards
             PROVE  Cause(f)'
  BY CauseOfEachNext
<1>0. Cause(f)
  BY CauseOfEach
<1>1. CASE StoreChanges
  <2>1. /\ gpc'[f] = gpc[f] /\ asked'[f] = asked[f] /\ plan'[f] = plan[f]
        /\ approved'[f] = approved[f]
    BY <1>1 DEF StoreChanges, guardVars
  <2>2. CASE Loading(f)
    <3>1. during'[f].seen = during[f].seen \cup Enabled'
      BY <1>1, <2>2 DEF StoreChanges
    <3> QED
      BY <1>0, <2>1, <2>2, <3>1 DEF Cause, Loading, Decided
  <2>3. CASE ~Loading(f)
    <3>1. during'[f] = during[f]
      BY <1>1, <2>3 DEF StoreChanges
    <3> QED
      BY <1>0, <2>1, <2>3, <3>1 DEF Cause, Loading, Decided
  <2> QED
    BY <2>2, <2>3
<1>2. ASSUME NEW g \in Guards, ListLimits(g)
      PROVE  Cause(f)'
  <2>1. Enabled' = Enabled
    BY <1>2, StoreStands DEF ListLimits
  <2>2. CASE f # g
    BY <1>0, <1>2, <2>1, <2>2, CauseStands DEF ListLimits
  <2>3. CASE f = g
    <3>1. gpc'[g] = "limits" /\ during'[g].seen = Enabled /\ plan'[g] = {}
      BY <1>2 DEF ListLimits
    <3> QED
      BY <2>1, <2>3, <3>1 DEF Cause, Loading, Decided
  <2> QED
    BY <2>2, <2>3
<1>3. ASSUME NEW g \in Guards, ReadRecord(g)
      PROVE  Cause(f)'
  <2>1. Enabled' = Enabled
    BY <1>3, StoreStands DEF ReadRecord
  <2>2. gpc' = gpc /\ during' = during /\ asked' = asked /\ approved' = approved
    BY <1>3 DEF ReadRecord
  <2>3. \A e \in plan'[f] : e \in plan[f] \/ (e[2].enabled => e \in Enabled)
    BY <1>3, ReadIsStored
  <2> QED
    BY <1>0, <2>1, <2>2, <2>3 DEF Cause, Loading, Decided
<1>4. ASSUME NEW g \in Guards, ListSwitches(g)
      PROVE  Cause(f)'
  <2>1. Enabled' = Enabled
    BY <1>4, StoreStands DEF ListSwitches
  <2>2. /\ during' = during /\ asked' = asked /\ approved' = approved /\ plan' = plan
        /\ gpc[g] = "limits" /\ gpc' = [gpc EXCEPT ![g] = "switches"]
    BY <1>4 DEF ListSwitches
  <2>3. Loading(f)' <=> Loading(f)
    BY <2>2 DEF Loading
  <2>4. Decided(f)' <=> Decided(f)
    BY <2>2 DEF Decided
  <2> QED
    BY <1>0, <2>1, <2>2, <2>3, <2>4 DEF Cause
<1>5. ASSUME NEW g \in Guards, Evaluate(g)
      PROVE  Cause(f)'
  <2>1. Enabled' = Enabled
    BY <1>5, StoreStands DEF Evaluate
  <2>2. CASE f # g
    BY <1>0, <1>5, <2>1, <2>2, CauseStands DEF Evaluate
  <2>3. CASE f = g
    <3>1. /\ gpc[g] = "switches" /\ gpc'[g] = "decided"
          /\ approved'[g] = evaluate_open_request(plan[g], asked[g])
          /\ during'[g] = during[g] /\ asked'[g] = asked[g]
      BY <1>5 DEF Evaluate
    <3> DEFINE on == {e \in plan[g] : e[2].enabled}
    <3>2. on \subseteq during[g].seen
      BY <1>0, <2>3, <3>1 DEF Cause, Loading
    <3>3. during[g].seen \in SUBSET Entries
      BY DEF During
    <3>4. AllowedBy(during[g].seen, asked[g]) <= AllowedBy(on, asked[g])
      <4> HIDE DEF on
      <4> QED
        BY <3>2, <3>3, MoreReadLessOpened
    <3>5. AllowedBy(on, asked[g]) = Opened(approved'[g])
      BY <3>1, OnlyEnabledCounts DEF AllowedBy
    <3> QED
      BY <2>3, <3>1, <3>4, <3>5 DEF Cause, Loading, Decided
  <2> QED
    BY <2>2, <2>3
<1> QED
  BY <1>1, <1>2, <1>3, <1>4, <1>5 DEF ControlNext, GuardStep

-----------------------------------------------------------------------------
(* One guard at a time: the part of GapInv and NoGapWhileTightening that   *)
(* speaks of g.                                                            *)
Gap(g) ==
    ~during[g].lifted =>
       /\ gpc[g] = "limits" =>
             /\ AllowedBy(InForce, asked[g]) <= during[g].worst
             /\ \A e \in InForce : e[1] \in RuleIds => Unread(g, e)
       /\ gpc[g] = "switches" => \E P \in SUBSET Entries : Moment(g, P)
       /\ gpc[g] = "decided" => Opened(approved[g]) <= during[g].worst

LEMMA GapOfEach == GapInv /\ NoGapWhileTightening <=> \A g \in Guards : Gap(g)
BY DEF GapInv, NoGapWhileTightening, Gap, Decided

LEMMA GapOfEachNext ==
    (\A g \in Guards : Gap(g)') => GapInv' /\ NoGapWhileTightening'
BY DEF GapInv, NoGapWhileTightening, Gap, Decided

(* A guard that a step does not touch, in a store that stands.             *)
LEMMA GapStands ==
    ASSUME NEW g \in Guards, Gap(g), InForce' = InForce, during'[g] = during[g],
           gpc'[g] = gpc[g], asked'[g] = asked[g], plan'[g] = plan[g],
           unread'[g] = unread[g], approved'[g] = approved[g]
    PROVE  Gap(g)'
BY DEF Gap, Moment, Unread

LEMMA GapStoreChanges ==
    ASSUME ControlTypeOK, StoreChanges, NEW g \in Guards, Gap(g)
    PROVE  Gap(g)'
<1> USE DEF ControlTypeOK
<1>1. /\ gpc'[g] = gpc[g] /\ asked'[g] = asked[g] /\ plan'[g] = plan[g]
      /\ unread'[g] = unread[g] /\ approved'[g] = approved[g]
  BY DEF StoreChanges, guardVars
<1>2. CASE ~Loading(g)
  <2>1. during'[g] = during[g]
    BY <1>2 DEF StoreChanges
  <2> QED
    BY <1>1, <1>2, <2>1 DEF Gap, Loading
<1>3. CASE Loading(g)
  <2>1. /\ during'[g].worst = Max({during[g].worst, AllowedBy(InForce', asked[g])})
        /\ ~during'[g].lifted => ~during[g].lifted /\ ~Lifts
    BY <1>3 DEF StoreChanges
  <2>2. StoreTypeOK' /\ InForce' \in SUBSET Entries
    BY StoreTypeStep, InForceTypeNext DEF StoreChanges
  <2>3. AllowedBy(InForce', asked[g]) \in Nat
    BY <2>2, DecisionType
  <2>4. during[g].worst \in Nat
    OBVIOUS
  <2>5. /\ during'[g].worst \in Nat
        /\ during[g].worst <= during'[g].worst
        /\ AllowedBy(InForce', asked[g]) <= during'[g].worst
    <3> DEFINE a == AllowedBy(InForce', asked[g])
               w == during[g].worst
    <3>1. during'[g].worst = Max({w, a}) /\ w \in Nat /\ a \in Nat
      BY <2>1, <2>3, <2>4
    <3> HIDE DEF a, w
    <3>2. during'[g].worst \in Nat /\ w <= during'[g].worst /\ a <= during'[g].worst
      BY <3>1, MaxOfTwo
    <3> QED
      BY <3>2 DEF a, w
  <2>6. ASSUME ~during'[g].lifted, gpc[g] = "limits"
        PROVE  \A e \in InForce' : e[1] \in RuleIds => Unread(g, e)'
    BY <1>1, <2>1, <2>6 DEF Gap, Lifts, Unread
  <2>7. ASSUME ~during'[g].lifted, gpc[g] = "switches"
        PROVE  \E P \in SUBSET Entries : Moment(g, P)'
    <3>1. PICK P \in SUBSET Entries : Moment(g, P)
      BY <2>1, <2>7 DEF Gap
    <3>2. AllowedBy(P, asked[g]) \in Nat
      BY DecisionType
    <3>3. AllowedBy(P, asked[g]) <= during'[g].worst
      BY <2>4, <2>5, <3>1, <3>2 DEF Moment
    <3>4. \A e \in P : e[1] \in SwitchIds => e \in InForce'
      BY <2>1, <2>7, <3>1 DEF Moment, Lifts
    <3>5. Moment(g, P)'
      BY <1>1, <3>1, <3>3, <3>4 DEF Moment, Unread
    <3> QED
      BY <3>5
  <2> QED
    BY <1>1, <1>3, <2>5, <2>6, <2>7 DEF Gap, Loading
<1> QED
  BY <1>2, <1>3

LEMMA GapStep ==
    ASSUME ControlTypeOK, GapInv, NoGapWhileTightening, ControlNext
    PROVE  GapInv' /\ NoGapWhileTightening'
<1> USE DEF ControlTypeOK
<1> SUFFICES ASSUME NEW f \in Guards
             PROVE  Gap(f)'
  BY GapOfEachNext
<1>0. Gap(f)
  BY GapOfEach
<1>1. CASE StoreChanges
  BY <1>0, <1>1, GapStoreChanges
<1>2. ASSUME NEW g \in Guards, ListLimits(g)
      PROVE  Gap(f)'
  <2>1. InForce' = InForce
    BY <1>2, StoreStands DEF ListLimits
  <2>2. CASE f # g
    BY <1>0, <1>2, <2>1, <2>2, GapStands DEF ListLimits
  <2>3. CASE f = g
    <3>1. PICK q \in OpenRequests :
             /\ asked' = [asked EXCEPT ![g] = q]
             /\ during' = [during EXCEPT ![g] =
                   [standing |-> InForce, seen |-> Enabled,
                  worst |-> AllowedBy(InForce, q), lifted |-> FALSE]]
      BY <1>2 DEF ListLimits
    <3>2. gpc'[g] = "limits" /\ asked'[g] = q /\ during'[g].worst = AllowedBy(InForce, q)
      BY <1>2, <3>1 DEF ListLimits
    <3>3. AllowedBy(InForce, q) \in Nat
      BY InForceType, DecisionType
    <3>4. \A e \in InForce : e[1] \in RuleIds => e[1] \in unread'[g]
      BY <1>2, InForceIsRecorded DEF ListLimits, IdsOf
    <3> QED
      BY <2>1, <2>3, <3>2, <3>3, <3>4 DEF Gap, Unread
  <2> QED
    BY <2>2, <2>3
<1>3. ASSUME NEW g \in Guards, ReadRecord(g)
      PROVE  Gap(f)'
  <2>1. InForce' = InForce
    BY <1>3, StoreStands DEF ReadRecord
  <2>2. gpc' = gpc /\ during' = during /\ asked' = asked /\ approved' = approved
    BY <1>3 DEF ReadRecord
  <2>3. \A e \in InForce : Unread(f, e) => Unread(f, e)'
    BY <1>3, ReadKeepsUnread
  <2>4. plan[f] \subseteq plan'[f]
    BY <1>3, ReadKeepsPlan
  <2>5. ASSUME NEW P \in SUBSET Entries, Moment(f, P)
        PROVE  Moment(f, P)'
    BY <2>1, <2>2, <2>3, <2>4, <2>5 DEF Moment
  <2> QED
    BY <1>0, <2>1, <2>2, <2>3, <2>5 DEF Gap
<1>4. ASSUME NEW g \in Guards, ListSwitches(g)
      PROVE  Gap(f)'
  <2>1. InForce' = InForce
    BY <1>4, StoreStands DEF ListSwitches
  <2>2. CASE f # g
    BY <1>0, <1>4, <2>1, <2>2, GapStands DEF ListSwitches
  <2>3. CASE f = g /\ ~during[g].lifted
    <3>1. /\ gpc[g] = "limits" /\ unread[g] = {}
          /\ gpc'[g] = "switches" /\ unread'[g] = index \cap SwitchIds
          /\ during'[g] = during[g] /\ asked'[g] = asked[g] /\ plan'[g] = plan[g]
      BY <1>4 DEF ListSwitches, IdsOf
    <3>2. \A e \in InForce : e[1] \in RuleIds => e \in plan[g]
      BY <1>0, <2>3, <3>1 DEF Gap, Unread
    <3>3. \A e \in InForce : e[1] \in SwitchIds => e[1] \in unread'[g]
      BY <3>1, InForceIsRecorded
    <3>4. AllowedBy(InForce, asked[g]) <= during[g].worst
      BY <1>0, <2>3, <3>1 DEF Gap
    <3>5. InForce \in SUBSET Entries
      BY InForceType
    <3>6. ASSUME NEW P \in SUBSET Entries, P = InForce
          PROVE  Moment(g, P)'
      BY <2>1, <3>1, <3>2, <3>3, <3>4, <3>6 DEF Moment, Unread
    <3> QED
      BY <2>3, <3>1, <3>5, <3>6 DEF Gap
  <2>4. CASE f = g /\ during[g].lifted
    BY <1>4, <2>4 DEF ListSwitches, Gap
  <2> QED
    BY <2>2, <2>3, <2>4
<1>5. ASSUME NEW g \in Guards, Evaluate(g)
      PROVE  Gap(f)'
  <2>1. InForce' = InForce
    BY <1>5, StoreStands DEF Evaluate
  <2>2. CASE f # g
    BY <1>0, <1>5, <2>1, <2>2, GapStands DEF Evaluate
  <2>3. CASE f = g /\ ~during[g].lifted
    <3>1. /\ gpc[g] = "switches" /\ unread[g] = {} /\ gpc'[g] = "decided"
          /\ approved'[g] = evaluate_open_request(plan[g], asked[g])
          /\ during'[g] = during[g]
      BY <1>5 DEF Evaluate
    <3>2. PICK P \in SUBSET Entries : Moment(g, P)
      BY <1>0, <2>3, <3>1 DEF Gap
    <3>3. \A e \in P : Unread(g, e)
      BY <3>2 DEF Moment, Unread, Entries, Keys
    <3>4. AllowedBy(plan[g], asked[g]) <= AllowedBy(P, asked[g])
      BY <3>1, <3>3, AllReadLimits
    <3>5. /\ AllowedBy(plan[g], asked[g]) \in Nat /\ AllowedBy(P, asked[g]) \in Nat
          /\ during[g].worst \in Nat
      BY DecisionType
    <3>6. Opened(approved'[g]) <= during[g].worst
      BY <3>1, <3>2, <3>4, <3>5 DEF Moment, AllowedBy
    <3> QED
      BY <2>3, <3>1, <3>6 DEF Gap
  <2>4. CASE f = g /\ during[g].lifted
    BY <1>5, <2>4 DEF Evaluate, Gap
  <2> QED
    BY <2>2, <2>3, <2>4
<1> QED
  BY <1>1, <1>2, <1>3, <1>4, <1>5 DEF ControlNext, GuardStep

-----------------------------------------------------------------------------
(* ControlInv is inductive.                                                *)
LEMMA ControlInvInit == ControlInit => ControlInv
<1> SUFFICES ASSUME ControlInit
             PROVE  ControlInv
  OBVIOUS
<1>1. StoreTypeOK /\ AloneInv
  BY StoreTypeInit, AloneInit DEF ControlInit
<1>2. during \in [Guards -> During]
  BY DEF ControlInit, NothingSeen, During
<1>3. ControlTypeOK
  BY <1>1, <1>2 DEF ControlInit, ControlTypeOK, During
<1>4. \A g \in Guards : gpc[g] = "idle"
  BY DEF ControlInit
<1> QED
  BY <1>1, <1>3, <1>4
     DEF ControlInv, ControlInit, NothingSeen, StandingInv, StandingRulesBind, GapInv,
         SeenInv, RefusalHasCause, NoGapWhileTightening, Loading, Decided

LEMMA ControlInvStep == ControlInv /\ [ControlNext]_controlVars => ControlInv'
<1> SUFFICES ASSUME ControlInv, [ControlNext]_controlVars
             PROVE  ControlInv'
  OBVIOUS
<1> USE DEF ControlInv
<1>1. CASE ControlNext
  <2>1. ControlTypeOK'
    BY <1>1, ControlTypeStep
  <2>2. AloneInv'
    <3>1. CASE StoreChanges
      BY <3>1, AloneStep DEF StoreChanges, ControlTypeOK
    <3>2. CASE GuardStep
      <4>1. UNCHANGED storeVars
        BY <3>2 DEF GuardStep, ListLimits, ReadRecord, ListSwitches, Evaluate
      <4> QED
        BY <4>1 DEF storeVars, AloneInv, OnKey
    <3> QED
      BY <1>1, <3>1, <3>2 DEF ControlNext
  <2>3. StandingInv' /\ StandingRulesBind'
    BY <1>1, StandingStep
  <2>4. SeenInv' /\ RefusalHasCause'
    BY <1>1, CauseStep
  <2>5. GapInv' /\ NoGapWhileTightening'
    BY <1>1, GapStep
  <2> QED
    BY <2>1, <2>2, <2>3, <2>4, <2>5
<1>2. CASE UNCHANGED controlVars
  <2> USE <1>2 DEF controlVars, guardVars
  <2>1. ControlTypeOK' /\ AloneInv'
    BY DEF storeVars, ControlTypeOK, StoreTypeOK, AloneInv, OnKey
  <2>2. InForce' = InForce /\ Enabled' = Enabled
    BY StoreStands
  <2>3. StandingInv' /\ StandingRulesBind'
    BY <2>2 DEF StandingInv, StandingRulesBind, Loading, Decided, Unread
  <2>4. GapInv' /\ NoGapWhileTightening'
    BY <2>2, GapOfEach, GapOfEachNext, GapStands
  <2>5. SeenInv' /\ RefusalHasCause'
    BY <2>2, CauseOfEach, CauseOfEachNext, CauseStands
  <2> QED
    BY <2>1, <2>3, <2>4, <2>5
<1> QED
  BY <1>1, <1>2

(* The invariant all theorems of this module follow from.                  *)
THEOREM ControlInvariant == ControlSpec => []ControlInv
BY ControlInvInit, ControlInvStep, PTL DEF ControlSpec

(* Every variable of the control store and of the guards keeps its type.   *)
THEOREM ControlTypeCorrect == ControlSpec => []ControlTypeOK
<1>1. ControlInv => ControlTypeOK
  BY DEF ControlInv
<1> QED
  BY <1>1, ControlInvariant, PTL

(* However requests overlapped and failed before, one that has a key to    *)
(* itself and ends well leaves record and index in agreement.              *)
THEOREM SettledKeysListed == ControlSpec => []SettledKeyIsListed
<1>1. ControlInv => SettledKeyIsListed
  BY DEF ControlInv, AloneInv, SettledKeyIsListed
<1> QED
  BY <1>1, ControlInvariant, PTL

(* A guard obeys whatever was listed for the whole of its load, whatever   *)
(* happens to any number of other records meanwhile.                       *)
THEOREM StandingRulesAlwaysBind == ControlSpec => []StandingRulesBind
<1>1. ControlInv => StandingRulesBind
  BY DEF ControlInv
<1> QED
  BY <1>1, ControlInvariant, PTL

(* For any records and any number of requests during a load, a guard opens *)
(* what some set of records would: all that stood throughout, and nothing  *)
(* that was never there enabled.                                           *)
THEOREM RefusalsHaveCauses == ControlSpec => []RefusalHasCause
<1>1. ControlInv => RefusalHasCause
  BY DEF ControlInv
<1> QED
  BY <1>1, ControlInvariant, PTL

(* With no switch lifted and no rule put during a load, its decision opens *)
(* no more than the store did at some moment of it.                        *)
THEOREM TighteningLeavesNoGap == ControlSpec => []NoGapWhileTightening
<1>1. ControlInv => NoGapWhileTightening
  BY DEF ControlInv
<1> QED
  BY <1>1, ControlInvariant, PTL
=============================================================================
