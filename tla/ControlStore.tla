---------------------------- MODULE ControlStore ----------------------------
(***************************************************************************)
(* ControlPlaneStore (app/admin/control_store.py) under the requests of    *)
(* control-admin (app/runtime/control_admin_service.py).                   *)
(*                                                                         *)
(* A limit rule, a switch and an announcement are kept the same way: one   *)
(* Redis key per record and one index set per kind, which is all a reader  *)
(* goes by.  No write of both is atomic: put is SET then SADD, delete is   *)
(* DEL then SREM, and the handlers of one aiohttp process interleave at    *)
(* each await.  An error of the second call answers 503 and undoes         *)
(* nothing.                                                                *)
(*                                                                         *)
(* rule_id and switch_id order as their strings do; they are numbers here, *)
(* since readers visit them in order.                                      *)
(***************************************************************************)
EXTENDS Integers, FiniteSets

CONSTANTS
    RuleIds, SwitchIds,  \* the keys of the two index sets a guard reads
    LimitRecords,        \* LimitRuleRecords an operator may put
    SwitchOf,            \* switch_id -> [switch_key, scope_type, scope_id]
    Handlers,            \* HTTP requests that can be in flight together
    MaxRequests,         \* bound: requests
    MaxRedisErrors       \* bound: second calls that fail

Keys == RuleIds \cup SwitchIds

ASSUME ControlAssumption ==
    /\ RuleIds \subseteq Nat
    /\ SwitchIds \subseteq Nat
    /\ RuleIds \cap SwitchIds = {}
    /\ IsFiniteSet(Keys)
    /\ \A r \in LimitRecords :
          /\ DOMAIN r = {"scope_type", "scope_id", "symbol", "exchange",
                          "limit_type", "limit_value", "enabled"}
          /\ r.limit_value \in Int
          /\ \E low \in LimitRecords : \A s \in LimitRecords : low.limit_value <= s.limit_value
          /\ r.enabled \in BOOLEAN
    /\ MaxRequests \in Nat
    /\ MaxRedisErrors \in Nat

VARIABLES
    record,    \* control:limits:{id} and control:switches:{id}
    index,     \* control:limits:index and control:switches:index
    request,   \* what each handler has still to do
    requests,  \* requests so far
    errors,    \* Redis errors so far
    settled    \* history: keys whose last request ended well, alone on its key

storeVars == <<record, index, request, requests, errors, settled>>

Absent == [absent |-> TRUE]
NoRequest == [call |-> "none"]
SwitchRecords == [enabled : BOOLEAN]

AnyRecord == LimitRecords \cup SwitchRecords
RecordsOf(k) == IF k \in RuleIds THEN LimitRecords ELSE SwitchRecords
Requests == [call : {"sadd", "srem"}, key : Keys, alone : BOOLEAN]

StoreTypeOK ==
    /\ record \in [Keys -> AnyRecord \cup {Absent}]
    /\ \A k \in Keys : record[k] \in RecordsOf(k) \cup {Absent}
    /\ index \subseteq Keys
    /\ request \in [Handlers -> Requests \cup {NoRequest}]
    /\ requests \in 0..MaxRequests
    /\ errors \in 0..MaxRedisErrors
    /\ settled \subseteq Keys

(* Everything put before is listed.                                        *)
StoreInit ==
    /\ record \in {r \in [Keys -> AnyRecord \cup {Absent}] :
                      \A k \in Keys : r[k] \in RecordsOf(k) \cup {Absent}}
    /\ index = {k \in Keys : record[k] # Absent}
    /\ request = [h \in Handlers |-> NoRequest]
    /\ requests = 0
    /\ errors = 0
    /\ settled = Keys

-----------------------------------------------------------------------------
OnKey(k) == {h \in Handlers : request[h] # NoRequest /\ request[h].key = k}

(* The first Redis call of a handler.  Requests that meet on a key are     *)
(* marked, for the history.                                                *)
Begin(h, k, call) ==
    /\ request[h] = NoRequest
    /\ requests < MaxRequests
    /\ requests' = requests + 1
    /\ request' = [g \in Handlers |->
                     IF g = h THEN [call |-> call, key |-> k, alone |-> OnKey(k) = {}]
                     ELSE IF g \in OnKey(k) THEN [request[g] EXCEPT !.alone = FALSE]
                     ELSE request[g]]
    /\ settled' = settled \ {k}
    /\ UNCHANGED <<index, errors>>

(* put_limit_rule, put_switch: SET, also over an older record.             *)
PutRecord(h) ==
    \E k \in Keys : \E r \in RecordsOf(k) :
       /\ Begin(h, k, "sadd")
       /\ record' = [record EXCEPT ![k] = r]

(* delete_limit_rule, delete_switch: DEL, whether or not there is a record.*)
DeleteRecord(h) ==
    \E k \in Keys :
       /\ Begin(h, k, "srem")
       /\ record' = [record EXCEPT ![k] = Absent]

End(h) ==
    /\ request' = [request EXCEPT ![h] = NoRequest]
    /\ UNCHANGED <<record, requests>>

Settle(h) ==
    /\ settled' = IF request[h].alone THEN settled \cup {request[h].key} ELSE settled
    /\ UNCHANGED errors

IndexRecord_Never(h) ==   \* mutant: the SADD is forgotten
    /\ request[h] # NoRequest
    /\ request[h].call = "sadd"
    /\ UNCHANGED index
    /\ End(h)
    /\ Settle(h)
(* SADD and the answer 200.                                                *)
IndexRecord(h) ==
    /\ request[h] # NoRequest
    /\ request[h].call = "sadd"
    /\ index' = index \cup {request[h].key}
    /\ End(h)
    /\ Settle(h)

(* SREM and the answer 200.                                                *)
UnindexRecord(h) ==
    /\ request[h] # NoRequest
    /\ request[h].call = "srem"
    /\ index' = index \ {request[h].key}
    /\ End(h)
    /\ Settle(h)

(* The second call raises, carried out or not; the answer is 503.          *)
RequestFails(h) ==
    /\ request[h] # NoRequest
    /\ errors < MaxRedisErrors
    /\ errors' = errors + 1
    /\ \/ index' = index
       \/ index' = IF request[h].call = "sadd" THEN index \cup {request[h].key}
                   ELSE index \ {request[h].key}
    /\ UNCHANGED settled
    /\ End(h)

StoreStep ==
    \E h \in Handlers : \/ PutRecord(h)
                        \/ DeleteRecord(h)
                        \/ IndexRecord(h)
                        \/ UnindexRecord(h)
                        \/ RequestFails(h)

(* What a reader that could read everything at once would go by.           *)
Listed == {k \in index : record[k] # Absent}
Entries == {e \in Keys \X AnyRecord : e[2] \in RecordsOf(e[1])}
InForce == {<<k, record[k]>> : k \in {j \in Listed : record[j].enabled}}

(* What some GET could bring a reader to go by: a record is there from its *)
(* SET on, before it is listed.                                            *)
Enabled == {<<k, record[k]>> : k \in {j \in Keys : record[j] # Absent /\ record[j].enabled}}

-----------------------------------------------------------------------------
(* After any mix of overlapping and failed requests on a key, one request  *)
(* that has the key to itself and ends well puts the index right again: a  *)
(* record is listed exactly if it exists.                                  *)
SettledKeyIsListed == \A k \in settled : k \in index <=> record[k] # Absent
=============================================================================
