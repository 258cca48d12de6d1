------------------------------ MODULE Requests ------------------------------
(***************************************************************************)
(* What the message callback of main.cpp makes of one message: the checks  *)
(* of a data report (parseModbusMsg) and the replies to keepAlive and      *)
(* reboot requests.  The handshake of a reboot is in DatabaseApp.          *)
(*                                                                         *)
(* A JSON value is its type and a number: an integer's value, a string's   *)
(* length.  The six leading fields of a report are checked in the same     *)
(* way, so one integer and one string field stand for them.  A register's  *)
(* remaining keys, in the order the parser visits them (sorted), are 1, 2, *)
(* ...; AddressOf is what std::stoi makes of each.                         *)
(***************************************************************************)
EXTENDS Integers, Sequences

CONSTANTS Half,      \* 2^31, for an int of 32 bits
          AddressOf, \* std::stoi of each address key, or Throws
          Throws,
          Garbage,   \* a payload that is no JSON
          NoArray,   \* a register_map that is absent or no array
          Payloads   \* the payloads, by topic

ASSUME RequestAssumption ==
  /\ Half \in Nat \ {0}
  /\ Throws \notin Int
  /\ DOMAIN AddressOf \subseteq Nat
  /\ \A k \in DOMAIN AddressOf : AddressOf[k] \in Int \cup {Throws}

VARIABLES topic, payload, \* the message in the callback
          outcome         \* what became of it

vars == <<topic, payload, outcome>>

Absent == [type |-> "absent", n |-> 0]
IsInt(j) == j.type = "int"
IsString(j) == j.type = "string"

Masked(n) == n % Half
(* get<int>() keeps the low 32 bits. *)
Wrapped(n) == ((n + Half) % (2 * Half)) - Half
Int32(j) == Wrapped(j.n)
-----------------------------------------------------------------------------
(* parseModbusMsg. *)
Last(keys) == CHOOSE k \in keys : \A l \in keys : l <= k

(* A field that is absent keeps its initial value, -1 or empty. *)
IntOf(j) == IF j = Absent THEN -1 ELSE Int32(j)

(* Each address key replaces the one before. *)
RegisterItem(item) ==
  LET keys == DOMAIN item.addresses
  IN  [address     |-> IF keys = {} THEN -1 ELSE AddressOf[Last(keys)],
       map_addr    |-> IF keys = {} THEN -1 ELSE Int32(item.addresses[Last(keys)]),
       value       |-> IntOf(item.value),
       description |-> item.description.n]

SwappedItem(item) ==
  [RegisterItem(item) EXCEPT !.address = RegisterItem(item).map_addr,
                             !.map_addr = RegisterItem(item).address]
Register(item) == RegisterItem(item)

Typed(item) ==
  /\ IsInt(item.value) \/ item.value = Absent
  /\ IsString(item.description) \/ item.description = Absent
  /\ \A k \in DOMAIN item.addresses :
       IsInt(item.addresses[k]) /\ AddressOf[k] # Throws

CompleteIfPositive(item) ==
  /\ Register(item).address >= 0 /\ Register(item).map_addr >= 0
  /\ Register(item).value >= 0 /\ Register(item).description # 0

Complete(item) ==
  /\ Register(item).address # -1 /\ Register(item).map_addr # -1
  /\ Register(item).value # -1 /\ Register(item).description # 0

FirstComplete(items) ==
  \A i \in DOMAIN items : Typed(items[i]) /\ (i = 1 => Complete(items[i]))
RegistersOk(items) == \A i \in DOMAIN items : Typed(items[i]) /\ Complete(items[i])

ParseModbusMsg(r) ==
  /\ IsInt(r.id) /\ IsString(r.timestamp)
  /\ r.register_map # NoArray
  /\ RegistersOk(r.register_map)

Discarded == [kind |-> "discarded"]
Waiting == [kind |-> "waiting"]

Enqueued(r) ==
  [kind |-> "enqueued", id |-> Int32(r.id),
   registers |-> [i \in DOMAIN r.register_map |-> Register(r.register_map[i])]]

(* "token" must be an integer. *)
Reply(token) == [kind |-> "reply", token |-> Int32(token)]

Outcome(t, p) ==
  IF p = Garbage THEN Discarded
  ELSE IF t = "report" THEN (IF ParseModbusMsg(p) THEN Enqueued(p) ELSE Discarded)
  ELSE IF IsInt(p) THEN Reply(p) ELSE Discarded
-----------------------------------------------------------------------------
Init == topic = "none" /\ payload = Garbage /\ outcome = Discarded

(* One message at a time: the callback runs on the network thread. *)
Receive(t) ==
  /\ topic = "none"
  /\ topic' = t
  /\ payload' \in Payloads[t]
  /\ outcome' = Waiting

(* publish() may fail; the request then has no reply. *)
Handle ==
  /\ outcome = Waiting
  /\ \/ outcome' = Outcome(topic, payload)
     \/ Outcome(topic, payload).kind = "reply" /\ outcome' = Discarded
  /\ UNCHANGED <<topic, payload>>

Return ==
  /\ topic # "none" /\ outcome # Waiting
  /\ topic' = "none" /\ payload' = Garbage /\ outcome' = Discarded

Next == (\E t \in DOMAIN Payloads : Receive(t)) \/ Handle \/ Return

Spec == Init /\ [][Next]_vars
-----------------------------------------------------------------------------
Fits(j) == j.n \in -Half .. Half - 1

(* What the sample (data/modbusMasterMsg.json) and RegisterItem ask of a    *)
(* register: one address key that is a number, value, description.          *)
WellFormed(item) ==
  /\ \E k \in DOMAIN AddressOf :
       /\ DOMAIN item.addresses = {k}
       /\ AddressOf[k] \in Nat
       /\ IsInt(item.addresses[k]) /\ item.addresses[k].n \in 0 .. Half - 1
  /\ IsInt(item.value) /\ Fits(item.value)
  /\ IsString(item.description) /\ item.description.n > 0

WellFormedReport(r) ==
  /\ IsInt(r.id) /\ Fits(r.id) /\ IsString(r.timestamp)
  /\ r.register_map # NoArray
  /\ \A i \in DOMAIN r.register_map : WellFormed(r.register_map[i])

(* A report is enqueued only if each of its registers has an address, a map *)
(* address, a value and a description, wherever in the array it stands.     *)
NothingMissing ==
  outcome.kind = "enqueued" =>
     \A i \in DOMAIN payload.register_map :
        LET item == payload.register_map[i]
        IN  /\ DOMAIN item.addresses # {} /\ item.value # Absent
            /\ item.description.n # 0

(* The registers of a well-formed report are queued in order, each number   *)
(* in its place and unchanged.                                              *)
RegistersAsSent ==
  outcome.kind = "enqueued" /\ WellFormedReport(payload) =>
     \A i \in DOMAIN payload.register_map :
        LET item == payload.register_map[i]
            reg == outcome.registers[i]
        IN  /\ reg.value = item.value.n
            /\ \E k \in DOMAIN item.addresses :
                 reg.address = AddressOf[k] /\ reg.map_addr = item.addresses[k].n

(* README.md:100 and :111, as far as an int reaches: the reply carries the  *)
(* token of the request.                                                    *)
TokenEchoed == outcome.kind = "reply" /\ Fits(payload) => outcome.token = payload.n

(* README.md:67: a report that follows the structure is stored in the queue *)
(* - unless a register's value is -1, which the parser takes for missing.   *)
WellFormedEnqueued ==
  topic = "report" /\ payload # Garbage /\ outcome = Discarded /\ WellFormedReport(payload)
    => \E i \in DOMAIN payload.register_map : payload.register_map[i].value.n = -1
=============================================================================
