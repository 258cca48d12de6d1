--------------------------- MODULE RequestsProofs ---------------------------
(***************************************************************************)
(* What Requests promises of the message callback, for ints of any width   *)
(* and any payloads: tokens that fit are echoed, no incomplete register is *)
(* queued, and a well-formed report without a value of -1 is queued, its   *)
(* registers as they were sent.                                            *)
(***************************************************************************)
EXTENDS Requests, TLAPS

(* x % n is x itself below n. *)
LEMMA SmallMod ==
  ASSUME NEW n \in Nat \ {0}, NEW x \in 0 .. n - 1
  PROVE  x % n = x
  BY SMT

(* get<int>() keeps a number that fits. *)
LEMMA WrapKeeps ==
  ASSUME NEW n \in -Half .. Half - 1
  PROVE  Wrapped(n) = n
<1>1. Half \in Nat \ {0}
  BY RequestAssumption
<1> DEFINE m == 2 * Half
<1>2. m \in Nat \ {0} /\ n + Half \in 0 .. m - 1 /\ n \in Int
  BY <1>1
<1> HIDE DEF m
<1>3. (n + Half) % m = n + Half
  BY <1>2, SmallMod
<1>4. (n + Half) - Half = n
  BY <1>1, <1>2
<1> QED  BY <1>3, <1>4 DEF Wrapped, m

(* The outcome is always that of the message, or none. *)
OutcomeInv == outcome \in {Discarded, Waiting, Outcome(topic, payload)}

LEMMA InitOutcome == Init => OutcomeInv
  BY DEF Init, OutcomeInv

LEMMA NextOutcome == OutcomeInv /\ [Next]_vars => OutcomeInv'
<1> SUFFICES ASSUME OutcomeInv, [Next]_vars PROVE OutcomeInv'
  OBVIOUS
<1> USE DEF OutcomeInv
<1>1. ASSUME NEW t \in DOMAIN Payloads, Receive(t) PROVE OutcomeInv'
  BY <1>1 DEF Receive
<1>2. CASE Handle
  BY <1>2 DEF Handle, Outcome
<1>3. CASE Return
  BY <1>3 DEF Return
<1>4. CASE UNCHANGED vars
  BY <1>4 DEF vars, Outcome
<1> QED  BY <1>1, <1>2, <1>3, <1>4 DEF Next

LEMMA OutcomeInvariant == Spec => []OutcomeInv
  BY InitOutcome, NextOutcome, PTL DEF Spec

(* A reply is the reply to the payload. *)
LEMMA ReplyOf == OutcomeInv /\ outcome.kind = "reply" => outcome = Reply(payload)
  BY DEF OutcomeInv, Outcome, Discarded, Waiting, Enqueued, Reply

(* An enqueued report passed the parser. *)
LEMMA EnqueuedOf ==
  OutcomeInv /\ outcome.kind = "enqueued"
    => outcome = Enqueued(payload) /\ ParseModbusMsg(payload)
  BY DEF OutcomeInv, Outcome, Discarded, Waiting, Enqueued, Reply

(* Tokens within the range of an int come back as they were sent. *)
THEOREM TokensAreEchoed == Spec => []TokenEchoed
<1>1. OutcomeInv => TokenEchoed
  <2> SUFFICES ASSUME OutcomeInv, outcome.kind = "reply", Fits(payload)
               PROVE  outcome.token = payload.n
    BY DEF TokenEchoed
  <2>1. outcome.token = Wrapped(payload.n)
    BY ReplyOf DEF Reply, Int32
  <2> QED  BY <2>1, WrapKeeps DEF Fits
<1> QED  BY <1>1, OutcomeInvariant, PTL

(* No register without address, map address, value and description gets in. *)
THEOREM NoneIncomplete == Spec => []NothingMissing
<1>1. OutcomeInv => NothingMissing
  <2> SUFFICES ASSUME OutcomeInv, outcome.kind = "enqueued",
                      NEW i \in DOMAIN payload.register_map
               PROVE  /\ DOMAIN payload.register_map[i].addresses # {}
                      /\ payload.register_map[i].value # Absent
                      /\ payload.register_map[i].description.n # 0
    BY DEF NothingMissing
  <2> DEFINE item == payload.register_map[i]
  <2>1. Complete(item)
    BY EnqueuedOf DEF ParseModbusMsg, RegistersOk
  <2>2. DOMAIN item.addresses # {}
    BY <2>1 DEF Complete, Register, RegisterItem
  <2>3. item.value # Absent
    BY <2>1 DEF Complete, Register, RegisterItem, IntOf
  <2>4. item.description.n # 0
    BY <2>1 DEF Complete, Register, RegisterItem
  <2> QED  BY <2>2, <2>3, <2>4
<1> QED  BY <1>1, OutcomeInvariant, PTL

(* The one address key of a well-formed register is its last. *)
LEMMA LastOfOne ==
  ASSUME NEW k \in Nat PROVE Last({k}) = k
  BY DEF Last

(* A well-formed report's registers are queued unchanged and in order. *)
THEOREM RegistersAreAsSent == Spec => []RegistersAsSent
<1>1. OutcomeInv => RegistersAsSent
  <2> SUFFICES ASSUME OutcomeInv, outcome.kind = "enqueued",
                      WellFormedReport(payload),
                      NEW i \in DOMAIN payload.register_map
               PROVE  LET item == payload.register_map[i]
                          reg == outcome.registers[i]
                      IN  /\ reg.value = item.value.n
                          /\ \E k \in DOMAIN item.addresses :
                               /\ reg.address = AddressOf[k]
                               /\ reg.map_addr = item.addresses[k].n
    BY DEF RegistersAsSent
  <2> DEFINE item == payload.register_map[i]
  <2>1. outcome.registers[i] = RegisterItem(item)
    BY EnqueuedOf DEF Enqueued, Register
  <2>2. WellFormed(item)
    BY DEF WellFormedReport
  <2>3. item.value # Absent
    BY <2>2 DEF WellFormed, IsInt, Absent
  <2>4. outcome.registers[i].value = Wrapped(item.value.n)
    BY <2>1, <2>3 DEF RegisterItem, IntOf, Int32
  <2>5. outcome.registers[i].value = item.value.n
    BY <2>2, <2>4, WrapKeeps DEF WellFormed, Fits
  <2>6. PICK k \in DOMAIN AddressOf :
          DOMAIN item.addresses = {k} /\ item.addresses[k].n \in 0 .. Half - 1
    BY <2>2 DEF WellFormed
  <2>7. Last(DOMAIN item.addresses) = k
    BY <2>6, LastOfOne, RequestAssumption
  <2> QED  BY <2>1, <2>5, <2>6, <2>7, WrapKeeps, RequestAssumption
             DEF RegisterItem, Int32
<1> QED  BY <1>1, OutcomeInvariant, PTL

(* A register that is as the structure asks passes the parser's checks,     *)
(* except for a value of -1.                                                *)
LEMMA WellFormedComplete ==
  ASSUME NEW item, WellFormed(item), item.value.n # -1
  PROVE  Typed(item) /\ Complete(item)
<1>1. PICK k \in DOMAIN AddressOf :
        /\ DOMAIN item.addresses = {k} /\ AddressOf[k] \in Nat
        /\ IsInt(item.addresses[k]) /\ item.addresses[k].n \in 0 .. Half - 1
  BY DEF WellFormed
<1>2. k \in Nat /\ Half \in Nat \ {0} /\ AddressOf[k] # Throws
  BY <1>1, RequestAssumption
<1>3. Last(DOMAIN item.addresses) = k
  BY <1>1, <1>2, LastOfOne
<1>4. Register(item).address = AddressOf[k] /\ Register(item).address # -1
  BY <1>1, <1>2, <1>3 DEF Register, RegisterItem
<1>5. Register(item).map_addr = item.addresses[k].n /\ Register(item).map_addr # -1
  <2>1. Wrapped(item.addresses[k].n) = item.addresses[k].n
    BY <1>1, <1>2, WrapKeeps
  <2> QED  BY <1>1, <1>2, <1>3, <2>1 DEF Register, RegisterItem, Int32
<1>6. item.value # Absent /\ IsInt(item.value)
  BY DEF WellFormed, IsInt, Absent
<1>7. Register(item).value # -1
  <2>1. Wrapped(item.value.n) = item.value.n
    BY WrapKeeps DEF WellFormed, Fits
  <2> QED  BY <1>6, <2>1 DEF Register, RegisterItem, IntOf, Int32
<1>8. Register(item).description # 0 /\ IsString(item.description)
  BY DEF WellFormed, Register, RegisterItem
<1>9. Typed(item)
  BY <1>1, <1>2, <1>6, <1>8 DEF Typed
<1> QED  BY <1>4, <1>5, <1>7, <1>8, <1>9 DEF Complete

(* A report is discarded only by the parser. *)
ReportInv ==
  topic = "report" /\ outcome = Discarded => Outcome(topic, payload) = Discarded

LEMMA NextReport == ReportInv /\ [Next]_vars => ReportInv'
<1> SUFFICES ASSUME ReportInv, [Next]_vars PROVE ReportInv'
  OBVIOUS
<1> USE DEF ReportInv
<1>1. ASSUME NEW t \in DOMAIN Payloads, Receive(t) PROVE ReportInv'
  BY <1>1 DEF Receive, Waiting, Discarded
<1>2. CASE Handle
  <2>1. topic = "report" => Outcome(topic, payload).kind # "reply"
    BY DEF Outcome, Enqueued, Discarded
  <2> QED  BY <1>2, <2>1 DEF Handle, Outcome
<1>3. CASE Return
  BY <1>3 DEF Return
<1>4. CASE UNCHANGED vars
  BY <1>4 DEF vars, Outcome
<1> QED  BY <1>1, <1>2, <1>3, <1>4 DEF Next

LEMMA ReportInvariant == Spec => []ReportInv
<1>1. Init => ReportInv
  BY DEF Init, ReportInv
<1> QED  BY <1>1, NextReport, PTL DEF Spec

(* A report that follows the structure, with no value of -1, is queued.     *)
THEOREM WellFormedAreQueued == Spec => []WellFormedEnqueued
<1>1. ReportInv => WellFormedEnqueued
  <2> SUFFICES ASSUME ReportInv, topic = "report", payload # Garbage,
                      outcome = Discarded, WellFormedReport(payload),
                      \A i \in DOMAIN payload.register_map :
                         payload.register_map[i].value.n # -1
               PROVE  FALSE
    BY DEF WellFormedEnqueued
  <2>1. RegistersOk(payload.register_map)
    BY WellFormedComplete DEF WellFormedReport, RegistersOk
  <2>2. ParseModbusMsg(payload)
    BY <2>1 DEF ParseModbusMsg, WellFormedReport
  <2>3. Outcome(topic, payload) = Enqueued(payload)
    BY <2>2 DEF Outcome
  <2> QED  BY <2>3 DEF ReportInv, Enqueued, Discarded
<1> QED  BY <1>1, ReportInvariant, PTL
=============================================================================
