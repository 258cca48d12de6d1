----------------------------- MODULE MCRequests -----------------------------
(* Payloads for Requests with ints of 4 bits (Half = 8): 7 and -8 are the   *)
(* bounds, 8, 21 and -9 lie beyond; the address keys are a number, another  *)
(* number and a text.                                                       *)
EXTENDS Requests

JsonInt(n) == [type |-> "int", n |-> n]
JsonString(length) == [type |-> "string", n |-> length]

MCAddressOf == <<5, 6, Throws>>

Items ==
  [value : {Absent, JsonInt(-1), JsonInt(-8), JsonInt(7), JsonInt(21), JsonString(1)},
   description : {Absent, JsonString(0), JsonString(1), JsonInt(1)},
   addresses : UNION {[keys -> {JsonInt(-1), JsonInt(0), JsonString(1)}] :
                        keys \in SUBSET (1 .. 3)}]

FewItems ==
  {i \in Items : /\ i.value \in {Absent, JsonInt(7)}
                 /\ i.description \in {Absent, JsonString(1)}
                 /\ DOMAIN i.addresses \in {{}, {1}, {1, 2}}
                 /\ \A k \in DOMAIN i.addresses : i.addresses[k] = JsonInt(0)}

Fields ==
  {<<JsonInt(1), JsonString(1)>>, <<JsonInt(8), JsonString(1)>>,
   <<Absent, JsonString(1)>>, <<JsonString(1), JsonString(1)>>,
   <<JsonInt(1), Absent>>, <<JsonInt(1), JsonInt(1)>>}

RegisterMaps ==
  {NoArray, <<>>} \cup {<<i>> : i \in Items} \cup {<<i, j>> : i, j \in FewItems}

MCPayloads ==
  [report |-> {Garbage} \cup
     {[id |-> f[1], timestamp |-> f[2], register_map |-> m] :
        f \in Fields, m \in RegisterMaps},
   keepAlive |-> {Garbage, Absent, JsonString(1)} \cup
     {JsonInt(n) : n \in {-9, -8, 0, 7, 8, 21}},
   reboot |-> {Garbage, Absent, JsonString(1)} \cup
     {JsonInt(n) : n \in {-9, -8, 0, 7, 8, 21}}]
=============================================================================
