--------------------------- MODULE MachIPC_proofs ---------------------------
(***************************************************************************)
(* Machine-checked proofs about the Mach port namespace, for every width,  *)
(* every set of special ports and every bound.                             *)
(***************************************************************************)
EXTENDS MachIPC, TLAPS

(* The consequences of MachAssumption the arithmetic needs. *)
LEMMA ConstFacts ==
  /\ NameMod \in Nat /\ UserBase \in Nat /\ UserBase < NameMod - 2
  /\ CountHalf \in Nat /\ CountHalf > 0 /\ CountMod = 2 * CountHalf /\ CountMod \in Nat
  /\ MaxSend \in Nat /\ MaxSend < CountMod
  /\ MaxNext \in Name /\ MaxMsgs \in Nat
  /\ GuestNames \subseteq Name /\ SpecialPorts \subseteq Name
  BY MachAssumption DEF CountMod, Name

(* IncName stays a u32 and, away from the top, is the successor. *)
LEMMA IncNameType ==
  ASSUME NEW n \in Name
  PROVE  IncName(n) \in Name /\ (n < NameMod - 1 => IncName(n) = n + 1)
  BY ConstFacts DEF IncName, Name

(* `as i32 + delta`, clamped at zero, is again a right count. *)
LEMMA ClampedSum ==
  ASSUME NEW c \in Count, NEW d \in Delta
  PROVE  AddI32(c, d) \in Int /\ (AddI32(c, d) >= 0 => AddI32(c, d) \in Count)
  BY ConstFacts DEF AddI32, AsI32, Count, Delta

(* The constructors yield ports, and each holds a right. *)
LEMMA NewPorts ==
  /\ \A right \in Right : /\ PortFor(right) \in Port
                          /\ ~Rightless(PortFor(right))
                          /\ PortFor(right).queue = <<>>
  /\ new_send_only \in Port /\ ~Rightless(new_send_only)
  /\ new_with_receive \in Port /\ ~Rightless(new_with_receive)
  /\ new_with_send_receive \in Port /\ ~Rightless(new_with_send_receive)
  /\ new_send_only.queue = <<>> /\ new_with_receive.queue = <<>>
  /\ new_with_send_receive.queue = <<>>
  <1>1. 0 \in Count /\ 1 \in Count
    BY ConstFacts DEF Count
  <1>2. <<>> \in Seq(MsgId)
    OBVIOUS
  <1>3. /\ new_send_only \in Port /\ ~Rightless(new_send_only)
        /\ new_send_only.queue = <<>>
    BY <1>1, <1>2 DEF Port, Rightless, new_send_only
  <1>4. /\ new_with_receive \in Port /\ ~Rightless(new_with_receive)
        /\ new_with_receive.queue = <<>>
    BY <1>1, <1>2 DEF Port, Rightless, new_with_receive
  <1>5. /\ new_with_send_receive \in Port /\ ~Rightless(new_with_send_receive)
        /\ new_with_send_receive.queue = <<>>
    BY <1>1, <1>2 DEF Port, Rightless, new_with_send_receive
  <1>6. new_dead_name \in Port /\ ~Rightless(new_dead_name) /\ new_dead_name.queue = <<>>
    BY <1>1, <1>2 DEF Port, Rightless, new_dead_name
  <1>7. ASSUME NEW right \in Right
        PROVE  \/ PortFor(right) = new_with_receive
               \/ PortFor(right) = new_send_only
               \/ PortFor(right) = new_dead_name
    BY DEF PortFor
  <1>8. QED
    BY <1>3, <1>4, <1>5, <1>6, <1>7

(* ModifiedPort changes only the counted rights of a port. *)
LEMMA ModifiedPortType ==
  ASSUME NEW p \in Port, NEW right \in Right, NEW d \in Delta
  PROVE  /\ ModifiedPort(p, right, d) \in Port
         /\ ModifiedPort(p, right, d).queue = p.queue
         /\ ModifiedPort(p, right, d).dead = p.dead
  <1>1. 0 \in Count /\ p.send \in Count
    BY ConstFacts DEF Count, Port
  <1>2. (IF AddI32(p.send, d) < 0 THEN 0 ELSE AddI32(p.send, d)) \in Count
    BY <1>1, ClampedSum
  <1>3. QED
    BY <1>1, <1>2 DEF ModifiedPort, Port, Right

(* The map operations keep a namespace a namespace. *)
LEMMA MapTypes ==
  ASSUME NEW ps, ps \in [DOMAIN ps -> Port], DOMAIN ps \subseteq Name,
         NEW n \in Name, NEW p \in Port
  PROVE  /\ DOMAIN Insert(ps, n, p) \subseteq Name
         /\ Insert(ps, n, p) \in [DOMAIN Insert(ps, n, p) -> Port]
         /\ DOMAIN Remove(ps, n) \subseteq Name
         /\ Remove(ps, n) \in [DOMAIN Remove(ps, n) -> Port]
  BY DEF Insert, Remove

(* Sending appends to one queue and receiving drops its head; nothing else *)
(* of the namespace changes.                                               *)
LEMMA SendEffect ==
  ASSUME NEW ps, ps \in [DOMAIN ps -> Port], NEW d \in DOMAIN ps, NEW id \in MsgId
  PROVE  LET qs == send_msg(ps, d, id)
         IN  /\ DOMAIN qs = DOMAIN ps /\ qs \in [DOMAIN ps -> Port]
             /\ qs[d] = [ps[d] EXCEPT !.queue = Append(ps[d].queue, id)]
             /\ \A n \in DOMAIN ps \ {d} : qs[n] = ps[n]
  <1>1. ps[d].queue \in Seq(MsgId) /\ ps[d] \in Port
    BY DEF Port
  <1>2. Append(ps[d].queue, id) \in Seq(MsgId)
    BY <1>1
  <1>3. [ps[d] EXCEPT !.queue = Append(ps[d].queue, id)] \in Port
    BY <1>1, <1>2 DEF Port
  <1>4. QED
    BY <1>3 DEF send_msg

(* The same as types, with the fate of the message that was sent. *)
LEMMA SendTypes ==
  ASSUME NEW ps, ps \in [DOMAIN ps -> Port], NEW d \in DOMAIN ps, NEW id \in MsgId,
         NEW f \in [MsgId -> Fate]
  PROVE  /\ DOMAIN send_msg(ps, d, id) = DOMAIN ps
         /\ send_msg(ps, d, id) \in [DOMAIN send_msg(ps, d, id) -> Port]
         /\ [f EXCEPT ![id] = "queued"] \in [MsgId -> Fate]
  <1>1. PICK qs : qs = send_msg(ps, d, id)
    OBVIOUS
  <1>2. DOMAIN qs = DOMAIN ps /\ qs \in [DOMAIN ps -> Port]
    BY <1>1, SendEffect
  <1>3. "queued" \in Fate
    BY DEF Fate
  <1>4. [f EXCEPT ![id] = "queued"] \in [MsgId -> Fate]
    BY <1>3
  <1>5. QED
    BY <1>1, <1>2, <1>4

(* The id of the next message, while the bound allows one. *)
LEMMA NextId ==
  ASSUME NEW k \in 0 .. MaxMsgs, k < MaxMsgs
  PROVE  k + 1 \in MsgId /\ k + 1 \in 0 .. MaxMsgs /\ k + 1 \in Nat
  BY ConstFacts DEF MsgId

(* Receiving takes the head of one queue. *)
LEMMA RecvEffect ==
  ASSUME NEW ps, ps \in [DOMAIN ps -> Port], NEW d \in DOMAIN ps, ps[d].queue # <<>>
  PROVE  LET qs == recv_msg(ps, d)
         IN  /\ DOMAIN qs = DOMAIN ps /\ qs \in [DOMAIN ps -> Port]
             /\ qs[d] = [ps[d] EXCEPT !.queue = Tail(ps[d].queue)]
             /\ \A n \in DOMAIN ps \ {d} : qs[n] = ps[n]
             /\ Head(ps[d].queue) \in MsgId
  <1>1. ps[d].queue \in Seq(MsgId) /\ ps[d] \in Port
    BY DEF Port
  <1>2. Tail(ps[d].queue) \in Seq(MsgId) /\ Head(ps[d].queue) \in MsgId
    BY <1>1
  <1>3. [ps[d] EXCEPT !.queue = Tail(ps[d].queue)] \in Port
    BY <1>1, <1>2 DEF Port
  <1>4. QED
    BY <1>2, <1>3 DEF recv_msg

-----------------------------------------------------------------------------
(* Type correctness. *)

(* Storing or removing a port keeps the types. *)
LEMMA StoreOrRemoveType ==
  ASSUME TypeOK, NEW n \in DOMAIN ports, NEW p \in Port, StoreOrRemove(n, p)
  PROVE  /\ DOMAIN ports' \subseteq Name /\ ports' \in [DOMAIN ports' -> Port]
         /\ fate' \in [MsgId -> Fate]
  <1>1. CASE Rightless(p)
    BY <1>1, MapTypes DEF StoreOrRemove, TypeOK, Fate, Remove
  <1>2. CASE ~Rightless(p)
    BY <1>2 DEF StoreOrRemove, TypeOK
  <1>3. QED
    BY <1>1, <1>2

(* So does the receive phase of mach_msg. *)
LEMMA ReceivePhaseType ==
  ASSUME TypeOK, NEW ps, DOMAIN ps \subseteq Name, ps \in [DOMAIN ps -> Port],
         NEW f \in [MsgId -> Fate], NEW n \in Name, ReceivePhase(ps, f, n)
  PROVE  /\ DOMAIN ports' \subseteq Name /\ ports' \in [DOMAIN ports' -> Port]
         /\ fate' \in [MsgId -> Fate] /\ lastRcv' \in [Name -> 0 .. MaxMsgs]
         /\ ret' \in Code
  <1>1. CASE CanRecv(ps, n)
    <2>1. n \in DOMAIN ps /\ ps[n].queue # <<>>
      BY <1>1 DEF CanRecv
    <2>2. /\ DOMAIN recv_msg(ps, n) = DOMAIN ps /\ recv_msg(ps, n) \in [DOMAIN ps -> Port]
          /\ Head(ps[n].queue) \in MsgId
      BY <2>1, RecvEffect
    <2>3. Head(ps[n].queue) \in 0 .. MaxMsgs
      BY <2>2, ConstFacts DEF MsgId
    <2>4. QED
      BY <1>1, <2>2, <2>3 DEF ReceivePhase, TypeOK, Fate, Code
  <1>2. CASE ~CanRecv(ps, n)
    BY <1>2 DEF ReceivePhase, TypeOK, Code
  <1>3. QED
    BY <1>1, <1>2

(* Every call keeps names, counts, queues and codes in range. *)
THEOREM TypeCorrect == Spec => []TypeOK
  <1>1. Init => TypeOK
    BY ConstFacts, NewPorts DEF Init, TypeOK, Name, MsgId, Fate, Code
  <1>2. TypeOK /\ [Next]_vars => TypeOK'
    <2> SUFFICES ASSUME TypeOK, [Next]_vars PROVE TypeOK'
      OBVIOUS
    <2> USE ConstFacts
    <2>1. ASSUME NEW right \in Right, allocate(right) PROVE TypeOK'
      <3>1. next_name' \in Name
        BY <2>1, IncNameType DEF allocate, TypeOK
      <3>2. AllocateCode(next_name, right) \in Code
        BY DEF AllocateCode, Code
      <3>3. DOMAIN ports' \subseteq Name /\ ports' \in [DOMAIN ports' -> Port]
        <4>1. CASE ports' = ports
          BY <4>1 DEF TypeOK
        <4>2. CASE ports' = Insert(ports, next_name, PortFor(right))
          <5>1. PortFor(right) \in Port /\ next_name \in Name
            BY NewPorts DEF TypeOK
          <5>2. DOMAIN ports \subseteq Name /\ ports \in [DOMAIN ports -> Port]
            BY DEF TypeOK
          <5>3. QED
            BY <4>2, <5>1, <5>2, MapTypes
        <4>3. QED
          BY <2>1, <4>1, <4>2 DEF allocate, TypeOK
      <3>4. QED
        BY <2>1, <3>1, <3>2, <3>3 DEF allocate, TypeOK
    <2>2. ASSUME NEW n \in GuestNames, deallocate(n) PROVE TypeOK'
      <3>1. CASE n \in DOMAIN ports
        <4> DEFINE p == [ports[n] EXCEPT !.send = IF ports[n].send > 0
                                                  THEN ports[n].send - 1 ELSE 0]
        <4>1. p \in Port
          <5>1. ports[n] \in Port /\ ports[n].send \in Count
            BY <3>1 DEF TypeOK, Port
          <5>2. (IF ports[n].send > 0 THEN ports[n].send - 1 ELSE 0) \in Count
            BY <5>1 DEF Count
          <5>3. QED
            BY <5>1, <5>2 DEF Port
        <4>2. StoreOrRemove(n, p)
          BY <2>2, <3>1 DEF deallocate
        <4> QED
          BY <2>2, <3>1, <4>1, <4>2, StoreOrRemoveType DEF deallocate, TypeOK, Code
      <3>2. CASE n \notin DOMAIN ports
        BY <2>2, <3>2 DEF deallocate, TypeOK, Code
      <3>3. QED
        BY <3>1, <3>2
    <2>3. ASSUME NEW n \in GuestNames, port_type(n) PROVE TypeOK'
      BY <2>3 DEF port_type, TypeOK, Code
    <2>4. ASSUME NEW n \in GuestNames, mach_msg_send(n) PROVE TypeOK'
      <3>1. CASE CanSend(ports, n)
        <4>1. sent + 1 \in MsgId /\ sent + 1 \in 0 .. MaxMsgs
          <5>1. sent \in 0 .. MaxMsgs /\ sent < MaxMsgs
            BY <2>4 DEF mach_msg_send, TypeOK
          <5>2. QED
            BY <5>1, NextId
        <4>2. DOMAIN ports' \subseteq Name /\ ports' \in [DOMAIN ports' -> Port]
          <5>1. ports' = send_msg(ports, n, sent + 1) /\ n \in DOMAIN ports
            BY <2>4, <3>1 DEF mach_msg_send, CanSend
          <5>2. ports \in [DOMAIN ports -> Port] /\ DOMAIN ports \subseteq Name
            BY DEF TypeOK
          <5>3. QED
            BY <4>1, <5>1, <5>2, SendEffect
        <4>3. QED
          BY <2>4, <3>1, <4>1, <4>2 DEF mach_msg_send, TypeOK, Fate, Code
      <3>2. CASE ~CanSend(ports, n)
        BY <2>4, <3>2 DEF mach_msg_send, TypeOK, Code
      <3>3. QED
        BY <3>1, <3>2
    <2>5. ASSUME NEW n \in GuestNames, mach_msg_rcv(n) PROVE TypeOK'
      BY <2>5, ReceivePhaseType DEF mach_msg_rcv, TypeOK
    <2>6. ASSUME NEW n \in GuestNames, NEW poly \in PolyType, insert_new(n, poly) PROVE TypeOK'
      <3>1. new_send_only \in Port /\ new_with_receive \in Port
        BY NewPorts
      <3>2. \/ ports' = ports
            \/ ports' = Insert(ports, n, new_send_only)
            \/ ports' = Insert(ports, n, new_with_receive)
        BY <2>6 DEF insert_new
      <3>3. DOMAIN ports' \subseteq Name /\ ports' \in [DOMAIN ports' -> Port]
        <4>1. DOMAIN ports \subseteq Name /\ ports \in [DOMAIN ports -> Port]
          BY DEF TypeOK
        <4>2. QED
          BY <3>1, <3>2, <4>1, MapTypes
      <3>4. QED
        BY <2>6, <3>3 DEF insert_new, TypeOK, Code
    <2>7. ASSUME NEW n \in GuestNames, NEW poly \in PolyType, insert_existing(n, poly)
          PROVE TypeOK'
      <3>1. DOMAIN ports' = DOMAIN ports /\ ports' \in [DOMAIN ports -> Port]
        <4>1. n \in DOMAIN ports /\ ports[n] \in Port /\ ports[n].send \in Count
          BY <2>7 DEF insert_existing, TypeOK, Port
        <4>2. IncCount(ports[n].send) \in Count
          BY <4>1 DEF IncCount, Count
        <4>3. /\ [ports[n] EXCEPT !.send = IncCount(ports[n].send)] \in Port
              /\ [ports[n] EXCEPT !.receive = TRUE] \in Port
          BY <4>1, <4>2 DEF Port
        <4>4. \/ ports' = ports
              \/ ports' = [ports EXCEPT ![n] = [ports[n] EXCEPT !.send = IncCount(ports[n].send)]]
              \/ ports' = [ports EXCEPT ![n] = [ports[n] EXCEPT !.receive = TRUE]]
          BY <2>7 DEF insert_existing
        <4>5. ports \in [DOMAIN ports -> Port]
          BY DEF TypeOK
        <4> DEFINE p == [ports[n] EXCEPT !.send = IncCount(ports[n].send)]
                   q == [ports[n] EXCEPT !.receive = TRUE]
        <4>6. \/ ports' = ports \/ ports' = [ports EXCEPT ![n] = p]
              \/ ports' = [ports EXCEPT ![n] = q]
          BY <4>4
        <4>7. p \in Port /\ q \in Port
          BY <4>3
        <4> HIDE DEF p, q
        <4>8. QED
          BY <4>1, <4>5, <4>6, <4>7
      <3>2. QED
        BY <2>7, <3>1 DEF insert_existing, TypeOK, Code
    <2>8. ASSUME NEW n \in GuestNames, NEW right \in Right, NEW d \in Delta,
                 mod_refs(n, right, d) PROVE TypeOK'
      <3>1. CASE n \in DOMAIN ports
        <4>1. ModifiedPort(ports[n], right, d) \in Port
          BY <3>1, ModifiedPortType DEF TypeOK
        <4>2. QED
          BY <2>8, <3>1, <4>1, StoreOrRemoveType DEF mod_refs, TypeOK, Code
      <3>2. CASE n \notin DOMAIN ports
        BY <2>8, <3>2 DEF mod_refs, TypeOK, Code
      <3>3. QED
        BY <3>1, <3>2
    <2>9. ASSUME NEW n \in GuestNames, NEW m \in GuestNames, mach_msg_send_rcv(n, m)
          PROVE TypeOK'
      <3>1. CASE CanSend(ports, n)
        <4>1. sent + 1 \in MsgId /\ sent + 1 \in 0 .. MaxMsgs
          <5>1. sent \in 0 .. MaxMsgs /\ sent < MaxMsgs
            BY <2>9 DEF mach_msg_send_rcv, TypeOK
          <5>2. QED
            BY <5>1, NextId
        <4> DEFINE ps == send_msg(ports, n, sent + 1)
                   f  == [fate EXCEPT ![sent + 1] = "queued"]
        <4>2. DOMAIN ps \subseteq Name /\ ps \in [DOMAIN ps -> Port]
          <5>1. n \in DOMAIN ports
            BY <3>1 DEF CanSend
          <5>2. ports \in [DOMAIN ports -> Port] /\ DOMAIN ports \subseteq Name
            BY DEF TypeOK
          <5>3. QED
            BY <4>1, <5>1, <5>2, SendEffect
        <4>3. f \in [MsgId -> Fate]
          BY <4>1 DEF TypeOK, Fate
        <4>4. ReceivePhase(ps, f, m) /\ sent' = sent + 1 /\ next_name' = next_name
              /\ invented' = invented
          BY <2>9, <3>1 DEF mach_msg_send_rcv
        <4> HIDE DEF ps, f
        <4>5. QED
          BY <4>1, <4>2, <4>3, <4>4, ReceivePhaseType DEF TypeOK
      <3>2. CASE ~CanSend(ports, n)
        BY <2>9, <3>2 DEF mach_msg_send_rcv, TypeOK, Code
      <3>3. QED
        BY <3>1, <3>2
    <2>10. CASE UNCHANGED vars
      BY <2>10 DEF vars, TypeOK
    <2>11. QED
      BY <2>1, <2>2, <2>3, <2>4, <2>5, <2>6, <2>7, <2>8, <2>9, <2>10 DEF Next
  <1>3. QED
    BY <1>1, <1>2, PTL DEF Spec

-----------------------------------------------------------------------------
(* The safety invariants, as predicates of a namespace ps, the number k of *)
(* messages accepted, the newest received ids last and the fates f, so     *)
(* that the send phase and the receive phase of one mach_msg call can be   *)
(* taken one after the other.                                              *)
NoRightlessIn(ps) == \A n \in DOMAIN ps : ~Rightless(ps[n])

DeadEmptyIn(ps) == \A n \in DOMAIN ps : ps[n].dead => ps[n].queue = <<>>

OrderedIn(ps, k, last) ==
  \A n \in DOMAIN ps :
    /\ \A i \in DOMAIN ps[n].queue : last[n] < ps[n].queue[i] /\ ps[n].queue[i] <= k
    /\ \A i, j \in DOMAIN ps[n].queue : i < j => ps[n].queue[i] < ps[n].queue[j]

SafeIn(ps, k, last) == NoRightlessIn(ps) /\ DeadEmptyIn(ps) /\ OrderedIn(ps, k, last)

(* Storing a port with the same queue and at least one right. *)
LEMMA StoreKeeps ==
  ASSUME NEW ps, ps \in [DOMAIN ps -> Port], NEW k, NEW last, SafeIn(ps, k, last),
         NEW n \in DOMAIN ps, NEW p \in Port,
         p.queue = ps[n].queue, p.dead = ps[n].dead, ~Rightless(p)
  PROVE  SafeIn([ps EXCEPT ![n] = p], k, last)
  BY DEF SafeIn, NoRightlessIn, DeadEmptyIn, OrderedIn

(* Making a port with an empty queue, whatever was there before. *)
LEMMA MakeKeeps ==
  ASSUME NEW ps, NEW k, NEW last, SafeIn(ps, k, last),
         NEW n, NEW p \in Port, p.queue = <<>>, ~Rightless(p)
  PROVE  SafeIn(Insert(ps, n, p), k, last)
  BY DEF SafeIn, NoRightlessIn, DeadEmptyIn, OrderedIn, Insert

(* Removing a name. *)
LEMMA DropKeeps ==
  ASSUME NEW ps, NEW k, NEW last, SafeIn(ps, k, last), NEW n
  PROVE  SafeIn(Remove(ps, n), k, last)
  BY DEF SafeIn, NoRightlessIn, DeadEmptyIn, OrderedIn, Remove

(* The new message is younger than all that wait and all that were received. *)
LEMMA SendKeeps ==
  ASSUME NEW ps, ps \in [DOMAIN ps -> Port], DOMAIN ps \subseteq Name,
         NEW k \in 0 .. MaxMsgs, k < MaxMsgs, NEW last \in [Name -> 0 .. k],
         SafeIn(ps, k, last), NEW d, CanSend(ps, d)
  PROVE  SafeIn(send_msg(ps, d, k + 1), k + 1, last)
  <1>1. k + 1 \in MsgId /\ d \in DOMAIN ps /\ ~ps[d].dead
    BY ConstFacts DEF CanSend, MsgId
  <1> DEFINE qs == send_msg(ps, d, k + 1)
             q  == ps[d].queue
  <1>2. /\ DOMAIN qs = DOMAIN ps
        /\ qs[d] = [ps[d] EXCEPT !.queue = Append(ps[d].queue, k + 1)]
        /\ \A n \in DOMAIN ps \ {d} : qs[n] = ps[n]
    BY <1>1 DEF send_msg
  <1> HIDE DEF qs
  <1>3. ps[d] \in Port /\ q \in Seq(MsgId)
    BY <1>1 DEF Port
  <1>4. qs[d].queue = Append(q, k + 1) /\ qs[d].dead = ps[d].dead
        /\ qs[d].send = ps[d].send /\ qs[d].receive = ps[d].receive
    BY <1>2, <1>3 DEF Port
  <1>5. NoRightlessIn(qs)
    BY <1>2, <1>4 DEF SafeIn, NoRightlessIn, Rightless
  <1>6. DeadEmptyIn(qs)
    BY <1>1, <1>2, <1>4 DEF SafeIn, DeadEmptyIn
  <1>7. OrderedIn(qs, k + 1, last)
    <2>1. ASSUME NEW n \in DOMAIN ps, n # d
          PROVE  /\ \A i \in DOMAIN qs[n].queue : last[n] < qs[n].queue[i] /\ qs[n].queue[i] <= k + 1
                 /\ \A i, j \in DOMAIN qs[n].queue : i < j => qs[n].queue[i] < qs[n].queue[j]
      <3>1. qs[n] = ps[n] /\ ps[n].queue \in Seq(MsgId)
        BY <1>2, <2>1 DEF Port
      <3>2. \A i \in DOMAIN ps[n].queue : ps[n].queue[i] \in Nat
        <4>1. \A i \in DOMAIN ps[n].queue : ps[n].queue[i] \in MsgId
          BY <3>1
        <4>2. MsgId \subseteq Nat
          BY ConstFacts DEF MsgId
        <4>3. QED
          BY <4>1, <4>2
      <3>3. QED
        BY <3>1, <3>2 DEF SafeIn, OrderedIn
    <2>2. /\ \A i \in DOMAIN qs[d].queue : last[d] < qs[d].queue[i] /\ qs[d].queue[i] <= k + 1
          /\ \A i, j \in DOMAIN qs[d].queue : i < j => qs[d].queue[i] < qs[d].queue[j]
      <3>1. /\ \A i \in DOMAIN q : q[i] \in Nat /\ last[d] < q[i] /\ q[i] <= k
            /\ \A i, j \in DOMAIN q : i < j => q[i] < q[j]
        <4>1. \A i \in DOMAIN q : q[i] \in MsgId
          BY <1>3
        <4>2. \A i \in DOMAIN q : q[i] \in Nat
          BY <4>1, ConstFacts DEF MsgId
        <4>3. QED
          BY <1>1, <4>2 DEF SafeIn, OrderedIn
      <3>2. last[d] \in Nat /\ last[d] <= k
        BY <1>1
      <3>3. /\ DOMAIN Append(q, k + 1) = 1 .. Len(q) + 1 /\ DOMAIN q = 1 .. Len(q)
            /\ \A i \in 1 .. Len(q) : Append(q, k + 1)[i] = q[i]
            /\ Append(q, k + 1)[Len(q) + 1] = k + 1
            /\ Len(q) \in Nat
        BY <1>3
      <3> HIDE DEF q
      <3>4. QED
        BY <1>4, <3>1, <3>2, <3>3
    <2>3. QED
      BY <1>2, <2>1, <2>2 DEF OrderedIn
  <1>8. QED
    BY <1>5, <1>6, <1>7 DEF SafeIn, qs

(* The oldest waiting message leaves, and every other one is younger. *)
LEMMA RecvKeeps ==
  ASSUME NEW ps, ps \in [DOMAIN ps -> Port], DOMAIN ps \subseteq Name,
         NEW k \in 0 .. MaxMsgs, NEW last \in [Name -> 0 .. k],
         SafeIn(ps, k, last), NEW d, CanRecv(ps, d)
  PROVE  /\ SafeIn(recv_msg(ps, d), k, [last EXCEPT ![d] = Head(ps[d].queue)])
         /\ [last EXCEPT ![d] = Head(ps[d].queue)] \in [Name -> 0 .. k]
  <1>1. d \in DOMAIN ps /\ d \in Name /\ ps[d].queue # <<>>
    BY DEF CanRecv
  <1> DEFINE qs == recv_msg(ps, d)
             q  == ps[d].queue
             nl == [last EXCEPT ![d] = Head(q)]
  <1>2. /\ DOMAIN qs = DOMAIN ps
        /\ qs[d] = [ps[d] EXCEPT !.queue = Tail(ps[d].queue)]
        /\ \A n \in DOMAIN ps \ {d} : qs[n] = ps[n]
    BY <1>1, RecvEffect
  <1> HIDE DEF qs
  <1>3. ps[d] \in Port /\ q \in Seq(MsgId)
    BY <1>1 DEF Port
  <1>4. /\ DOMAIN Tail(q) = 1 .. Len(q) - 1 /\ DOMAIN q = 1 .. Len(q)
        /\ \A i \in 1 .. Len(q) - 1 : Tail(q)[i] = q[i + 1]
        /\ Head(q) = q[1] /\ Len(q) \in Nat /\ Len(q) >= 1
    BY <1>1, <1>3
  <1>5. qs[d].queue = Tail(q) /\ qs[d].dead = ps[d].dead
        /\ qs[d].send = ps[d].send /\ qs[d].receive = ps[d].receive
    BY <1>2, <1>3 DEF Port
  <1>6. /\ \A i \in DOMAIN q : q[i] \in Nat /\ q[i] <= k
        /\ \A i, j \in DOMAIN q : i < j => q[i] < q[j]
    <2>1. \A i \in DOMAIN q : q[i] \in MsgId
      BY <1>3
    <2>2. \A i \in DOMAIN q : q[i] \in Nat
      BY <2>1, ConstFacts DEF MsgId
    <2>3. QED
      BY <1>1, <2>2 DEF SafeIn, OrderedIn
  <1>7. nl \in [Name -> 0 .. k] /\ nl[d] = q[1] /\ \A n \in Name \ {d} : nl[n] = last[n]
    <2>1. q[1] \in 0 .. k
      BY <1>4, <1>6
    <2>2. QED
      BY <1>1, <1>4, <2>1
  <1> HIDE DEF q, nl
  <1>8. NoRightlessIn(qs)
    BY <1>2, <1>5 DEF SafeIn, NoRightlessIn, Rightless
  <1>9. DeadEmptyIn(qs)
    <2>1. ~ps[d].dead
      BY <1>1 DEF SafeIn, DeadEmptyIn
    <2>2. QED
      BY <1>2, <1>5, <2>1 DEF SafeIn, DeadEmptyIn
  <1>10. OrderedIn(qs, k, nl)
    <2>1. /\ \A i \in DOMAIN qs[d].queue : nl[d] < qs[d].queue[i] /\ qs[d].queue[i] <= k
          /\ \A i, j \in DOMAIN qs[d].queue : i < j => qs[d].queue[i] < qs[d].queue[j]
      <3>1. ASSUME NEW i \in 1 .. Len(q) - 1
            PROVE  /\ i + 1 \in DOMAIN q /\ 1 \in DOMAIN q /\ 1 < i + 1
                   /\ Tail(q)[i] = q[i + 1]
        BY <1>4
      <3>2. ASSUME NEW i \in 1 .. Len(q) - 1, NEW j \in 1 .. Len(q) - 1, i < j
            PROVE  Tail(q)[i] < Tail(q)[j]
        <4>1. i + 1 < j + 1
          BY <3>2, <1>4
        <4>2. QED
          BY <3>1, <4>1, <1>6
      <3>3. ASSUME NEW i \in 1 .. Len(q) - 1
            PROVE  nl[d] < Tail(q)[i] /\ Tail(q)[i] <= k
        BY <3>1, <1>6, <1>7
      <3>4. QED
        BY <1>4, <1>5, <3>2, <3>3
    <2>2. QED
      BY <1>2, <1>7, <2>1 DEF SafeIn, OrderedIn
  <1>11. QED
    BY <1>7, <1>8, <1>9, <1>10 DEF SafeIn, qs, nl, q

-----------------------------------------------------------------------------
(* The inductive invariant: received ids are ids already sent, and the     *)
(* namespace is safe.                                                      *)
IInv ==
  /\ TypeOK
  /\ lastRcv \in [Name -> 0 .. sent]
  /\ SafeIn(ports, sent, lastRcv)

(* What deallocate and mod_refs do to the namespace is safe. *)
LEMMA StoreOrRemoveSafe ==
  ASSUME IInv, NEW n \in DOMAIN ports, NEW p \in Port, StoreOrRemove(n, p),
         p.queue = ports[n].queue, p.dead = ports[n].dead
  PROVE  SafeIn(ports', sent, lastRcv)
  <1>1. CASE Rightless(p)
    BY <1>1, DropKeeps DEF StoreOrRemove, IInv
  <1>2. CASE ~Rightless(p)
    BY <1>2, StoreKeeps DEF StoreOrRemove, IInv, TypeOK
  <1>3. QED
    BY <1>1, <1>2

(* So is the receive phase, on whatever namespace the send phase left. *)
LEMMA ReceivePhaseSafe ==
  ASSUME NEW ps, DOMAIN ps \subseteq Name, ps \in [DOMAIN ps -> Port],
         NEW k \in 0 .. MaxMsgs, lastRcv \in [Name -> 0 .. k],
         SafeIn(ps, k, lastRcv), NEW f, NEW n, ReceivePhase(ps, f, n)
  PROVE  SafeIn(ports', k, lastRcv') /\ lastRcv' \in [Name -> 0 .. k]
  <1>1. CASE CanRecv(ps, n)
    BY <1>1, RecvKeeps DEF ReceivePhase
  <1>2. CASE ~CanRecv(ps, n)
    BY <1>2 DEF ReceivePhase
  <1>3. QED
    BY <1>1, <1>2

(* Every call keeps the strengthened invariant. *)
LEMMA IInvStep == IInv /\ TypeOK' /\ [Next]_vars => IInv'
  <1> SUFFICES ASSUME IInv, TypeOK', [Next]_vars
               PROVE  SafeIn(ports', sent', lastRcv') /\ lastRcv' \in [Name -> 0 .. sent']
    BY DEF IInv
  <1> DEFINE Goal == SafeIn(ports', sent', lastRcv') /\ lastRcv' \in [Name -> 0 .. sent']
  <1>0. /\ TypeOK /\ lastRcv \in [Name -> 0 .. sent] /\ SafeIn(ports, sent, lastRcv)
        /\ DOMAIN ports \subseteq Name /\ ports \in [DOMAIN ports -> Port]
        /\ sent \in 0 .. MaxMsgs /\ GuestNames \subseteq Name
    BY ConstFacts DEF IInv, TypeOK
  <1>1. ASSUME NEW right \in Right, allocate(right) PROVE Goal
    <2>1. PortFor(right) \in Port /\ PortFor(right).queue = <<>> /\ ~Rightless(PortFor(right))
      BY NewPorts
    <2>2. ports' = ports \/ ports' = Insert(ports, next_name, PortFor(right))
      BY <1>1 DEF allocate
    <2>3. SafeIn(ports', sent, lastRcv)
      BY <1>0, <2>1, <2>2, MakeKeeps
    <2>4. QED
      BY <1>0, <1>1, <2>3 DEF allocate
  <1>2. ASSUME NEW n \in GuestNames, deallocate(n) PROVE Goal
    <2>1. CASE n \in DOMAIN ports
      <3> DEFINE p == [ports[n] EXCEPT !.send = IF ports[n].send > 0
                                                THEN ports[n].send - 1 ELSE 0]
      <3>1. ports[n] \in Port /\ ports[n].send \in Count
        BY <1>0, <2>1 DEF Port
      <3>2. (IF ports[n].send > 0 THEN ports[n].send - 1 ELSE 0) \in Count
        BY <3>1, ConstFacts DEF Count
      <3>3. p \in Port /\ p.queue = ports[n].queue /\ p.dead = ports[n].dead
        BY <3>1, <3>2 DEF Port
      <3>4. StoreOrRemove(n, p) /\ UNCHANGED <<sent, lastRcv>>
        BY <1>2, <2>1 DEF deallocate
      <3> HIDE DEF p
      <3>5. QED
        BY <1>0, <2>1, <3>3, <3>4, StoreOrRemoveSafe
    <2>2. CASE n \notin DOMAIN ports
      BY <1>0, <1>2, <2>2 DEF deallocate
    <2>3. QED
      BY <2>1, <2>2
  <1>3. ASSUME NEW n \in GuestNames, port_type(n) PROVE Goal
    BY <1>0, <1>3 DEF port_type
  <1>4. ASSUME NEW n \in GuestNames, mach_msg_send(n) PROVE Goal
    <2>1. CASE CanSend(ports, n)
      <3>1. SafeIn(send_msg(ports, n, sent + 1), sent + 1, lastRcv)
        BY <1>0, <1>4, <2>1, SendKeeps DEF mach_msg_send
      <3>2. lastRcv \in [Name -> 0 .. sent + 1]
        <4>1. 0 .. sent \subseteq 0 .. sent + 1
          BY <1>0
        <4>2. QED
          BY <1>0, <4>1
      <3>3. QED
        BY <1>4, <2>1, <3>1, <3>2 DEF mach_msg_send
    <2>2. CASE ~CanSend(ports, n)
      BY <1>0, <1>4, <2>2 DEF mach_msg_send
    <2>3. QED
      BY <2>1, <2>2
  <1>5. ASSUME NEW n \in GuestNames, mach_msg_rcv(n) PROVE Goal
    BY <1>0, <1>5, ReceivePhaseSafe DEF mach_msg_rcv
  <1>6. ASSUME NEW n \in GuestNames, NEW poly \in PolyType, insert_new(n, poly) PROVE Goal
    <2>1. \/ ports' = ports
          \/ ports' = Insert(ports, n, new_send_only)
          \/ ports' = Insert(ports, n, new_with_receive)
      BY <1>6 DEF insert_new
    <2>2. SafeIn(ports', sent, lastRcv)
      BY <1>0, <2>1, NewPorts, MakeKeeps
    <2>3. QED
      BY <1>0, <1>6, <2>2 DEF insert_new
  <1>7. ASSUME NEW n \in GuestNames, NEW poly \in PolyType, insert_existing(n, poly) PROVE Goal
    <2>1. n \in DOMAIN ports /\ ports[n] \in Port /\ ports[n].send \in Count
      BY <1>0, <1>7 DEF insert_existing, Port
    <2> DEFINE p == [ports[n] EXCEPT !.send = IncCount(ports[n].send)]
               r == [ports[n] EXCEPT !.receive = TRUE]
    <2>2. ASSUME ports[n].send < MaxSend
          PROVE  p \in Port /\ p.queue = ports[n].queue /\ p.dead = ports[n].dead /\ ~Rightless(p)
      <3>1. IncCount(ports[n].send) \in Count /\ IncCount(ports[n].send) # 0
        BY <2>1, <2>2, ConstFacts DEF IncCount, Count
      <3>2. QED
        BY <2>1, <3>1 DEF Port, Rightless
    <2>3. r \in Port /\ r.queue = ports[n].queue /\ r.dead = ports[n].dead /\ ~Rightless(r)
      BY <2>1 DEF Port, Rightless
    <2>4. \/ ports' = ports
          \/ ports[n].send < MaxSend /\ ports' = [ports EXCEPT ![n] = p]
          \/ ports' = [ports EXCEPT ![n] = r]
      BY <1>7 DEF insert_existing
    <2> HIDE DEF p, r
    <2>5. SafeIn(ports', sent, lastRcv)
      BY <1>0, <2>1, <2>2, <2>3, <2>4, StoreKeeps
    <2>6. QED
      BY <1>0, <1>7, <2>5 DEF insert_existing
  <1>8. ASSUME NEW n \in GuestNames, NEW right \in Right, NEW d \in Delta,
               mod_refs(n, right, d) PROVE Goal
    <2>1. CASE n \in DOMAIN ports
      <3>1. ports[n] \in Port
        BY <1>0, <2>1
      <3>2. SafeIn(ports', sent, lastRcv)
        BY <1>8, <2>1, <3>1, ModifiedPortType, StoreOrRemoveSafe DEF mod_refs
      <3>3. QED
        BY <1>0, <1>8, <2>1, <3>2 DEF mod_refs
    <2>2. CASE n \notin DOMAIN ports
      BY <1>0, <1>8, <2>2 DEF mod_refs
    <2>3. QED
      BY <2>1, <2>2
  <1>9. ASSUME NEW n \in GuestNames, NEW m \in GuestNames, mach_msg_send_rcv(n, m) PROVE Goal
    <2>1. CASE CanSend(ports, n)
      <3> DEFINE ps == send_msg(ports, n, sent + 1)
                 f  == [fate EXCEPT ![sent + 1] = "queued"]
      <3>1. sent + 1 \in MsgId /\ sent + 1 \in 0 .. MaxMsgs /\ sent < MaxMsgs
        BY <1>0, <1>9, ConstFacts DEF mach_msg_send_rcv, MsgId
      <3>2. SafeIn(ps, sent + 1, lastRcv)
        BY <1>0, <2>1, <3>1, SendKeeps
      <3>3. DOMAIN ps \subseteq Name /\ ps \in [DOMAIN ps -> Port]
        <4>1. n \in DOMAIN ports
          BY <2>1 DEF CanSend
        <4>2. fate \in [MsgId -> Fate]
          BY <1>0 DEF TypeOK
        <4>3. QED
          BY <1>0, <3>1, <4>1, <4>2, SendTypes
      <3>4. lastRcv \in [Name -> 0 .. sent + 1]
        <4>1. 0 .. sent \subseteq 0 .. sent + 1
          BY <1>0
        <4>2. QED
          BY <1>0, <4>1
      <3>5. ReceivePhase(ps, f, m) /\ sent' = sent + 1
        BY <1>9, <2>1 DEF mach_msg_send_rcv
      <3> HIDE DEF ps, f
      <3>6. QED
        BY <3>1, <3>2, <3>3, <3>4, <3>5, ReceivePhaseSafe
    <2>2. CASE ~CanSend(ports, n)
      BY <1>0, <1>9, <2>2 DEF mach_msg_send_rcv
    <2>3. QED
      BY <2>1, <2>2
  <1>10. CASE UNCHANGED vars
    BY <1>0, <1>10 DEF vars
  <1>11. QED
    BY <1>1, <1>2, <1>3, <1>4, <1>5, <1>6, <1>7, <1>8, <1>9, <1>10 DEF Next

(* The strengthened invariant holds in every reachable state. *)
LEMMA Inductive == Spec => []IInv
  <1>1. Init /\ TypeOK => IInv
    BY NewPorts DEF Init, IInv, SafeIn, NoRightlessIn, DeadEmptyIn, OrderedIn
  <1>2. QED
    BY <1>1, IInvStep, TypeCorrect, PTL DEF Spec

(* mach_port_type reports KERN_INVALID_NAME exactly for the absent names.  *)
THEOREM RightsConsistent == Spec => []InvalidIffAbsent
  <1>1. IInv => InvalidIffAbsent
    <2> SUFFICES ASSUME IInv, NEW n \in DOMAIN ports PROVE PortTypeBits(n) # {}
      BY DEF InvalidIffAbsent, PortTypeBits
    <2>1. ports[n].receive \/ ports[n].send > 0
      <3>1. ports[n] \in Port /\ ~Rightless(ports[n])
        BY DEF IInv, SafeIn, NoRightlessIn, TypeOK
      <3>2. ports[n].send \in Nat /\ ports[n].receive \in BOOLEAN
        BY <3>1, ConstFacts DEF Port, Count
      <3>3. QED
        BY <3>1, <3>2 DEF Rightless
    <2>2. "RECEIVE" \in PortTypeBits(n) \/ "SEND" \in PortTypeBits(n)
      BY <2>1 DEF PortTypeBits
    <2>3. QED
      BY <2>2
  <1>2. QED
    BY <1>1, Inductive, PTL

(* Messages are received from a name in the order they were accepted.      *)
THEOREM DeliveryInOrder == Spec => []OrderedDelivery
  <1>1. IInv => OrderedDelivery
    BY DEF IInv, SafeIn, OrderedIn, OrderedDelivery
  <1>2. QED
    BY <1>1, Inductive, PTL

(* A dead name never holds a message.                                      *)
THEOREM DeadNamesStayEmpty == Spec => []DeadNamesHoldNothing
  <1>1. IInv => DeadNamesHoldNothing
    BY DEF IInv, SafeIn, DeadEmptyIn, DeadNamesHoldNothing
  <1>2. QED
    BY <1>1, Inductive, PTL

-----------------------------------------------------------------------------
(* Every live name was handed out before, if no name was invented. *)
KnownNames == invented = {} => \A n \in DOMAIN ports : n < next_name

(* Before the wrap of the name counter every step keeps that. *)
LEMMA KnownNamesStep ==
  ASSUME MaxNext < NameMod - 1, TypeOK, KnownNames, [Next]_vars
  PROVE  KnownNames'
  <1>0. next_name \in Name /\ DOMAIN ports \subseteq Name /\ GuestNames \subseteq Name
        /\ NameMod \in Nat /\ MaxNext \in Name
    BY ConstFacts DEF TypeOK
  <1> SUFFICES ASSUME invented' = {}, NEW k \in DOMAIN ports' PROVE k < next_name'
    BY DEF KnownNames
  <1>a. ASSUME invented = {} PROVE \A n \in DOMAIN ports : n < next_name
    BY <1>a DEF KnownNames
  <1>1. ASSUME NEW right \in Right, allocate(right) PROVE k < next_name'
    <2>1. next_name' = next_name + 1 /\ invented = {}
      BY <1>0, <1>1, IncNameType DEF allocate, Name
    <2>2. k \in DOMAIN ports \/ k = next_name
      BY <1>1 DEF allocate, Insert
    <2>3. k \in DOMAIN ports => k < next_name
      BY <1>a, <2>1
    <2>4. k \in Int /\ next_name \in Int
      BY <1>0, <2>2 DEF Name
    <2>5. QED
      BY <2>1, <2>2, <2>3, <2>4
  <1>2. ASSUME NEW n \in DOMAIN ports, NEW p, StoreOrRemove(n, p),
               next_name' = next_name, invented' = invented
        PROVE  k < next_name'
    <2>1. DOMAIN ports' \subseteq DOMAIN ports
      BY <1>2 DEF StoreOrRemove, Remove
    <2>2. QED
      BY <1>2, <1>a, <2>1
  <1>b. ASSUME DOMAIN ports' = DOMAIN ports, next_name' = next_name, invented' = invented
        PROVE  k < next_name'
    BY <1>a, <1>b
  <1>3. ASSUME NEW n \in GuestNames, deallocate(n) PROVE k < next_name'
    BY <1>2, <1>3, <1>b DEF deallocate
  <1>4. ASSUME NEW n \in GuestNames, NEW right \in Right, NEW d \in Delta, mod_refs(n, right, d)
        PROVE  k < next_name'
    BY <1>2, <1>4, <1>b DEF mod_refs
  <1>5. ASSUME NEW n \in GuestNames, NEW poly \in PolyType, insert_new(n, poly)
        PROVE  k < next_name'
    <2>1. invented = {} /\ next_name' = next_name
      BY <1>5 DEF insert_new
    <2>2. k \in DOMAIN ports \/ (k = n /\ ~(n >= next_name))
      BY <1>5 DEF insert_new, Insert
    <2>3. n \in Int /\ next_name \in Int
      BY <1>0 DEF Name
    <2>4. QED
      BY <1>a, <2>1, <2>2, <2>3
  <1>6. ASSUME NEW n \in GuestNames, NEW poly \in PolyType, insert_existing(n, poly)
        PROVE  k < next_name'
    BY <1>6, <1>b DEF insert_existing
  <1>7. ASSUME NEW n \in GuestNames, port_type(n) PROVE k < next_name'
    BY <1>7, <1>b DEF port_type
  <1>8. ASSUME NEW n, mach_msg_send(n) PROVE k < next_name'
    BY <1>8, <1>b DEF mach_msg_send, send_msg
  <1>9. ASSUME NEW n, mach_msg_rcv(n) PROVE k < next_name'
    BY <1>9, <1>b DEF mach_msg_rcv, ReceivePhase, recv_msg
  <1>10. ASSUME NEW n, NEW m, mach_msg_send_rcv(n, m) PROVE k < next_name'
    <2>1. DOMAIN ports' = DOMAIN ports /\ next_name' = next_name /\ invented' = invented
      BY <1>10 DEF mach_msg_send_rcv, ReceivePhase, recv_msg, send_msg
    <2>2. QED
      BY <2>1, <1>b
  <1>11. CASE UNCHANGED vars
    BY <1>11, <1>b DEF vars
  <1>12. QED
    BY <1>1, <1>3, <1>4, <1>5, <1>6, <1>7, <1>8, <1>9, <1>10, <1>11 DEF Next

(* While the name counter has not reached its end, and the guest inserts   *)
(* rights only under names it was given, allocate never replaces a port.   *)
THEOREM AllocateIsFresh ==
  ASSUME MaxNext < NameMod - 1
  PROVE  Spec => AllocateFresh
  <1>1. Init => KnownNames
    BY MachAssumption DEF Init, KnownNames
  <1>2. TypeOK /\ KnownNames /\ [Next]_vars => KnownNames'
    BY KnownNamesStep
  <1>3. TypeOK /\ KnownNames /\ [Next]_vars
          => [invented = {} /\ next_name' # next_name /\ ret' = "KERN_SUCCESS"
                => next_name \notin DOMAIN ports]_vars
    <2> SUFFICES ASSUME TypeOK, KnownNames, invented = {} PROVE next_name \notin DOMAIN ports
      OBVIOUS
    <2>1. QED
      BY ConstFacts DEF TypeOK, KnownNames, Name
  <1>4. QED
    BY <1>1, <1>2, <1>3, TypeCorrect, PTL DEF Spec, AllocateFresh

-----------------------------------------------------------------------------
(* What became of the messages, again as a predicate of a namespace ps,    *)
(* the number k of messages accepted and their fates f.                    *)
Holds(ps, n, id) == n \in DOMAIN ps /\ id \in QueueIds(ps[n])

NoLossIn(ps, k, f) ==
  \A id \in MsgId :
    /\ f[id] = "unsent" <=> id > k
    /\ f[id] = "queued" <=> \E n : Holds(ps, n, id)
    /\ \A n, m : Holds(ps, n, id) /\ Holds(ps, m, id) => n = m

(* A step that moves no message loses none. *)
LEMMA SameHoldersKeep ==
  ASSUME NEW ps, NEW qs, NEW k, NEW f, NoLossIn(ps, k, f),
         \A n, id : Holds(qs, n, id) <=> Holds(ps, n, id)
  PROVE  NoLossIn(qs, k, f)
  BY DEF NoLossIn

(* Storing a port with the queue it had moves no message. *)
LEMMA StoreHolders ==
  ASSUME NEW ps, NEW n \in DOMAIN ps, NEW p, p.queue = ps[n].queue, NEW m, NEW id
  PROVE  Holds([ps EXCEPT ![n] = p], m, id) <=> Holds(ps, m, id)
  BY DEF Holds, QueueIds

(* Neither does making a port under a name that is not live. *)
LEMMA MakeHolders ==
  ASSUME NEW ps, NEW n, n \notin DOMAIN ps, NEW p, p.queue = <<>>, NEW m, NEW id
  PROVE  Holds(Insert(ps, n, p), m, id) <=> Holds(ps, m, id)
  <1>1. DOMAIN p.queue = {}
    OBVIOUS
  <1>2. QueueIds(p) = {}
    BY <1>1 DEF QueueIds
  <1>3. QED
    BY <1>2 DEF Holds, Insert

(* Removing a name discards what waited there and nothing else. *)
LEMMA DropLoss ==
  ASSUME NEW ps, NEW k, NEW f \in [MsgId -> Fate], NoLossIn(ps, k, f),
         NEW n \in DOMAIN ps, NEW p, p.queue = ps[n].queue
  PROVE  NoLossIn(Remove(ps, n), k,
                  [id \in MsgId |-> IF id \in QueueIds(p) THEN "discarded" ELSE f[id]])
  <1> DEFINE g == [id \in MsgId |-> IF id \in QueueIds(p) THEN "discarded" ELSE f[id]]
  <1>1. \A m, id : Holds(Remove(ps, n), m, id) <=> Holds(ps, m, id) /\ m # n
    BY DEF Holds, Remove
  <1>2. \A id : id \in QueueIds(p) <=> Holds(ps, n, id)
    BY DEF Holds, QueueIds
  <1>3. ASSUME NEW id \in MsgId
        PROVE  g[id] = IF Holds(ps, n, id) THEN "discarded" ELSE f[id]
    BY <1>2
  <1> HIDE DEF g
  <1>4. NoLossIn(Remove(ps, n), k, g)
    <2> SUFFICES ASSUME NEW id \in MsgId
                 PROVE  /\ g[id] = "unsent" <=> id > k
                        /\ g[id] = "queued" <=> \E m : Holds(Remove(ps, n), m, id)
                        /\ \A m, l : Holds(Remove(ps, n), m, id) /\ Holds(Remove(ps, n), l, id)
                                       => m = l
      BY DEF NoLossIn
    <2>1. /\ f[id] = "unsent" <=> id > k
          /\ f[id] = "queued" <=> \E m : Holds(ps, m, id)
          /\ \A m, l : Holds(ps, m, id) /\ Holds(ps, l, id) => m = l
      BY DEF NoLossIn
    <2>2. CASE Holds(ps, n, id)
      BY <1>1, <1>3, <2>1, <2>2
    <2>3. CASE ~Holds(ps, n, id)
      BY <1>1, <1>3, <2>1, <2>3
    <2>4. QED
      BY <2>2, <2>3
  <1>5. QED
    BY <1>4 DEF g

(* Sending puts the new id into one queue. *)
LEMMA SendLoss ==
  ASSUME NEW ps, ps \in [DOMAIN ps -> Port], NEW k \in Nat, k + 1 \in MsgId,
         NEW f \in [MsgId -> Fate], NoLossIn(ps, k, f), NEW d \in DOMAIN ps
  PROVE  NoLossIn(send_msg(ps, d, k + 1), k + 1, [f EXCEPT ![k + 1] = "queued"])
  <1> DEFINE qs == send_msg(ps, d, k + 1)
             g  == [f EXCEPT ![k + 1] = "queued"]
  <1>1. /\ DOMAIN qs = DOMAIN ps
        /\ qs[d] = [ps[d] EXCEPT !.queue = Append(ps[d].queue, k + 1)]
        /\ \A n \in DOMAIN ps \ {d} : qs[n] = ps[n]
    BY DEF send_msg
  <1> HIDE DEF qs
  <1>2. ps[d] \in Port /\ ps[d].queue \in Seq(MsgId)
    BY DEF Port
  <1>3. qs[d].queue = Append(ps[d].queue, k + 1)
    BY <1>1, <1>2 DEF Port
  <1>4. \A id : id \in QueueIds(qs[d]) <=> id \in QueueIds(ps[d]) \/ id = k + 1
    <2> DEFINE q == ps[d].queue
    <2>1. q \in Seq(MsgId) /\ qs[d].queue = Append(q, k + 1)
      BY <1>2, <1>3
    <2> HIDE DEF q
    <2>2. /\ DOMAIN Append(q, k + 1) = 1 .. Len(q) + 1 /\ DOMAIN q = 1 .. Len(q)
          /\ Append(q, k + 1)[Len(q) + 1] = k + 1 /\ Len(q) \in Nat
          /\ \A i \in 1 .. Len(q) : Append(q, k + 1)[i] = q[i]
      BY <2>1
    <2>3. 1 .. Len(q) + 1 = (1 .. Len(q)) \cup {Len(q) + 1}
      BY <2>2
    <2>4. QED
      BY <2>1, <2>2, <2>3 DEF QueueIds, q
  <1>5. \A n, id : Holds(qs, n, id) <=> Holds(ps, n, id) \/ (n = d /\ id = k + 1)
    BY <1>1, <1>4 DEF Holds
  <1>6. g[k + 1] = "queued" /\ \A id \in MsgId \ {k + 1} : g[id] = f[id]
    OBVIOUS
  <1> HIDE DEF g
  <1>7. ASSUME NEW id \in MsgId
        PROVE  /\ g[id] = "unsent" <=> id > k + 1
               /\ g[id] = "queued" <=> \E n : Holds(qs, n, id)
               /\ \A n, m : Holds(qs, n, id) /\ Holds(qs, m, id) => n = m
    <2>1. /\ f[id] = "unsent" <=> id > k
          /\ f[id] = "queued" <=> \E m : Holds(ps, m, id)
          /\ \A m, l : Holds(ps, m, id) /\ Holds(ps, l, id) => m = l
      BY DEF NoLossIn
    <2>2. id \in Int
      BY ConstFacts DEF MsgId
    <2>3. CASE id = k + 1
      <3>1. f[id] = "unsent" /\ ~(id > k + 1)
        BY <2>1, <2>2, <2>3
      <3>2. \A m : ~Holds(ps, m, id)
        BY <2>1, <3>1
      <3>3. QED
        BY <1>5, <1>6, <2>3, <3>1, <3>2
    <2>4. CASE id # k + 1
      <3>1. id > k <=> id > k + 1
        BY <2>2, <2>4
      <3>2. g[id] = f[id]
        BY <1>6, <2>4
      <3>3. \A n : Holds(qs, n, id) <=> Holds(ps, n, id)
        BY <1>5, <2>4
      <3>4. QED
        BY <2>1, <3>1, <3>2, <3>3
    <2>5. QED
      BY <2>3, <2>4
  <1>8. NoLossIn(qs, k + 1, g)
    BY <1>7 DEF NoLossIn
  <1>9. QED
    BY <1>8 DEF qs, g

(* Receiving takes the one copy of the head out of its queue. *)
LEMMA RecvLoss ==
  ASSUME NEW ps, ps \in [DOMAIN ps -> Port], NEW k \in Nat, NEW last, OrderedIn(ps, k, last),
         NEW f \in [MsgId -> Fate], NoLossIn(ps, k, f), NEW d, CanRecv(ps, d)
  PROVE  NoLossIn(recv_msg(ps, d), k, [f EXCEPT ![Head(ps[d].queue)] = "delivered"])
  <1> DEFINE q  == ps[d].queue
             h  == Head(q)
             qs == recv_msg(ps, d)
             g  == [f EXCEPT ![h] = "delivered"]
  <1>1. d \in DOMAIN ps /\ q # <<>>
    BY DEF CanRecv
  <1>2. /\ DOMAIN qs = DOMAIN ps
        /\ qs[d] = [ps[d] EXCEPT !.queue = Tail(q)]
        /\ \A n \in DOMAIN ps \ {d} : qs[n] = ps[n]
        /\ h \in MsgId
    BY <1>1, RecvEffect
  <1>3. g[h] = "delivered" /\ \A id \in MsgId \ {h} : g[id] = f[id]
    BY <1>2
  <1> HIDE DEF qs, g
  <1>4. ps[d] \in Port /\ q \in Seq(MsgId) /\ qs[d].queue = Tail(q)
    BY <1>1, <1>2 DEF Port
  <1>5. /\ DOMAIN Tail(q) = 1 .. Len(q) - 1 /\ DOMAIN q = 1 .. Len(q)
        /\ \A i \in 1 .. Len(q) - 1 : Tail(q)[i] = q[i + 1]
        /\ h = q[1] /\ Len(q) \in Nat /\ Len(q) >= 1
    BY <1>1, <1>4
  <1>6. \A i \in 1 .. Len(q) : q[i] = q[1] => i = 1
    <2>1. \A i \in 1 .. Len(q) : q[i] \in Int
      <3>1. \A i \in 1 .. Len(q) : q[i] \in MsgId
        BY <1>4, <1>5
      <3>2. MsgId \subseteq Int
        BY ConstFacts DEF MsgId
      <3>3. QED
        BY <3>1, <3>2
    <2>2. \A i, j \in 1 .. Len(q) : i < j => q[i] < q[j]
      BY <1>1, <1>5 DEF OrderedIn
    <2> HIDE DEF q
    <2>3. QED
      BY <1>5, <2>1, <2>2
  <1>7. QueueIds(ps[d]) = {q[i] : i \in 1 .. Len(q)}
    BY <1>5 DEF QueueIds
  <1>8. QueueIds(qs[d]) = {q[i + 1] : i \in 1 .. Len(q) - 1}
    BY <1>4, <1>5 DEF QueueIds
  <1> HIDE DEF h
  <1>9. \A id : id \in QueueIds(qs[d]) <=> id \in QueueIds(ps[d]) /\ id # h
    <2> HIDE DEF q
    <2>1. ASSUME NEW id \in QueueIds(qs[d]) PROVE id \in QueueIds(ps[d]) /\ id # h
      <3>1. PICK i \in 1 .. Len(q) - 1 : id = q[i + 1]
        BY <1>8
      <3>2. i + 1 \in 1 .. Len(q) /\ i + 1 # 1
        BY <1>5
      <3>3. QED
        BY <1>5, <1>6, <1>7, <3>1, <3>2
    <2>2. ASSUME NEW id \in QueueIds(ps[d]), id # h PROVE id \in QueueIds(qs[d])
      <3>1. PICK i \in 1 .. Len(q) : id = q[i]
        BY <1>7
      <3>2. i # 1
        BY <1>5, <2>2, <3>1
      <3>3. i - 1 \in 1 .. Len(q) - 1 /\ (i - 1) + 1 = i
        BY <1>5, <3>2
      <3>4. QED
        BY <1>8, <3>1, <3>3
    <2>3. QED
      BY <2>1, <2>2
  <1>10. h \in QueueIds(ps[d])
    BY <1>5, <1>7
  <1>11. \A n, id : Holds(qs, n, id) <=> Holds(ps, n, id) /\ ~(n = d /\ id = h)
    BY <1>1, <1>2, <1>9 DEF Holds
  <1>12. Holds(ps, d, h)
    BY <1>1, <1>10 DEF Holds
  <1> HIDE DEF q
  <1>13. ASSUME NEW id \in MsgId
         PROVE  /\ g[id] = "unsent" <=> id > k
                /\ g[id] = "queued" <=> \E n : Holds(qs, n, id)
                /\ \A n, m : Holds(qs, n, id) /\ Holds(qs, m, id) => n = m
    <2>1. /\ f[id] = "unsent" <=> id > k
          /\ f[id] = "queued" <=> \E m : Holds(ps, m, id)
          /\ \A m, l : Holds(ps, m, id) /\ Holds(ps, l, id) => m = l
      BY DEF NoLossIn
    <2>2. CASE id = h
      BY <1>3, <1>11, <1>12, <2>1, <2>2
    <2>3. CASE id # h
      BY <1>3, <1>11, <2>1, <2>3
    <2>4. QED
      BY <2>2, <2>3
  <1>14. NoLossIn(qs, k, g)
    BY <1>13 DEF NoLossIn
  <1>15. QED
    BY <1>14 DEF qs, g, h, q

-----------------------------------------------------------------------------
(* The fates of the messages, for a guest that invents no name. *)
NoLoss == invented = {} => NoLossIn(ports, sent, fate)

(* What deallocate and mod_refs do to the namespace loses nothing silently. *)
LEMMA StoreOrRemoveLoss ==
  ASSUME TypeOK, NoLossIn(ports, sent, fate), NEW n \in DOMAIN ports, NEW p,
         StoreOrRemove(n, p), p.queue = ports[n].queue
  PROVE  NoLossIn(ports', sent, fate')
  <1>1. CASE Rightless(p)
    <2>1. fate \in [MsgId -> Fate]
      BY DEF TypeOK
    <2>2. QED
      BY <1>1, <2>1, DropLoss DEF StoreOrRemove
  <1>2. CASE ~Rightless(p)
    <2>1. ports' = [ports EXCEPT ![n] = p] /\ fate' = fate
      BY <1>2 DEF StoreOrRemove
    <2>2. QED
      BY <2>1, StoreHolders, SameHoldersKeep
  <1>3. QED
    BY <1>1, <1>2

(* Nor does the receive phase, on whatever namespace the send phase left. *)
LEMMA ReceivePhaseLoss ==
  ASSUME NEW ps, ps \in [DOMAIN ps -> Port], NEW k \in Nat, NEW last, OrderedIn(ps, k, last),
         NEW f \in [MsgId -> Fate], NoLossIn(ps, k, f), NEW n, ReceivePhase(ps, f, n)
  PROVE  NoLossIn(ports', k, fate')
  <1>1. CASE CanRecv(ps, n)
    BY <1>1, RecvLoss DEF ReceivePhase
  <1>2. CASE ~CanRecv(ps, n)
    BY <1>2 DEF ReceivePhase
  <1>3. QED
    BY <1>1, <1>2

(* Every call keeps NoLoss: allocate needs a fresh name, which KnownNames  *)
(* gives, and receiving needs distinct ids in a queue, which their order   *)
(* gives.                                                                  *)
LEMMA NoLossStep ==
  ASSUME IInv, KnownNames, NoLoss, [Next]_vars
  PROVE  NoLoss'
  <1>0. /\ TypeOK /\ OrderedIn(ports, sent, lastRcv) /\ sent \in Nat
        /\ ports \in [DOMAIN ports -> Port] /\ fate \in [MsgId -> Fate]
        /\ next_name \in Name /\ DOMAIN ports \subseteq Name
    BY ConstFacts DEF IInv, SafeIn, TypeOK
  <1> SUFFICES ASSUME invented' = {} PROVE NoLossIn(ports', sent', fate')
    BY DEF NoLoss
  <1>a. invented = {}
    <2>1. invented \subseteq invented'
      BY DEF Next, vars, allocate, deallocate, port_type, mach_msg_send, mach_msg_rcv, insert_new,
             insert_existing, mod_refs, mach_msg_send_rcv
    <2>2. QED
      BY <2>1
  <1>b. NoLossIn(ports, sent, fate) /\ next_name \notin DOMAIN ports
    BY <1>0, <1>a, ConstFacts DEF NoLoss, KnownNames, Name
  <1> DEFINE Goal == NoLossIn(ports', sent', fate')
  <1>1. ASSUME NEW right \in Right, allocate(right) PROVE Goal
    <2>1. ports' = ports \/ ports' = Insert(ports, next_name, PortFor(right))
      BY <1>1 DEF allocate
    <2>2. PortFor(right).queue = <<>>
      BY NewPorts
    <2>3. NoLossIn(ports', sent, fate)
      BY <1>b, <2>1, <2>2, MakeHolders, SameHoldersKeep
    <2>4. QED
      BY <1>1, <2>3 DEF allocate
  <1>2. ASSUME NEW n \in GuestNames, deallocate(n) PROVE Goal
    <2>1. CASE n \in DOMAIN ports
      <3> DEFINE p == [ports[n] EXCEPT !.send = IF ports[n].send > 0
                                                THEN ports[n].send - 1 ELSE 0]
      <3>1. p.queue = ports[n].queue
        BY <1>0, <2>1 DEF Port
      <3>2. StoreOrRemove(n, p) /\ UNCHANGED sent
        BY <1>2, <2>1 DEF deallocate
      <3> HIDE DEF p
      <3>3. QED
        BY <1>0, <1>b, <2>1, <3>1, <3>2, StoreOrRemoveLoss
    <2>2. CASE n \notin DOMAIN ports
      BY <1>2, <1>b, <2>2 DEF deallocate
    <2>3. QED
      BY <2>1, <2>2
  <1>3. ASSUME NEW n \in GuestNames, port_type(n) PROVE Goal
    BY <1>3, <1>b DEF port_type
  <1>4. ASSUME NEW n \in GuestNames, mach_msg_send(n) PROVE Goal
    <2>1. CASE CanSend(ports, n)
      <3>1. n \in DOMAIN ports /\ sent + 1 \in MsgId
        BY <1>0, <1>4, <2>1, ConstFacts DEF CanSend, mach_msg_send, MsgId
      <3>2. NoLossIn(send_msg(ports, n, sent + 1), sent + 1, [fate EXCEPT ![sent + 1] = "queued"])
        BY <1>0, <1>b, <3>1, SendLoss
      <3>3. QED
        BY <1>4, <2>1, <3>2 DEF mach_msg_send
    <2>2. CASE ~CanSend(ports, n)
      BY <1>4, <1>b, <2>2 DEF mach_msg_send
    <2>3. QED
      BY <2>1, <2>2
  <1>5. ASSUME NEW n \in GuestNames, mach_msg_rcv(n) PROVE Goal
    <2>1. ReceivePhase(ports, fate, n) /\ sent' = sent
      BY <1>5 DEF mach_msg_rcv
    <2>2. QED
      BY <1>0, <1>b, <2>1, ReceivePhaseLoss
  <1>6. ASSUME NEW n \in GuestNames, NEW poly \in PolyType, insert_new(n, poly) PROVE Goal
    <2>1. /\ n \notin DOMAIN ports
          /\ \/ ports' = ports
             \/ ports' = Insert(ports, n, new_send_only)
             \/ ports' = Insert(ports, n, new_with_receive)
      BY <1>6 DEF insert_new
    <2>2. new_send_only.queue = <<>> /\ new_with_receive.queue = <<>>
      BY NewPorts
    <2>3. NoLossIn(ports', sent, fate)
      BY <1>b, <2>1, <2>2, MakeHolders, SameHoldersKeep
    <2>4. QED
      BY <1>6, <2>3 DEF insert_new
  <1>7. ASSUME NEW n \in GuestNames, NEW poly \in PolyType, insert_existing(n, poly) PROVE Goal
    <2>1. n \in DOMAIN ports /\ ports[n] \in Port
      BY <1>0, <1>7 DEF insert_existing
    <2> DEFINE p == [ports[n] EXCEPT !.send = IncCount(ports[n].send)]
               r == [ports[n] EXCEPT !.receive = TRUE]
    <2>2. p.queue = ports[n].queue /\ r.queue = ports[n].queue
      BY <2>1 DEF Port
    <2>3. \/ ports' = ports
          \/ ports' = [ports EXCEPT ![n] = p]
          \/ ports' = [ports EXCEPT ![n] = r]
      BY <1>7 DEF insert_existing
    <2> HIDE DEF p, r
    <2>4. NoLossIn(ports', sent, fate)
      BY <1>b, <2>1, <2>2, <2>3, StoreHolders, SameHoldersKeep
    <2>5. QED
      BY <1>7, <2>4 DEF insert_existing
  <1>8. ASSUME NEW n \in GuestNames, NEW right \in Right, NEW d \in Delta,
               mod_refs(n, right, d) PROVE Goal
    <2>1. CASE n \in DOMAIN ports
      <3> DEFINE p == ModifiedPort(ports[n], right, d)
      <3>1. p.queue = ports[n].queue
        BY <1>0, <2>1, ModifiedPortType
      <3>2. StoreOrRemove(n, p) /\ UNCHANGED sent
        BY <1>8, <2>1 DEF mod_refs
      <3> HIDE DEF p
      <3>3. QED
        BY <1>0, <1>b, <2>1, <3>1, <3>2, StoreOrRemoveLoss
    <2>2. CASE n \notin DOMAIN ports
      BY <1>8, <1>b, <2>2 DEF mod_refs
    <2>3. QED
      BY <2>1, <2>2
  <1>9. ASSUME NEW n \in GuestNames, NEW m \in GuestNames, mach_msg_send_rcv(n, m) PROVE Goal
    <2>1. CASE CanSend(ports, n)
      <3> DEFINE ps == send_msg(ports, n, sent + 1)
                 f  == [fate EXCEPT ![sent + 1] = "queued"]
      <3>1. n \in DOMAIN ports /\ sent + 1 \in MsgId /\ sent < MaxMsgs
        BY <1>0, <1>9, <2>1, ConstFacts DEF CanSend, mach_msg_send_rcv, MsgId
      <3>2. NoLossIn(ps, sent + 1, f)
        BY <1>0, <1>b, <3>1, SendLoss
      <3>3. OrderedIn(ps, sent + 1, lastRcv)
        <4>1. /\ sent \in 0 .. MaxMsgs /\ lastRcv \in [Name -> 0 .. sent]
              /\ SafeIn(ports, sent, lastRcv)
          BY DEF IInv, TypeOK
        <4>2. SafeIn(ps, sent + 1, lastRcv)
          BY <1>0, <2>1, <3>1, <4>1, SendKeeps
        <4>3. QED
          BY <4>2 DEF SafeIn
      <3>4. ps \in [DOMAIN ps -> Port] /\ f \in [MsgId -> Fate]
        BY <1>0, <3>1, SendTypes
      <3>5. ReceivePhase(ps, f, m) /\ sent' = sent + 1
        BY <1>9, <2>1 DEF mach_msg_send_rcv
      <3> HIDE DEF ps, f
      <3>6. QED
        BY <1>0, <3>2, <3>3, <3>4, <3>5, ReceivePhaseLoss
    <2>2. CASE ~CanSend(ports, n)
      BY <1>9, <1>b, <2>2 DEF mach_msg_send_rcv
    <2>3. QED
      BY <2>1, <2>2
  <1>10. CASE UNCHANGED vars
    BY <1>10, <1>b DEF vars
  <1>11. QED
    BY <1>1, <1>2, <1>3, <1>4, <1>5, <1>6, <1>7, <1>8, <1>9, <1>10 DEF Next

(* Until the name counter reaches its end NoLoss holds. *)
LEMMA NoLossInductive ==
  ASSUME MaxNext < NameMod - 1
  PROVE  Spec => []NoLoss
  <1>1. Init => KnownNames
    BY MachAssumption DEF Init, KnownNames
  <1>2. Init => NoLoss
    <2> SUFFICES ASSUME Init, NEW id \in MsgId
                 PROVE  fate[id] = "unsent" /\ id > sent /\ \A n : ~Holds(ports, n, id)
      BY DEF NoLoss, NoLossIn
    <2>1. fate[id] = "unsent" /\ id > sent
      BY ConstFacts DEF Init, MsgId
    <2>2. \A n \in DOMAIN ports : ports[n].queue = <<>>
      BY NewPorts DEF Init
    <2>3. \A n \in DOMAIN ports : QueueIds(ports[n]) = {}
      BY <2>2 DEF QueueIds
    <2>4. QED
      BY <2>1, <2>3 DEF Holds
  <1>3. TypeOK /\ KnownNames /\ [Next]_vars => KnownNames'
    BY KnownNamesStep
  <1>4. IInv /\ KnownNames /\ NoLoss /\ [Next]_vars => NoLoss'
    BY NoLossStep
  <1>5. QED
    BY <1>1, <1>2, <1>3, <1>4, TypeCorrect, Inductive, PTL DEF Spec

(* Until the name counter reaches its end, and as long as the guest        *)
(* inserts rights only under names it was given, every message mach_msg    *)
(* accepted waits in exactly one queue until it is received or its port    *)
(* loses its last right.                                                   *)
THEOREM NothingLostSilently ==
  ASSUME MaxNext < NameMod - 1
  PROVE  Spec => []NoSilentLoss
  <1>1. NoLoss => NoSilentLoss
    <2>1. \A id : Holders(id) = {n \in DOMAIN ports : Holds(ports, n, id)}
      BY DEF Holders, Holds
    <2>2. \A id, n : n \in Holders(id) <=> Holds(ports, n, id)
      BY <2>1 DEF Holds
    <2>3. QED
      BY <2>2 DEF NoLoss, NoLossIn, NoSilentLoss
  <1>2. QED
    BY <1>1, NoLossInductive, PTL

-----------------------------------------------------------------------------
(* The end of a message: received, or discarded with its port. *)
Over == {"delivered", "discarded"}

(* What has ended before a step has ended the same way after it. *)
EndsKept(f, g) == \A id \in MsgId : f[id] \in Over => g[id] = f[id]

(* deallocate and mod_refs discard what waits, and what waits has not ended. *)
LEMMA StoreOrRemoveEnds ==
  ASSUME TypeOK, NoLossIn(ports, sent, fate), NEW n \in DOMAIN ports, NEW p,
         StoreOrRemove(n, p), p.queue = ports[n].queue
  PROVE  EndsKept(fate, fate')
  <1>1. CASE Rightless(p)
    <2>1. \A id \in MsgId : id \in QueueIds(p) => fate[id] = "queued"
      BY DEF NoLossIn, Holds, QueueIds
    <2>2. \A id \in MsgId : fate'[id] = IF id \in QueueIds(p) THEN "discarded" ELSE fate[id]
      BY <1>1 DEF StoreOrRemove
    <2>3. QED
      BY <2>1, <2>2 DEF EndsKept, Over
  <1>2. CASE ~Rightless(p)
    BY <1>2 DEF StoreOrRemove, EndsKept
  <1>3. QED
    BY <1>1, <1>2

(* The receive phase ends a message that waits. *)
LEMMA ReceivePhaseEnds ==
  ASSUME NEW ps, ps \in [DOMAIN ps -> Port], NEW k \in Nat, NEW f \in [MsgId -> Fate],
         NoLossIn(ps, k, f), NEW n, ReceivePhase(ps, f, n)
  PROVE  EndsKept(f, fate')
  <1>1. CASE CanRecv(ps, n)
    <2>1. n \in DOMAIN ps /\ ps[n].queue # <<>> /\ ps[n].queue \in Seq(MsgId)
      BY <1>1 DEF CanRecv, Port
    <2>2. PICK h \in MsgId : h = Head(ps[n].queue)
      BY <2>1
    <2>3. h \in QueueIds(ps[n])
      <3>1. 1 \in DOMAIN ps[n].queue /\ h = ps[n].queue[1]
        BY <2>1, <2>2
      <3>2. QED
        BY <3>1 DEF QueueIds
    <2>4. f[h] = "queued"
      BY <2>1, <2>3 DEF NoLossIn, Holds
    <2>5. fate' = [f EXCEPT ![h] = "delivered"]
      BY <1>1, <2>2 DEF ReceivePhase
    <2>6. QED
      BY <2>4, <2>5 DEF EndsKept, Over
  <1>2. CASE ~CanRecv(ps, n)
    BY <1>2 DEF ReceivePhase, EndsKept
  <1>3. QED
    BY <1>1, <1>2

(* Accepting a message ends none: its id is new. *)
LEMMA SendEnds ==
  ASSUME NEW ps, NEW k \in Nat, NEW f \in [MsgId -> Fate], NoLossIn(ps, k, f), k + 1 \in MsgId
  PROVE  EndsKept(f, [f EXCEPT ![k + 1] = "queued"])
  <1>1. f[k + 1] = "unsent"
    BY DEF NoLossIn
  <1>2. QED
    BY <1>1 DEF EndsKept, Over

(* Every call leaves what has ended alone. *)
LEMMA EndsStep ==
  ASSUME TypeOK, NoLoss, invented = {}, [Next]_vars
  PROVE  EndsKept(fate, fate')
  <1>0. /\ NoLossIn(ports, sent, fate) /\ sent \in Nat /\ sent \in 0 .. MaxMsgs
        /\ ports \in [DOMAIN ports -> Port] /\ fate \in [MsgId -> Fate]
    BY ConstFacts DEF TypeOK, NoLoss
  <1>u. fate' = fate => EndsKept(fate, fate')
    BY DEF EndsKept
  <1>1. ASSUME NEW right \in Right, allocate(right) PROVE fate' = fate
    BY <1>1 DEF allocate
  <1>2. ASSUME NEW n \in GuestNames, deallocate(n) PROVE EndsKept(fate, fate')
    <2>1. CASE n \in DOMAIN ports
      <3> DEFINE p == [ports[n] EXCEPT !.send = IF ports[n].send > 0
                                                THEN ports[n].send - 1 ELSE 0]
      <3>1. p.queue = ports[n].queue
        BY <1>0, <2>1 DEF Port
      <3>2. StoreOrRemove(n, p)
        BY <1>2, <2>1 DEF deallocate
      <3> HIDE DEF p
      <3>3. QED
        BY <1>0, <2>1, <3>1, <3>2, StoreOrRemoveEnds
    <2>2. CASE n \notin DOMAIN ports
      BY <1>2, <1>u, <2>2 DEF deallocate
    <2>3. QED
      BY <2>1, <2>2
  <1>3. ASSUME NEW n \in GuestNames, port_type(n) PROVE fate' = fate
    BY <1>3 DEF port_type
  <1>4. ASSUME NEW n \in GuestNames, mach_msg_send(n) PROVE EndsKept(fate, fate')
    <2>1. CASE CanSend(ports, n)
      <3>1. sent + 1 \in MsgId
        BY <1>0, <1>4, ConstFacts DEF mach_msg_send, MsgId
      <3>2. QED
        BY <1>0, <1>4, <2>1, <3>1, SendEnds DEF mach_msg_send
    <2>2. CASE ~CanSend(ports, n)
      BY <1>4, <1>u, <2>2 DEF mach_msg_send
    <2>3. QED
      BY <2>1, <2>2
  <1>5. ASSUME NEW n \in GuestNames, mach_msg_rcv(n) PROVE EndsKept(fate, fate')
    <2>1. ReceivePhase(ports, fate, n)
      BY <1>5 DEF mach_msg_rcv
    <2>2. QED
      BY <1>0, <2>1, ReceivePhaseEnds
  <1>6. ASSUME NEW n \in GuestNames, NEW poly \in PolyType,
               insert_new(n, poly) \/ insert_existing(n, poly) PROVE fate' = fate
    BY <1>6 DEF insert_new, insert_existing
  <1>7. ASSUME NEW n \in GuestNames, NEW right \in Right, NEW d \in Delta,
               mod_refs(n, right, d) PROVE EndsKept(fate, fate')
    <2>1. CASE n \in DOMAIN ports
      <3> DEFINE p == ModifiedPort(ports[n], right, d)
      <3>1. p.queue = ports[n].queue
        BY <1>0, <2>1, ModifiedPortType
      <3>2. StoreOrRemove(n, p)
        BY <1>7, <2>1 DEF mod_refs
      <3> HIDE DEF p
      <3>3. QED
        BY <1>0, <2>1, <3>1, <3>2, StoreOrRemoveEnds
    <2>2. CASE n \notin DOMAIN ports
      BY <1>7, <1>u, <2>2 DEF mod_refs
    <2>3. QED
      BY <2>1, <2>2
  <1>8. ASSUME NEW n \in GuestNames, NEW m \in GuestNames, mach_msg_send_rcv(n, m)
        PROVE  EndsKept(fate, fate')
    <2>1. CASE CanSend(ports, n)
      <3> DEFINE ps == send_msg(ports, n, sent + 1)
                 f  == [fate EXCEPT ![sent + 1] = "queued"]
      <3>1. n \in DOMAIN ports /\ sent + 1 \in MsgId /\ sent + 1 \in Nat
        BY <1>0, <1>8, <2>1, ConstFacts DEF CanSend, mach_msg_send_rcv, MsgId
      <3>2. NoLossIn(ps, sent + 1, f)
        BY <1>0, <3>1, SendLoss
      <3>3. ps \in [DOMAIN ps -> Port] /\ f \in [MsgId -> Fate]
        BY <1>0, <3>1, SendTypes
      <3>4. EndsKept(fate, f)
        BY <1>0, <3>1, SendEnds
      <3>5. ReceivePhase(ps, f, m)
        BY <1>8, <2>1 DEF mach_msg_send_rcv
      <3> HIDE DEF ps, f
      <3>6. EndsKept(f, fate')
        BY <3>1, <3>2, <3>3, <3>5, ReceivePhaseEnds
      <3>7. QED
        BY <3>4, <3>6 DEF EndsKept
    <2>2. CASE ~CanSend(ports, n)
      BY <1>8, <1>u, <2>2 DEF mach_msg_send_rcv
    <2>3. QED
      BY <2>1, <2>2
  <1>9. CASE UNCHANGED vars
    BY <1>9, <1>u DEF vars
  <1>10. QED
    BY <1>u, <1>1, <1>2, <1>3, <1>4, <1>5, <1>6, <1>7, <1>8, <1>9 DEF Next

(* Under the same conditions the end of a message is final: one that was   *)
(* received is never queued again or discarded, and one that went with its *)
(* port is never queued again or received, also when the name is made      *)
(* anew.  With NothingLostSilently, by which a message that has ended is   *)
(* in no queue, a message is delivered at most once.                       *)
THEOREM EndsAreFinal ==
  ASSUME MaxNext < NameMod - 1
  PROVE  Spec => [][invented = {} => EndsKept(fate, fate')]_vars
  <1>1. TypeOK /\ NoLoss /\ [Next]_vars => [invented = {} => EndsKept(fate, fate')]_vars
    BY EndsStep
  <1>2. QED
    BY <1>1, TypeCorrect, NoLossInductive, PTL DEF Spec
=============================================================================
