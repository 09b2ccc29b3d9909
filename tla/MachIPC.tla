------------------------------- MODULE MachIPC -------------------------------
(***************************************************************************)
(* The in-process Mach port namespace of grafted-dyld/src/mach_ipc.rs:     *)
(* port names, the rights held under each name, and one message queue per  *)
(* port.  Every public function of the file holds the PORT_SPACE mutex for *)
(* its whole body, so each call is one step whichever thread makes it.     *)
(*                                                                         *)
(* A message is its identity: header and body travel unchanged, and the    *)
(* truncation of a body to the receiver's buffer is left out.  u32 names   *)
(* and u32/i32 right counts keep their wrap-around; the widths are         *)
(* parameters.                                                             *)
(***************************************************************************)
EXTENDS Integers, Sequences

CONSTANTS
  NameMod,       \* names are u32: 0 .. NameMod-1 (2^32 in the code)
  UserBase,      \* 0x1000, where next_name starts
  SpecialPorts,  \* the pre-allocated names: task, thread, host, reply, bootstrap
  CountHalf,     \* a right count is a u32 of 2*CountHalf values
  MaxSend,       \* bound: insert_right makes no count exceed it
  MaxNext,       \* bound: allocate is called while next_name <= MaxNext
  MaxMsgs,       \* bound: messages sent in a behaviour
  GuestNames     \* the names the guest passes to calls

CountMod == 2 * CountHalf
Name     == 0 .. NameMod - 1
Count    == 0 .. CountMod - 1
Delta    == -CountHalf .. CountHalf - 1
MsgId    == 1 .. MaxMsgs

ASSUME MachAssumption ==
  /\ NameMod \in Nat /\ UserBase \in Nat /\ UserBase < NameMod - 2
  /\ SpecialPorts \subseteq 1 .. UserBase - 1
  /\ CountHalf \in Nat /\ CountHalf > 0
  /\ MaxSend \in Nat /\ MaxSend < CountMod
  /\ MaxNext \in Name /\ MaxMsgs \in Nat
  /\ GuestNames \subseteq Name

Right    == {"SEND", "RECEIVE", "SEND_ONCE", "PORT_SET", "DEAD_NAME", "bad"}
PolyType == {"MAKE_SEND", "COPY_SEND", "MOVE_SEND", "MOVE_RECEIVE",
             "MAKE_SEND_ONCE", "MOVE_SEND_ONCE", "bad"}

Code     == {"KERN_SUCCESS", "KERN_NO_SPACE", "KERN_INVALID_ARGUMENT", "KERN_INVALID_NAME",
             "MACH_MSG_SUCCESS", "MACH_SEND_INVALID_DEST", "MACH_RCV_TIMED_OUT"}
Fate     == {"unsent", "queued", "delivered", "discarded"}

Port == [send : Count, receive : BOOLEAN, dead : BOOLEAN, queue : Seq(MsgId)]

VARIABLES
  ports,      \* name -> Port, defined exactly on the live names
  next_name,  \* the next name allocate hands out
  sent,       \* number of messages accepted so far; their ids are 1..sent
  fate,       \* history: what became of each message id
  lastRcv,    \* history: the newest id received from each name
  ret,        \* the code the last call returned
  invented    \* history: the names the guest made up, never handed out before

vars == <<ports, next_name, sent, fate, lastRcv, ret, invented>>

-----------------------------------------------------------------------------
(* Port constructors and the HashMap operations on the namespace. *)

new_with_receive      == [send |-> 0, receive |-> TRUE,  dead |-> FALSE, queue |-> <<>>]
new_send_only         == [send |-> 1, receive |-> FALSE, dead |-> FALSE, queue |-> <<>>]
new_dead_name         == [send |-> 1, receive |-> FALSE, dead |-> TRUE,  queue |-> <<>>]
new_with_send_receive == [send |-> 1, receive |-> TRUE,  dead |-> FALSE, queue |-> <<>>]

Insert(f, n, p) == [m \in DOMAIN f \cup {n} |-> IF m = n THEN p ELSE f[m]]
Remove(f, n)    == [m \in DOMAIN f \ {n} |-> f[m]]

(* Mutant: names start over at UserBase when they run out. *)
IncName_recycling(n) == IF n + 1 = NameMod - 1 THEN UserBase ELSE n + 1

(* u32 `+= 1` and `as i32 + delta` as the release build computes them. *)
IncName(n)  == IF n + 1 = NameMod THEN 0 ELSE n + 1
IncCount(c) == IF c + 1 = CountMod THEN 0 ELSE c + 1
AsI32(c)    == IF c >= CountHalf THEN c - CountMod ELSE c
AddI32(c, d) ==
  LET s == AsI32(c) + d
  IN  IF s >= CountHalf THEN s - CountMod
      ELSE IF s < -CountHalf THEN s + CountMod
      ELSE s

Rightless(p) == p.send = 0 /\ ~p.receive
QueueIds(p)  == {p.queue[i] : i \in DOMAIN p.queue}

(* Mutant: the entry stays when its last right goes. *)
StoreOrRemove_keeping(n, p) == ports' = [ports EXCEPT ![n] = p] /\ UNCHANGED fate

(* Store the updated port p under n, or drop n and its queue when no right *)
(* is left: the tail of deallocate and of mod_refs.                        *)
StoreOrRemove(n, p) ==
  IF Rightless(p)
  THEN /\ ports' = Remove(ports, n)
       /\ fate' = [id \in MsgId |-> IF id \in QueueIds(p) THEN "discarded" ELSE fate[id]]
  ELSE /\ ports' = [ports EXCEPT ![n] = p]
       /\ UNCHANGED fate

Init ==
  /\ ports = [n \in SpecialPorts |-> new_with_send_receive]
  /\ next_name = UserBase
  /\ sent = 0
  /\ fate = [id \in MsgId |-> "unsent"]
  /\ lastRcv = [n \in Name |-> 0]
  /\ ret = "KERN_SUCCESS"
  /\ invented = {}

-----------------------------------------------------------------------------
(* mach_port_allocate: the name is consumed even when the call fails. *)
PortFor(right) ==
  CASE right \in {"RECEIVE", "PORT_SET"} -> new_with_receive
    [] right = "SEND"                    -> new_send_only
    [] OTHER                             -> new_dead_name

AllocateCode(name, right) ==
  IF IncName(name) > NameMod - 2 THEN "KERN_NO_SPACE"
  ELSE IF right \in {"SEND_ONCE", "bad"} THEN "KERN_INVALID_ARGUMENT"
  ELSE "KERN_SUCCESS"

allocate(right) ==
  /\ next_name <= MaxNext
  /\ LET name == next_name
         code == AllocateCode(name, right)
     IN  /\ next_name' = IncName(name)
         /\ ports' = IF code = "KERN_SUCCESS"
                     THEN Insert(ports, name, PortFor(right)) ELSE ports
         /\ ret' = code
  /\ UNCHANGED <<sent, fate, lastRcv, invented>>

(* Mutant: no test of send_count before the decrement. *)
deallocate_unchecked(name) ==
  /\ IF name \in DOMAIN ports
     THEN /\ StoreOrRemove(name, [ports[name] EXCEPT !.send = ports[name].send - 1])
          /\ ret' = "KERN_SUCCESS"
     ELSE /\ ret' = "KERN_INVALID_NAME"
          /\ UNCHANGED <<ports, fate>>
  /\ UNCHANGED <<next_name, sent, lastRcv, invented>>

(* mach_port_deallocate: give up one send right. *)
deallocate(name) ==
  /\ IF name \in DOMAIN ports
     THEN LET p == ports[name]
          IN  /\ StoreOrRemove(name, [p EXCEPT !.send = IF p.send > 0 THEN p.send - 1 ELSE 0])
              /\ ret' = "KERN_SUCCESS"
     ELSE /\ ret' = "KERN_INVALID_NAME"
          /\ UNCHANGED <<ports, fate>>
  /\ UNCHANGED <<next_name, sent, lastRcv, invented>>

(* mach_port_insert_right on a name that is not live: it makes the name. *)
insert_new(name, poly) ==
  /\ name \notin DOMAIN ports
  /\ \/ /\ poly \in {"MAKE_SEND", "COPY_SEND", "MOVE_SEND"}
        /\ ports' = Insert(ports, name, new_send_only)
        /\ ret' = "KERN_SUCCESS"
        /\ invented' = invented \cup {n \in {name} : n >= next_name}
     \/ /\ poly = "MOVE_RECEIVE"
        /\ ports' = Insert(ports, name, new_with_receive)
        /\ ret' = "KERN_SUCCESS"
        /\ invented' = invented \cup {n \in {name} : n >= next_name}
     \/ /\ poly \in {"MAKE_SEND_ONCE", "MOVE_SEND_ONCE", "bad"}
        /\ ret' = "KERN_INVALID_ARGUMENT"
        /\ UNCHANGED <<ports, invented>>
  /\ UNCHANGED <<next_name, sent, fate, lastRcv>>

(* mach_port_insert_right on a live name: it adds a right. *)
insert_existing(name, poly) ==
  /\ name \in DOMAIN ports
  /\ \/ /\ poly \in {"MAKE_SEND", "COPY_SEND", "MOVE_SEND"}
        /\ ports[name].send < MaxSend
        /\ ports' = [ports EXCEPT ![name].send = IncCount(ports[name].send)]
        /\ ret' = "KERN_SUCCESS"
     \/ /\ poly = "MOVE_RECEIVE"
        /\ ports' = [ports EXCEPT ![name].receive = TRUE]
        /\ ret' = "KERN_SUCCESS"
     \/ /\ poly \in {"MAKE_SEND_ONCE", "MOVE_SEND_ONCE"}
        /\ ret' = "KERN_SUCCESS"
        /\ UNCHANGED ports
     \/ /\ poly = "bad"
        /\ ret' = "KERN_INVALID_ARGUMENT"
        /\ UNCHANGED ports
  /\ UNCHANGED <<next_name, sent, fate, lastRcv, invented>>

(* mach_port_mod_refs. *)
ModifiedPort(p, right, delta) ==
  CASE right = "SEND"    -> [p EXCEPT !.send = IF AddI32(p.send, delta) < 0
                                               THEN 0 ELSE AddI32(p.send, delta)]
    [] right = "RECEIVE" -> [p EXCEPT !.receive = IF delta < 0 THEN FALSE ELSE p.receive]
    [] OTHER             -> p

mod_refs(name, right, delta) ==
  /\ IF name \in DOMAIN ports
     THEN /\ StoreOrRemove(name, ModifiedPort(ports[name], right, delta))
          /\ ret' = "KERN_SUCCESS"
     ELSE /\ ret' = "KERN_INVALID_NAME"
          /\ UNCHANGED <<ports, fate>>
  /\ UNCHANGED <<next_name, sent, lastRcv, invented>>

-----------------------------------------------------------------------------
(* mach_msg.  The send phase and the receive phase work on the namespace   *)
(* ps and yield the next one; the lock is held over both.                  *)

(* Mutants: a dead name accepts messages; the newest message goes first; a *)
(* received message stays in the queue.                                    *)
CanSend_dead(ps, dest) == dest \in DOMAIN ps
send_msg_front(ps, dest, id) == [ps EXCEPT ![dest].queue = <<id>> \o ps[dest].queue]
recv_msg_peek(ps, name) == ps

CanSend(ps, dest) == dest \in DOMAIN ps /\ ~ps[dest].dead
send_msg(ps, dest, id) == [ps EXCEPT ![dest].queue = Append(ps[dest].queue, id)]

CanRecv(ps, name) == name \in DOMAIN ps /\ ps[name].queue # <<>>
recv_msg(ps, name) == [ps EXCEPT ![name].queue = Tail(ps[name].queue)]

(* The receive phase on namespace ps after fates f: a message, or timed    *)
(* out at once, whether or not the caller asked for a timeout.             *)
ReceivePhase(ps, f, name) ==
  IF CanRecv(ps, name)
  THEN LET id == Head(ps[name].queue)
       IN  /\ ports' = recv_msg(ps, name)
           /\ fate' = [f EXCEPT ![id] = "delivered"]
           /\ lastRcv' = [lastRcv EXCEPT ![name] = id]
           /\ ret' = "MACH_MSG_SUCCESS"
  ELSE /\ ports' = ps
       /\ fate' = f
       /\ ret' = "MACH_RCV_TIMED_OUT"
       /\ UNCHANGED lastRcv

mach_msg_send(dest) ==
  /\ sent < MaxMsgs
  /\ IF CanSend(ports, dest)
     THEN /\ sent' = sent + 1
          /\ ports' = send_msg(ports, dest, sent + 1)
          /\ fate' = [fate EXCEPT ![sent + 1] = "queued"]
          /\ ret' = "MACH_MSG_SUCCESS"
     ELSE /\ ret' = "MACH_SEND_INVALID_DEST"
          /\ UNCHANGED <<ports, sent, fate>>
  /\ UNCHANGED <<next_name, lastRcv, invented>>

mach_msg_rcv(rcv_name) ==
  /\ ReceivePhase(ports, fate, rcv_name)
  /\ UNCHANGED <<next_name, sent, invented>>

(* Send and receive in one call: a failed send returns before receiving,   *)
(* and the receive is on the header's local port, not on rcv_name.         *)
mach_msg_send_rcv(dest, local_port) ==
  /\ sent < MaxMsgs
  /\ IF CanSend(ports, dest)
     THEN /\ sent' = sent + 1
          /\ ReceivePhase(send_msg(ports, dest, sent + 1),
                          [fate EXCEPT ![sent + 1] = "queued"], local_port)
     ELSE /\ ret' = "MACH_SEND_INVALID_DEST"
          /\ UNCHANGED <<ports, sent, fate, lastRcv>>
  /\ UNCHANGED <<next_name, invented>>

(* mach_port_type: the rights under a name, or KERN_INVALID_NAME for 0. *)
PortTypeBits(n) ==
  IF n \notin DOMAIN ports THEN {}
  ELSE {b \in {"RECEIVE", "SEND", "DEAD_NAME"} :
          \/ b = "RECEIVE" /\ ports[n].receive
          \/ b = "SEND" /\ ports[n].send > 0
          \/ b = "DEAD_NAME" /\ ports[n].dead}

port_type(n) ==
  /\ ret' = IF PortTypeBits(n) = {} THEN "KERN_INVALID_NAME" ELSE "KERN_SUCCESS"
  /\ UNCHANGED <<ports, next_name, sent, fate, lastRcv, invented>>

Next ==
  \/ \E right \in Right : allocate(right)
  \/ \E n \in GuestNames : \/ deallocate(n)
                     \/ port_type(n)
                     \/ mach_msg_send(n)
                     \/ mach_msg_rcv(n)
  \/ \E n \in GuestNames, poly \in PolyType : insert_new(n, poly) \/ insert_existing(n, poly)
  \/ \E n \in GuestNames, right \in Right, d \in Delta : mod_refs(n, right, d)
  \/ \E n, m \in GuestNames : mach_msg_send_rcv(n, m)

Spec == Init /\ [][Next]_vars

-----------------------------------------------------------------------------
(* Properties. *)

(* Types: names, counts, queues and return codes stay in their ranges. *)
TypeOK ==
  /\ DOMAIN ports \subseteq Name
  /\ ports \in [DOMAIN ports -> Port]
  /\ next_name \in Name
  /\ sent \in 0 .. MaxMsgs
  /\ fate \in [MsgId -> Fate]
  /\ lastRcv \in [Name -> 0 .. MaxMsgs]
  /\ ret \in Code
  /\ invented \subseteq Name

(* mach_port_type answers KERN_INVALID_NAME exactly for the names that are *)
(* not in the namespace: deallocate and mod_refs leave no entry behind     *)
(* whose last right is gone, and no operation makes one.                   *)
InvalidIffAbsent == \A n \in Name : PortTypeBits(n) = {} <=> n \notin DOMAIN ports

(* Messages leave a port in the order mach_msg accepted them, also across  *)
(* combined send+receive calls and when the name is dropped and made anew: *)
(* what waits under a name is sorted by age and younger than everything    *)
(* received from that name before.                                         *)
OrderedDelivery ==
  \A n \in DOMAIN ports :
    LET q == ports[n].queue
    IN  /\ \A i \in DOMAIN q : lastRcv[n] < q[i] /\ q[i] <= sent
        /\ \A i, j \in DOMAIN q : i < j => q[i] < q[j]

(* A dead name never holds a message: send_msg refuses it, and no later    *)
(* insert_right or mod_refs revives it or hands it a queue.                *)
DeadNamesHoldNothing ==
  \A n \in DOMAIN ports : ports[n].dead => ports[n].queue = <<>>

(* No message is lost silently or seen twice: one that mach_msg accepted   *)
(* waits in exactly one queue until it is received or its port is removed  *)
(* with its last right.  It needs a guest that inserts rights only under   *)
(* names it was given and a name counter that has not wrapped: otherwise   *)
(* allocate replaces a live port, queue and all.                           *)
Holders(id) == {n \in DOMAIN ports : id \in QueueIds(ports[n])}
NoSilentLoss ==
  invented = {} => \A id \in MsgId :
    /\ fate[id] = "unsent" <=> id > sent
    /\ fate[id] = "queued" <=> Holders(id) # {}
    /\ \A n, m \in Holders(id) : n = m

(* Under the same conditions allocate never hands out a name in use. *)
AllocateFresh ==
  [][invented = {} /\ next_name' # next_name /\ ret' = "KERN_SUCCESS"
       => next_name \notin DOMAIN ports]_vars
=============================================================================
