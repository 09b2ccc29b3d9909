------------------------ MODULE Notifications_proofs ------------------------
(***************************************************************************)
(* Proofs about Notifications, for any number of threads and calls: a post *)
(* delivers what lasts through it, in order, and there is one centre.      *)
(***************************************************************************)
EXTENDS Notifications, SequenceTheorems, TLAPS

(* A step that is none of the three ways out of defaultCenter leaves the   *)
(* centre and the answers alone.                                           *)
LEMMA OthersKeepCenter ==
  ASSUME NEW t \in Thread,
         \/ Acquire(t) \/ addObserver(t) \/ removeObserver(t) \/ Collect(t) \/ Dispatch(t)
         \/ MethodReturns(t) \/ PostReturns(t)
         \/ BeginAdd(t) \/ BeginRemove(t) \/ BeginPost(t) \/ BeginDefault(t)
         \/ \E n \in SelName : sel_registerName(t, n)
  PROVE  UNCHANGED <<center, got>>
BY DEF Acquire, addObserver, removeObserver, Update, Collect, Dispatch, MethodReturns, PostReturns,
       BeginAdd, BeginRemove, BeginPost, BeginDefault, sel_registerName

(* defaultCenter loads the pointer, allocates and swaps in three steps     *)
(* that any number of threads may interleave, with allocations that fail:  *)
(* a centre that was handed out once is the one everybody gets.            *)
THEOREM CenterIsUnique == Spec => []OneCenter
<1>1. Init => OneCenter BY DEF Init, OneCenter
<1>2. ASSUME OneCenter, [Next]_vars PROVE OneCenter'
  <2>1. CASE UNCHANGED vars BY <1>2, <2>1 DEF vars, OneCenter
  <2>2. ASSUME NEW t \in Thread, LoadCenter(t) PROVE OneCenter'
        BY <1>2, <2>2 DEF LoadCenter, Answer, OneCenter
  <2>3. ASSUME NEW t \in Thread, SwapCenter(t) PROVE OneCenter'
    <3>1. got' = got \cup {center'} BY <2>3 DEF SwapCenter, Answer
    <3>2. center' = center \/ center = Nil BY <2>3 DEF SwapCenter
    <3> QED BY <1>2, <3>1, <3>2 DEF OneCenter
  <2>4. ASSUME NEW t \in Thread, NoCenter(t) PROVE OneCenter'
        BY <1>2, <2>4 DEF NoCenter, Answer, OneCenter
  <2>5. ASSUME UNCHANGED <<center, got>> PROVE OneCenter' BY <1>2, <2>5 DEF OneCenter
  <2> QED BY <1>2, <2>1, <2>2, <2>3, <2>4, <2>5, OthersKeepCenter DEF Next, Step
<1> QED BY <1>1, <1>2, PTL DEF Spec

-----------------------------------------------------------------------------
(* What a post has done and has left to do, and the history it keeps. *)
Reg == [id : Nat, entry : Entry]
CallPC == {"lock", "locked", "dispatch", "method", "load", "swap"}
CallRec ==
  [op : {"add", "remove", "post", "center"}, arg : Entry \cup Posted \cup Removed \cup {Nil},
   pc : CallPC, matches : SUBSET Reg, ever : SUBSET Nat, always : SUBSET Nat, called : Seq(Nat)]

Wanted(c, o) ==
  /\ o.id \in c.always /\ Matches(c.arg, o.entry)
  /\ <<o.entry.observer, NameOf[o.entry.selector]>> \in Implements
Called(c) == {c.called[k] : k \in DOMAIN c.called}

(* The history: what was called or is left was registered while the post   *)
(* lasts; registrations to come are not among those of its beginning.      *)
History(c, obs, n) ==
  /\ Ids(obs) \subseteq c.ever /\ c.always \subseteq 0 .. n
  /\ Ids(c.matches) \subseteq c.ever /\ Called(c) \subseteq c.ever

(* The order: calls go up, and what is left comes after them. *)
InOrder(c) ==
  /\ \A j, k \in DOMAIN c.called : j < k => c.called[j] < c.called[k]
  /\ \A i \in Called(c) : \A o \in c.matches : i < o.id
  /\ \A o, q \in c.matches : o.id = q.id => o = q

(* The promise: what lasts is called, or left to call. *)
Promised(c, obs) ==
  /\ c.pc \in {"lock", "locked"} => c.matches = {} /\ c.called = <<>>
  /\ c.pc \in {"dispatch", "method"} =>
       \A o \in obs : Wanted(c, o) => o \in c.matches \/ o.id \in Called(c)

GoodCall(c, obs, n) ==
  /\ c.op = "add" => c.arg \in Entry
  /\ c.op = "post" => History(c, obs, n) /\ InOrder(c) /\ Promised(c, obs)

(* Registrations are told apart by their numbers, and a selector that was  *)
(* interned before the program started keeps its pointer.                  *)
List ==
  /\ observers \subseteq Reg /\ added \in Nat
  /\ \A o \in observers : o.id <= added
  /\ \A o, q \in observers : o.id = q.id => o = q
Interned == \A n \in DOMAIN Boot : n \in DOMAIN selectors /\ selectors[n] = Boot[n]

Window ==
  /\ List /\ Interned
  /\ calls \in [Thread -> Seq(CallRec)]
  /\ \A t \in Thread : \A i \in DOMAIN calls[t] : GoodCall(calls[t][i], observers, added)

(* The three changes of a thread's stack. *)
LEMMA Pushed ==
  ASSUME NEW s \in Seq(CallRec), NEW c \in CallRec
  PROVE  /\ <<c>> \o s \in Seq(CallRec)
         /\ \A i \in DOMAIN (<<c>> \o s) : (<<c>> \o s)[i] = c \/ \E j \in DOMAIN s : (<<c>> \o s)[i] = s[j]
<1>1. <<c>> \in Seq(CallRec) /\ Len(<<c>>) = 1 /\ <<c>>[1] = c OBVIOUS
<1>2. <<c>> \o s \in Seq(CallRec) /\ Len(<<c>> \o s) = 1 + Len(s) BY <1>1, ConcatProperties
<1>3. \A i \in 1 .. 1 + Len(s) : (<<c>> \o s)[i] = IF i <= 1 THEN <<c>>[i] ELSE s[i - 1] BY <1>1, ConcatProperties
<1>4. DOMAIN (<<c>> \o s) = 1 .. 1 + Len(s) /\ DOMAIN s = 1 .. Len(s) /\ Len(s) \in Nat BY <1>2, LenProperties
<1>5. ASSUME NEW i \in 1 .. 1 + Len(s), i > 1 PROVE i - 1 \in DOMAIN s /\ (<<c>> \o s)[i] = s[i - 1]
      BY <1>3, <1>4, <1>5
<1>6. ASSUME NEW i \in 1 .. 1 + Len(s), ~(i > 1) PROVE (<<c>> \o s)[i] = c
  <2>1. i = 1 BY <1>4, <1>6
  <2> QED BY <1>1, <1>3, <1>4, <2>1
<1> QED BY <1>2, <1>4, <1>5, <1>6

LEMMA Popped ==
  ASSUME NEW s \in Seq(CallRec), s # <<>>
  PROVE  /\ Tail(s) \in Seq(CallRec) /\ \A i \in DOMAIN Tail(s) : \E j \in DOMAIN s : Tail(s)[i] = s[j]
         /\ 1 \in DOMAIN s /\ s[1] \in CallRec
<1>1. Tail(s) \in Seq(CallRec) /\ DOMAIN Tail(s) = 1 .. Len(s) - 1 /\ DOMAIN s = 1 .. Len(s)
      /\ Len(s) \in Nat /\ Len(s) > 0
      BY HeadTailProperties, LenProperties, EmptySeq
<1>2. \A i \in 1 .. Len(s) - 1 : Tail(s)[i] = s[i + 1] BY HeadTailProperties
<1>3. \A i \in 1 .. Len(s) - 1 : i + 1 \in DOMAIN s BY <1>1
<1>4. 1 \in DOMAIN s /\ s[1] \in CallRec BY <1>1
<1> QED BY <1>1, <1>2, <1>3, <1>4

(* A step of one thread that leaves the list alone and puts only good      *)
(* calls on its stack.                                                     *)
LEMMA StackKeeps ==
  ASSUME Window, UNCHANGED <<observers, added>>, Interned', NEW t \in Thread, NEW s \in Seq(CallRec),
         calls' = [calls EXCEPT ![t] = s],
         \A i \in DOMAIN s : GoodCall(s[i], observers, added)
  PROVE  Window'
<1>1. calls' \in [Thread -> Seq(CallRec)] /\ calls'[t] = s /\ \A u \in Thread \ {t} : calls'[u] = calls[u]
      BY DEF Window
<1>2. List' BY DEF Window, List
<1>3. \A u \in Thread : \A i \in DOMAIN calls'[u] : GoodCall(calls'[u][i], observers', added')
  <2> SUFFICES ASSUME NEW u \in Thread, NEW i \in DOMAIN calls'[u]
               PROVE  GoodCall(calls'[u][i], observers, added)
      OBVIOUS
  <2>1. CASE u = t BY <1>1, <2>1
  <2>2. CASE u # t BY <1>1, <2>2 DEF Window
  <2> QED BY <2>1, <2>2
<1> QED BY <1>1, <1>2, <1>3 DEF Window

LEMMA PushKeeps ==
  ASSUME Window, UNCHANGED <<observers, added, selectors>>, NEW t \in Thread, NEW c \in CallRec,
         Push(t, c), GoodCall(c, observers, added)
  PROVE  Window'
<1>1. calls[t] \in Seq(CallRec) BY DEF Window
<1>2. PICK s : s = <<c>> \o calls[t] OBVIOUS
<1>3. s \in Seq(CallRec) /\ \A i \in DOMAIN s : s[i] = c \/ \E j \in DOMAIN calls[t] : s[i] = calls[t][j]
      BY <1>1, <1>2, Pushed
<1>4. \A i \in DOMAIN s : GoodCall(s[i], observers, added) BY <1>3 DEF Window
<1>5. calls' = [calls EXCEPT ![t] = s] BY <1>2 DEF Push, Window
<1>6. Interned' BY DEF Window, Interned
<1> QED BY <1>3, <1>4, <1>5, <1>6, StackKeeps

LEMMA PopKeeps ==
  ASSUME Window, UNCHANGED <<observers, added, selectors>>, NEW t \in Thread, calls[t] # <<>>, Pop(t)
  PROVE  Window'
<1>1. calls[t] \in Seq(CallRec) BY DEF Window
<1>2. PICK s : s = Tail(calls[t]) OBVIOUS
<1>3. s \in Seq(CallRec) /\ \A i \in DOMAIN s : \E j \in DOMAIN calls[t] : s[i] = calls[t][j]
      BY <1>1, <1>2, Popped
<1>4. \A i \in DOMAIN s : GoodCall(s[i], observers, added) BY <1>3 DEF Window
<1>5. calls' = [calls EXCEPT ![t] = s] BY <1>2 DEF Pop, Window
<1>6. Interned' BY DEF Window, Interned
<1> QED BY <1>3, <1>4, <1>5, <1>6, StackKeeps

LEMMA SetTopKeeps ==
  ASSUME Window, UNCHANGED <<observers, added, selectors>>, NEW t \in Thread, calls[t] # <<>>,
         NEW c \in CallRec, SetTop(t, c), GoodCall(c, observers, added)
  PROVE  Window'
<1>1. calls[t] \in Seq(CallRec) BY DEF Window
<1>2. PICK s, r : s = <<c>> \o r /\ r = Tail(calls[t]) OBVIOUS
<1>3. r \in Seq(CallRec) /\ \A i \in DOMAIN r : \E j \in DOMAIN calls[t] : r[i] = calls[t][j]
      BY <1>1, <1>2, Popped
<1>4. s \in Seq(CallRec) /\ \A i \in DOMAIN s : s[i] = c \/ \E j \in DOMAIN r : s[i] = r[j]
      BY <1>2, <1>3, Pushed
<1>5. \A i \in DOMAIN s : GoodCall(s[i], observers, added)
  <2>1. \A i \in DOMAIN r : GoodCall(r[i], observers, added) BY <1>3 DEF Window
  <2> QED BY <1>4, <2>1
<1>6. calls' = [calls EXCEPT ![t] = s] BY <1>2 DEF SetTop, Window
<1>7. Interned' BY DEF Window, Interned
<1> QED BY <1>4, <1>5, <1>6, <1>7, StackKeeps

LEMMA TopIsGood ==
  ASSUME Window, NEW t \in Thread, calls[t] # <<>>
  PROVE  Top(t) \in CallRec /\ GoodCall(Top(t), observers, added)
<1>1. calls[t] \in Seq(CallRec) BY DEF Window
<1>2. 1 \in DOMAIN calls[t] /\ calls[t][1] \in CallRec BY <1>1, Popped
<1> QED BY <1>2 DEF Window, Top

(* A call takes note of a list that lost registrations, or got later ones. *)
LEMMA NotingKeeps ==
  ASSUME NEW c \in CallRec, NEW obs, NEW n \in Nat, NEW now, NEW m \in Nat, n <= m,
         GoodCall(c, obs, n), now \subseteq Reg, \A o \in now : o \in obs \/ o.id > n
  PROVE  Noted(c, now) \in CallRec /\ GoodCall(Noted(c, now), now, m)
<1>i. Ids(now) \subseteq Nat BY DEF Ids, Reg
<1>1. CASE c.op # "post" BY <1>1 DEF Noted, GoodCall
<1>2. CASE c.op = "post"
  <2>0. PICK d : d = [c EXCEPT !.ever = @ \cup Ids(now), !.always = @ \cap Ids(now)] OBVIOUS
  <2>1. /\ d.op = c.op /\ d.arg = c.arg /\ d.pc = c.pc /\ d.matches = c.matches /\ d.called = c.called
        /\ d.ever = c.ever \cup Ids(now) /\ d.always = c.always \cap Ids(now) /\ d \in CallRec
        BY <1>i, <2>0 DEF CallRec
  <2>2. Noted(c, now) = d BY <1>2, <2>0 DEF Noted
  <2>3. History(c, obs, n) /\ InOrder(c) /\ Promised(c, obs) BY <1>2 DEF GoodCall
  <2>4. Called(d) = Called(c) BY <2>1 DEF Called
  <2>5. History(d, now, m)
    <3>1. 0 .. n \subseteq 0 .. m OBVIOUS
    <3> QED BY <2>1, <2>3, <2>4, <3>1 DEF History
  <2>6. InOrder(d) BY <2>1, <2>3, <2>4 DEF InOrder
  <2>7. ASSUME NEW o \in now, Wanted(d, o) PROVE o \in obs /\ Wanted(c, o)
    <3>1. o.id \in c.always BY <2>1, <2>7 DEF Wanted
    <3>2. o.id \in 0 .. n BY <2>3, <3>1 DEF History
    <3>3. o \in obs BY <3>2
    <3> QED BY <2>1, <2>7, <3>1, <3>3 DEF Wanted
  <2>8. Promised(d, now) BY <2>1, <2>3, <2>4, <2>7 DEF Promised
  <2> QED BY <1>2, <2>1, <2>2, <2>5, <2>6, <2>8 DEF GoodCall
<1> QED BY <1>1, <1>2

(* addObserver and removeObserver: the list changes, and every post in     *)
(* progress takes note.                                                    *)
LEMMA UpdateKeeps ==
  ASSUME Window, NEW t \in Thread, calls[t] # <<>>, NEW now, Update(t, now), added' \in Nat, added <= added',
         now \subseteq Reg, \A o \in now : o.id <= added',
         \A o, q \in now : o.id = q.id => o = q,
         \A o \in now : o \in observers \/ o.id > added
  PROVE  Window'
<1>0. observers' = now /\ selectors' = selectors BY DEF Update
<1>1. added \in Nat /\ calls \in [Thread -> Seq(CallRec)] BY DEF Window, List
<1>2. List' BY <1>0 DEF List
<1>3. Interned' BY <1>0 DEF Window, Interned
<1>4. ASSUME NEW u \in Thread
      PROVE  /\ calls'[u] \in Seq(CallRec)
             /\ \A i \in DOMAIN calls'[u] : GoodCall(calls'[u][i], now, added')
  <2>1. PICK s : s = [i \in DOMAIN calls[u] |-> Noted(calls[u][i], now)] OBVIOUS
  <2>2. calls'[u] = IF u = t THEN Tail(s) ELSE s BY <1>4, <2>1 DEF Update
  <2>3. calls[u] \in Seq(CallRec) /\ Len(calls[u]) \in Nat /\ DOMAIN calls[u] = 1 .. Len(calls[u])
        BY <1>1, LenProperties
  <2>4. \A i \in DOMAIN calls[u] : calls[u][i] \in CallRec /\ GoodCall(calls[u][i], observers, added)
        BY <2>3, ElementOfSeq DEF Window
  <2>5. \A i \in DOMAIN s : s[i] \in CallRec /\ GoodCall(s[i], now, added')
        BY <1>1, <2>1, <2>4, NotingKeeps
  <2>6. s \in Seq(CallRec) /\ Len(s) = Len(calls[u])
    <3>1. s \in [1 .. Len(calls[u]) -> CallRec] BY <2>1, <2>3, <2>5
    <3> QED BY <2>3, <3>1
  <2>7. CASE u # t BY <2>2, <2>5, <2>6, <2>7
  <2>8. CASE u = t
    <3>1. s # <<>> BY <2>3, <2>6, <2>8, EmptySeq
    <3>2. Tail(s) \in Seq(CallRec) /\ \A i \in DOMAIN Tail(s) : \E j \in DOMAIN s : Tail(s)[i] = s[j]
          BY <2>6, <3>1, Popped
    <3> QED BY <2>2, <2>5, <2>8, <3>2
  <2> QED BY <2>7, <2>8
<1>5. calls' \in [Thread -> Seq(CallRec)]
  <2>1. calls' = [u \in Thread |-> calls'[u]] BY DEF Update
  <2> QED BY <1>4, <2>1
<1>6. \A u \in Thread : \A i \in DOMAIN calls'[u] : GoodCall(calls'[u][i], observers', added')
      BY <1>0, <1>4
<1> QED BY <1>2, <1>3, <1>5, <1>6 DEF Window

LEMMA ListChanges ==
  ASSUME Window, NEW t \in Thread, addObserver(t) \/ removeObserver(t)
  PROVE  Window'
<1>0. observers \subseteq Reg /\ added \in Nat /\ (\A o \in observers : o.id <= added)
      /\ (\A o, q \in observers : o.id = q.id => o = q)
      BY DEF Window, List
<1>1. CASE addObserver(t)
  <2>1. calls[t] # <<>> /\ Top(t).op = "add" BY <1>1 DEF addObserver, At
  <2>2. Top(t).arg \in Entry BY <2>1, TopIsGood DEF GoodCall
  <2>3. PICK r : r = [id |-> added + 1, entry |-> Top(t).arg] OBVIOUS
  <2>4. r \in Reg /\ r.id = added + 1 BY <1>0, <2>2, <2>3 DEF Reg
  <2>5. added' = added + 1 /\ Update(t, observers \cup {r}) BY <1>1, <2>3 DEF addObserver
  <2>6. added' \in Nat /\ added <= added' BY <1>0, <2>5
  <2>7. \A o \in observers : o.id \in Nat BY <1>0 DEF Reg
  <2>8. \A o \in observers \cup {r} : o.id <= added' BY <1>0, <2>4, <2>5, <2>7
  <2>9. \A o, q \in observers \cup {r} : o.id = q.id => o = q BY <1>0, <2>4, <2>7
  <2>10. \A o \in observers \cup {r} : o \in observers \/ o.id > added BY <1>0, <2>4
  <2>11. observers \cup {r} \subseteq Reg BY <1>0, <2>4
  <2> QED BY <2>1, <2>5, <2>6, <2>8, <2>9, <2>10, <2>11, UpdateKeeps
<1>2. CASE removeObserver(t)
  <2>1. PICK now : now = {o \in observers : ~Drops(Top(t).arg, o.entry)} OBVIOUS
  <2>2. now \subseteq observers /\ Update(t, now) /\ added' = added /\ calls[t] # <<>>
        BY <1>2, <2>1 DEF removeObserver, At
  <2>3. added' \in Nat /\ added <= added' BY <1>0, <2>2
  <2>4. /\ now \subseteq Reg /\ (\A o \in now : o.id <= added')
        /\ (\A o, q \in now : o.id = q.id => o = q) /\ (\A o \in now : o \in observers \/ o.id > added)
        BY <1>0, <2>2
  <2> QED BY <2>2, <2>3, <2>4, UpdateKeeps
<1> QED BY <1>1, <1>2

(* A post begins, with what is registered as its history; the other calls  *)
(* have none.                                                              *)
LEMMA BeginKeeps ==
  ASSUME Window, NEW t \in Thread, BeginAdd(t) \/ BeginRemove(t) \/ BeginPost(t) \/ BeginDefault(t)
  PROVE  Window'
<1>u. UNCHANGED <<observers, added, selectors>> BY DEF BeginAdd, BeginRemove, BeginPost, BeginDefault
<1>1. ASSUME NEW op \in {"add", "remove", "center"}, NEW a \in Entry \cup Posted \cup Removed \cup {Nil},
             NEW l \in {"lock", "load"}, op = "add" => a \in Entry, Push(t, Call(op, a, l))
      PROVE  Window'
  <2>1. PICK c : c = Call(op, a, l) OBVIOUS
  <2>2. c \in CallRec /\ c.op = op /\ c.arg = a BY <2>1 DEF Call, CallRec, CallPC
  <2>3. GoodCall(c, observers, added) BY <1>1, <2>2 DEF GoodCall
  <2> QED BY <1>u, <1>1, <2>1, <2>2, <2>3, PushKeeps
<1>2. CASE BeginAdd(t) BY <1>1, <1>2 DEF BeginAdd, Begin
<1>3. CASE BeginRemove(t) BY <1>1, <1>3 DEF BeginRemove, Begin
<1>4. CASE BeginDefault(t) BY <1>1, <1>4 DEF BeginDefault, Begin
<1>5. CASE BeginPost(t)
  <2>0. PICK p \in Posted :
          Push(t, [Call("post", p, "lock") EXCEPT !.ever = Ids(observers), !.always = Ids(observers)])
        BY <1>5 DEF BeginPost, Begin
  <2>1. PICK c : c = [Call("post", p, "lock") EXCEPT !.ever = Ids(observers), !.always = Ids(observers)]
        OBVIOUS
  <2>2. Ids(observers) \subseteq Nat /\ Ids(observers) \subseteq 0 .. added
    <3>1. \A o \in observers : o.id \in Nat /\ o.id <= added BY DEF Window, List, Reg
    <3> QED BY <3>1 DEF Ids, Window, List
  <2>3. /\ c \in CallRec /\ c.op = "post" /\ c.arg = p /\ c.pc = "lock" /\ c.matches = {} /\ c.called = <<>>
        /\ c.ever = Ids(observers) /\ c.always = Ids(observers)
    <3>1. PICK b : b = Ids(observers) OBVIOUS
    <3>2. c = [op |-> "post", arg |-> p, pc |-> "lock", matches |-> {}, ever |-> b, always |-> b,
               called |-> <<>>]
          BY <2>1, <3>1 DEF Call
    <3>3. "post" \in {"add", "remove", "post", "center"} /\ "lock" \in CallPC /\ b \in SUBSET Nat
          /\ {} \in SUBSET Reg /\ <<>> \in Seq(Nat)
          BY <2>2, <3>1 DEF CallPC
    <3> QED BY <3>1, <3>2, <3>3 DEF CallRec
  <2>4. Called(c) = {} BY <2>3 DEF Called
  <2>5. History(c, observers, added) BY <2>2, <2>3, <2>4 DEF History, Ids
  <2>6. InOrder(c) /\ Promised(c, observers) BY <2>3, <2>4 DEF InOrder, Promised
  <2>7. GoodCall(c, observers, added) BY <2>3, <2>5, <2>6 DEF GoodCall
  <2> QED BY <1>u, <2>0, <2>1, <2>3, <2>7, PushKeeps
<1> QED BY <1>2, <1>3, <1>4, <1>5

(* The steps that only move a call on. *)
LEMMA MovesKeep ==
  ASSUME Window, NEW t \in Thread, Acquire(t) \/ MethodReturns(t) \/ LoadCenter(t)
  PROVE  Window'
<1>0. calls[t] # <<>> /\ UNCHANGED <<observers, added, selectors>>
      BY DEF Acquire, MethodReturns, LoadCenter, At
<1>1. Top(t) \in CallRec /\ GoodCall(Top(t), observers, added) BY <1>0, TopIsGood
<1>2. ASSUME NEW l \in CallPC, SetTop(t, [Top(t) EXCEPT !.pc = l]),
             Top(t).op = "post" => \/ {Top(t).pc, l} \subseteq {"lock", "locked"}
                                   \/ {Top(t).pc, l} \subseteq {"dispatch", "method"}
      PROVE  Window'
  <2>1. PICK b, c : b = Top(t) /\ c = [b EXCEPT !.pc = l] OBVIOUS
  <2>2. /\ c \in CallRec /\ c.op = b.op /\ c.arg = b.arg /\ c.pc = l /\ c.matches = b.matches
        /\ c.called = b.called /\ c.ever = b.ever /\ c.always = b.always
        BY <1>1, <2>1 DEF CallRec
  <2>3. GoodCall(b, observers, added) BY <1>1, <2>1
  <2>4. Called(c) = Called(b) /\ \A o : Wanted(c, o) <=> Wanted(b, o) BY <2>2 DEF Called, Wanted
  <2>5. CASE b.op # "post" 
    <3>1. GoodCall(c, observers, added) BY <2>2, <2>3, <2>5 DEF GoodCall
    <3> QED BY <1>0, <1>2, <2>1, <2>2, <3>1, SetTopKeeps
  <2>6. CASE b.op = "post"
    <3>1. History(b, observers, added) /\ InOrder(b) /\ Promised(b, observers) BY <2>3, <2>6 DEF GoodCall
    <3>2. History(c, observers, added) /\ InOrder(c) BY <2>2, <2>4, <3>1 DEF History, InOrder
    <3>3. Promised(c, observers) BY <1>2, <2>1, <2>2, <2>4, <2>6, <3>1 DEF Promised
    <3>4. GoodCall(c, observers, added) BY <2>2, <2>6, <3>2, <3>3 DEF GoodCall
    <3> QED BY <1>0, <1>2, <2>1, <2>2, <3>4, SetTopKeeps
  <2> QED BY <2>5, <2>6
<1>3. {"locked", "dispatch", "swap"} \subseteq CallPC BY DEF CallPC
<1>4. CASE Acquire(t) BY <1>2, <1>3, <1>4 DEF Acquire
<1>5. CASE MethodReturns(t) BY <1>2, <1>3, <1>5 DEF MethodReturns, At
<1>6. CASE LoadCenter(t)
  <2>1. CASE center # Nil BY <1>0, <1>6, <2>1, PopKeeps DEF LoadCenter, Answer
  <2>2. CASE center = Nil BY <1>2, <1>3, <1>6, <2>2 DEF LoadCenter, At
  <2> QED BY <2>1, <2>2
<1> QED BY <1>4, <1>5, <1>6

(* The steps that end a call. *)
LEMMA EndsKeep ==
  ASSUME Window, NEW t \in Thread, PostReturns(t) \/ SwapCenter(t) \/ NoCenter(t)
  PROVE  Window'
BY PopKeeps DEF PostReturns, SwapCenter, NoCenter, At, Answer

(* The matches are taken from the list under the lock. *)
LEMMA CollectKeeps ==
  ASSUME Window, NEW t \in Thread, Collect(t)
  PROVE  Window'
<1>0. calls[t] # <<>> /\ Top(t).op = "post" /\ Top(t).pc = "locked" /\ UNCHANGED <<observers, added, selectors>>
      BY DEF Collect, At
<1>1. PICK b : b = Top(t) OBVIOUS
<1>2. b \in CallRec /\ GoodCall(b, observers, added) BY <1>0, <1>1, TopIsGood
<1>3. PICK found : found = {o \in observers : Matches(b.arg, o.entry)} OBVIOUS
<1>4. PICK c : c = [b EXCEPT !.pc = "dispatch", !.matches = found] OBVIOUS
<1>5. SetTop(t, c) BY <1>1, <1>3, <1>4 DEF Collect
<1>6. found \subseteq observers /\ observers \subseteq Reg /\ (\A o, q \in observers : o.id = q.id => o = q)
      BY <1>3 DEF Window, List
<1>7. /\ c \in CallRec /\ c.op = "post" /\ c.arg = b.arg /\ c.pc = "dispatch" /\ c.matches = found
      /\ c.called = b.called /\ c.ever = b.ever /\ c.always = b.always
      BY <1>0, <1>1, <1>2, <1>4, <1>6 DEF CallRec, CallPC
<1>8. /\ History(b, observers, added) /\ b.called = <<>>
      BY <1>0, <1>1, <1>2 DEF GoodCall, Promised
<1>9. Called(c) = {} /\ Called(b) = {} BY <1>7, <1>8 DEF Called
<1>10. History(c, observers, added) BY <1>6, <1>7, <1>8, <1>9 DEF History, Ids
<1>11. InOrder(c) BY <1>6, <1>7, <1>8, <1>9 DEF InOrder
<1>12. Promised(c, observers) BY <1>3, <1>7 DEF Promised, Wanted
<1>13. GoodCall(c, observers, added) BY <1>7, <1>10, <1>11, <1>12 DEF GoodCall
<1> QED BY <1>0, <1>5, <1>7, <1>13, SetTopKeeps

(* The look-up finds the method of whatever implements the name, by its    *)
(* own pointer or by the interned one.                                     *)
LEMMA LookupFinds ==
  ASSUME Interned, NEW e \in Entry, <<e.observer, NameOf[e.selector]>> \in Implements
  PROVE  Finds(e)
<1>1. PICK n : n = NameOf[e.selector] OBVIOUS
<1>2. n \in DOMAIN Boot BY <1>1, NotificationsAssumption
<1>3. n \in DOMAIN selectors /\ selectors[n] = Boot[n] BY <1>2 DEF Interned
<1>4. <<e.observer, n>> \in Implements BY <1>1
<1>5. <<e.observer, Boot[n]>> \in Methods
  <2>1. PICK j : j = <<e.observer, n>> OBVIOUS
  <2>2. j \in Implements /\ j[1] = e.observer /\ j[2] = n BY <1>4, <2>1
  <2> QED BY <1>2, <2>2 DEF Methods
<1> QED BY <1>1, <1>3, <1>5 DEF Finds

(* The first of the matches is called, or has no method. *)
LEMMA DispatchKeeps ==
  ASSUME Window, NEW t \in Thread, Dispatch(t)
  PROVE  Window'
<1>0. calls[t] # <<>> /\ Top(t).op = "post" /\ Top(t).pc = "dispatch" /\ UNCHANGED <<observers, added, selectors>>
      BY DEF Dispatch, At
<1>1. PICK b : b = Top(t) OBVIOUS
<1>2. b \in CallRec /\ GoodCall(b, observers, added) BY <1>0, <1>1, TopIsGood
<1>3. PICK o \in b.matches :
        /\ \A q \in b.matches : o.id <= q.id
        /\ LET c == [b EXCEPT !.matches = @ \ {o}]
           IN  SetTop(t, IF Finds(o.entry) THEN [c EXCEPT !.pc = "method", !.called = Append(@, o.id)] ELSE c)
      BY <1>1 DEF Dispatch
<1>4. b.matches \in SUBSET Reg /\ b.called \in Seq(Nat) BY <1>2 DEF CallRec
<1>5. o.id \in Nat /\ o.entry \in Entry BY <1>4 DEF Reg
<1>6. /\ History(b, observers, added) /\ InOrder(b)
      /\ \A q \in observers : Wanted(b, q) => q \in b.matches \/ q.id \in Called(b)
      BY <1>0, <1>1, <1>2 DEF GoodCall, Promised
<1>7. \A q \in b.matches \ {o} : o.id < q.id
  <2> SUFFICES ASSUME NEW q \in b.matches \ {o} PROVE o.id < q.id OBVIOUS
  <2>1. q.id \in Nat /\ o.id <= q.id /\ o.id # q.id BY <1>3, <1>4, <1>6 DEF Reg, InOrder
  <2> QED BY <1>5, <2>1
<1>8. CASE ~Finds(o.entry)
  <2>1. PICK c : c = [b EXCEPT !.matches = @ \ {o}] OBVIOUS
  <2>2. SetTop(t, c) BY <1>3, <1>8, <2>1
  <2>3. /\ c \in CallRec /\ c.op = "post" /\ c.arg = b.arg /\ c.pc = "dispatch" /\ c.matches = b.matches \ {o}
        /\ c.called = b.called /\ c.ever = b.ever /\ c.always = b.always
        BY <1>0, <1>1, <1>2, <2>1 DEF CallRec
  <2>4. Called(c) = Called(b) /\ \A q : Wanted(c, q) <=> Wanted(b, q) BY <2>3 DEF Called, Wanted
  <2>5. History(c, observers, added) BY <1>6, <2>3, <2>4 DEF History, Ids
  <2>6. InOrder(c) BY <1>6, <2>3, <2>4 DEF InOrder
  <2>7. ~Wanted(b, o) BY <1>5, <1>8, LookupFinds DEF Wanted, Window
  <2>8. Promised(c, observers) BY <1>6, <2>3, <2>4, <2>7 DEF Promised
  <2>9. GoodCall(c, observers, added) BY <2>3, <2>5, <2>6, <2>8 DEF GoodCall
  <2> QED BY <1>0, <2>2, <2>3, <2>9, SetTopKeeps
<1>9. CASE Finds(o.entry)
  <2>1. PICK c : c = [b EXCEPT !.matches = @ \ {o}, !.pc = "method", !.called = Append(@, o.id)] OBVIOUS
  <2>2. SetTop(t, c)
    <3>1. c = [[b EXCEPT !.matches = @ \ {o}] EXCEPT !.pc = "method", !.called = Append(@, o.id)]
          BY <1>2, <2>1 DEF CallRec
    <3> QED BY <1>3, <1>9, <3>1
  <2>3. Append(b.called, o.id) \in Seq(Nat) BY <1>4, <1>5
  <2>4. /\ c \in CallRec /\ c.op = "post" /\ c.arg = b.arg /\ c.pc = "method" /\ c.matches = b.matches \ {o}
        /\ c.called = Append(b.called, o.id) /\ c.ever = b.ever /\ c.always = b.always
        BY <1>0, <1>1, <1>2, <2>1, <2>3 DEF CallRec, CallPC
  <2>5. PICK n \in Nat : n = Len(b.called) BY <1>4
  <2>6. /\ DOMAIN b.called = 1 .. n /\ DOMAIN c.called = 1 .. n + 1 /\ c.called[n + 1] = o.id
        /\ \A k \in 1 .. n : c.called[k] = b.called[k]
        BY <1>4, <2>4, <2>5
  <2>7. Called(c) = Called(b) \cup {o.id}
    <3>1. 1 .. n + 1 = (1 .. n) \cup {n + 1} OBVIOUS
    <3> QED BY <2>6, <3>1 DEF Called
  <2>8. \A q : Wanted(c, q) <=> Wanted(b, q) BY <2>4 DEF Wanted
  <2>9. History(c, observers, added)
    <3>1. o.id \in b.ever BY <1>6 DEF History, Ids
    <3> QED BY <1>6, <2>4, <2>7, <3>1 DEF History, Ids
  <2>10. InOrder(c)
    <3>1. ASSUME NEW j \in DOMAIN c.called, NEW k \in DOMAIN c.called, j < k
          PROVE  c.called[j] < c.called[k]
      <4>1. CASE k = n + 1
        <5>1. j \in 1 .. n BY <2>6, <3>1, <4>1
        <5>2. c.called[j] \in Called(b) BY <2>6, <5>1 DEF Called
        <5> QED BY <1>6, <2>6, <4>1, <5>2 DEF InOrder
      <4>2. CASE k # n + 1
        <5>1. j \in 1 .. n /\ k \in 1 .. n BY <2>6, <3>1, <4>2
        <5> QED BY <1>6, <2>6, <3>1, <5>1 DEF InOrder
      <4> QED BY <4>1, <4>2
    <3>2. \A i \in Called(c) : \A q \in c.matches : i < q.id BY <1>6, <1>7, <2>4, <2>7 DEF InOrder
    <3>3. \A p, q \in c.matches : p.id = q.id => p = q BY <1>6, <2>4 DEF InOrder
    <3> QED BY <3>1, <3>2, <3>3 DEF InOrder
  <2>11. Promised(c, observers) BY <1>6, <2>4, <2>7, <2>8 DEF Promised
  <2>12. GoodCall(c, observers, added) BY <2>4, <2>9, <2>10, <2>11 DEF GoodCall
  <2> QED BY <1>0, <2>2, <2>4, <2>12, SetTopKeeps
<1> QED BY <1>8, <1>9

LEMMA WindowInit == Init => Window
BY DEF Init, Window, List, Interned

LEMMA WindowNext == ASSUME Window, [Next]_vars PROVE Window'
<1>1. ASSUME NEW t \in Thread, NEW n \in SelName, sel_registerName(t, n) PROVE Window'
  <2>1. Interned' BY <1>1 DEF sel_registerName, Window, Interned
  <2>2. UNCHANGED <<observers, added, calls>> BY <1>1 DEF sel_registerName
  <2> QED BY <2>1, <2>2 DEF Window, List
<1>2. CASE UNCHANGED vars BY <1>2 DEF vars, Window, List, Interned
<1> QED BY <1>1, <1>2, ListChanges, BeginKeeps, MovesKeep, EndsKeep, CollectKeeps, DispatchKeeps DEF Next, Step

(* While a post lasts, any thread may register and remove observers, and   *)
(* observers may post again: it calls in the order of registration,        *)
(* nothing twice, nothing that was never there, and by its end everything  *)
(* that was there throughout.                                              *)
THEOREM PostsDeliver == Spec => []DeliveryWindow
<1>1. ASSUME Window, NEW t \in Thread, NEW i \in PostsOf(t), NEW c, c = calls[t][i]
      PROVE  /\ \A j, k \in DOMAIN c.called : j < k => c.called[j] < c.called[k]
             /\ Called(c) \subseteq c.ever
             /\ Finished(c) => \A o \in observers : Wanted(c, o) => o.id \in Called(c)
  <2>1. c.op = "post" /\ GoodCall(c, observers, added) BY <1>1 DEF PostsOf, Window
  <2>2. History(c, observers, added) /\ InOrder(c) /\ Promised(c, observers) BY <2>1 DEF GoodCall
  <2> QED BY <2>2 DEF History, InOrder, Promised, Finished
<1>2. Window => DeliveryWindow
  <2> SUFFICES ASSUME Window, NEW t \in Thread, NEW i \in PostsOf(t)
               PROVE  /\ \A j, k \in DOMAIN calls[t][i].called :
                           j < k => calls[t][i].called[j] < calls[t][i].called[k]
                      /\ Called(calls[t][i]) \subseteq calls[t][i].ever
                      /\ Finished(calls[t][i]) =>
                           \A o \in observers : Wanted(calls[t][i], o) => o.id \in Called(calls[t][i])
      BY Zenon DEF DeliveryWindow, Called, Wanted
  <2> QED BY <1>1
<1> QED BY <1>2, WindowInit, WindowNext, PTL DEF Spec
=============================================================================
