------------------------- MODULE DbmsClient_proofs -------------------------
(* That a client of dbmsd gets the answer to its own request, and that no    *)
(* request is executed more often than its exchanges were cut off: for any   *)
(* number of clients, keys, rounds, calls and faults.                        *)
EXTENDS DbmsClient, SequenceTheorems, WellFoundedInduction, TLAPS

-----------------------------------------------------------------------------
(* What dbmsd executes leaves a database and gives an answer.                *)
(* An error says nothing else. *)
GoodAnswers == {r \in Replies : r.status = "error" => r = Failed}
Executed(fds) == [db : Databases(fds), reply : GoodAnswers]

LEMMA LeastIsOneOf ==
  ASSUME NEW S \in SUBSET Keys, S # {}
  PROVE  Least(S) \in S /\ \A j \in S : Least(S) <= j
<1>1. IsWellFoundedOn(OpToRel(<, Nat), Nat)
  BY NatLessThanWellFounded
<1>2. PICK k \in S : \A j \in S : ~(<<j, k>> \in OpToRel(<, Nat))
  BY <1>1, WFMin, TableConstants
<1>3. \A j \in S : j \in Nat /\ k \in Nat /\ ~(j < k)
  <2>1. \A j \in S : j \in Nat /\ k \in Nat
    BY TableConstants
  <2>2. \A j \in Nat : j < k /\ k \in Nat => <<j, k>> \in OpToRel(<, Nat)
    BY DEF OpToRel
  <2>. QED  BY <1>2, <2>1, <2>2
<1>4. \A j \in S : k <= j
  BY <1>3
<1>. QED  BY <1>4 DEF Least

LEMMA AnswersAreGood ==
  /\ NotFound \in GoodAnswers /\ Failed \in GoodAnswers /\ Found(None, None) \in GoodAnswers
  /\ \A v \in Values : Found(None, v) \in GoodAnswers
  /\ \A k \in Keys, v \in Values : Found(k, v) \in GoodAnswers
BY DEF GoodAnswers, Replies, Statuses, NotFound, Failed, Found

LEMMA PutIsDatabase ==
  ASSUME NEW fds, NEW d \in Databases(fds), NEW k \in Keys, NEW v \in Values \cup {None}
  PROVE  Put(d, k, v) \in Databases(fds)
BY DEF Put, Databases

LEMMA CountExecuted ==
  ASSUME NEW fds, NEW d \in Databases(fds), NEW k \in Keys, NEW v,
         d.rows[k] # None => v \in Values
  PROVE  Count(d, k, v) \in Executed(fds)
BY AnswersAreGood, PutIsDatabase DEF Count, Result, Executed, Databases

LEMMA SeekIsDatabase ==
  ASSUME NEW fds, NEW d \in Databases(fds), NEW S \in SUBSET Keys
  PROVE  Seek(d, S) \in Databases(fds) /\ Seek(d, S).rows = d.rows
<1>1. CASE S = {}
  BY <1>1 DEF Seek
<1>2. CASE S # {}
  <2>1. Least(S) \in Keys
    BY <1>2, LeastIsOneOf
  <2>. QED  BY <1>2, <2>1 DEF Seek, Databases
<1>. QED  BY <1>1, <1>2

LEMMA UsedIsDatabase ==
  ASSUME NEW fds, NEW d \in Databases(fds), NEW fd \in fds
  PROVE  Used(d, fd) \in Databases(fds) /\ Used(d, fd).rows = d.rows
BY DEF Used, Databases

LEMMA PositionedExecuted ==
  ASSUME NEW fds, NEW d \in Databases(fds), NEW S \in SUBSET Present(d), NEW fd \in fds
  PROVE  Positioned(d, S, fd) \in Executed(fds)
<1>1. S \subseteq Keys
  BY DEF Present
<1>2. Used(Seek(d, S), fd) \in Databases(fds)
  BY <1>1, SeekIsDatabase, UsedIsDatabase
<1>3. S # {} => Found(Least(S), d.rows[Least(S)]) \in GoodAnswers
  <2>. SUFFICES ASSUME S # {} PROVE Found(Least(S), d.rows[Least(S)]) \in GoodAnswers
    OBVIOUS
  <2>1. Least(S) \in S
    BY <1>1, LeastIsOneOf
  <2>2. Least(S) \in Keys /\ d.rows[Least(S)] \in Values
    BY <2>1 DEF Present, Databases
  <2>. QED  BY <2>2, AnswersAreGood
<1>. QED  BY <1>2, <1>3, AnswersAreGood DEF Positioned, Result, Executed

LEMMA NextKeyExecuted ==
  ASSUME NEW fds, NEW d \in Databases(fds), NEW fd \in fds
  PROVE  NextKey(d, fd) \in Executed(fds)
<1>. DEFINE moved == IF d.lastfd # fd THEN Used(Seek(d, After(d)), fd) ELSE d
<1>1. After(d) \in SUBSET Keys
  BY DEF After, Present
<1>2. moved \in Databases(fds)
  BY <1>1, SeekIsDatabase, UsedIsDatabase
<1>3. After(moved) \in SUBSET Present(moved)
  BY DEF After
<1>4. Positioned(moved, After(moved), fd) \in Executed(fds)
  BY <1>2, <1>3, PositionedExecuted
<1>5. Result(moved, NotFound) \in Executed(fds)
  BY <1>2, AnswersAreGood DEF Result, Executed
<1>6. NextKey(d, fd) \in {Result(moved, NotFound), Positioned(moved, After(moved), fd)}
  BY DEF NextKey
<1>. QED  BY <1>4, <1>5, <1>6

LEMMA ExecuteExecutes ==
  ASSUME NEW fds, NEW d \in Databases(fds), NEW fd \in fds, NEW q,
         q \in [op : Operations, key : Keys, value : Values, big : BOOLEAN] \cup {CloseRequest}
  PROVE  Execute(d, fd, q) \in Executed(fds)
<1>1. CASE q = CloseRequest
  <2>1. q.op = "close"
    BY <1>1 DEF CloseRequest
  <2>2. Execute(d, fd, q) = Result(d, NotFound)
    BY <2>1, Zenon DEF Execute
  <2>. QED  BY <2>2, AnswersAreGood DEF Result, Executed
<1>2. CASE q # CloseRequest
  <2>. q.op \in Operations /\ q.key \in Keys /\ q.value \in Values
    BY <1>2
  <2>0. d.rows[q.key] \in Values \cup {None} /\ d.rows \in [Keys -> Values \cup {None}]
    BY DEF Databases
  <2>1. CASE q.op = "fetch"
    <3>1. Execute(d, fd, q) = Fetch(d, q.key)
      BY <2>1, Zenon DEF Execute
    <3>. QED  BY <3>1, <2>0, AnswersAreGood DEF Fetch, Result, Executed
  <2>2. CASE q.op = "exists"
    <3>1. Execute(d, fd, q) = Exists(d, q.key)
      BY <2>2, Zenon DEF Execute
    <3>. QED  BY <3>1, AnswersAreGood DEF Exists, Result, Executed
  <2>3. CASE q.op = "store"
    <3>1. Execute(d, fd, q) = Store(d, q.key, q.value)
      BY <2>3, Zenon DEF Execute
    <3>. QED  BY <3>1, AnswersAreGood, PutIsDatabase DEF Store, Result, Executed
  <2>4. CASE q.op = "delete"
    <3>1. Execute(d, fd, q) = Delete(d, q.key)
      BY <2>4, Zenon DEF Execute
    <3>. QED  BY <3>1, AnswersAreGood, PutIsDatabase DEF Delete, Result, Executed
  <2>5. CASE q.op = "packinc"
    <3>1. Execute(d, fd, q) = PackInc(d, q.key)
      BY <2>5, Zenon DEF Execute
    <3>2. d.rows[q.key] # None => (d.rows[q.key] + 1) % Limit \in Values
      BY <2>0, TableConstants DEF Values
    <3>. QED  BY <3>1, <3>2, CountExecuted DEF PackInc
  <2>6. CASE q.op = "packdec"
    <3>1. Execute(d, fd, q) = PackDec(d, q.key)
      BY <2>6, Zenon DEF Execute
    <3>2. d.rows[q.key] # None => (d.rows[q.key] - 1) % Limit \in Values
      BY <2>0, TableConstants DEF Values
    <3>. QED  BY <3>1, <3>2, CountExecuted DEF PackDec
  <2>7. CASE q.op = "inc"
    <3>1. Execute(d, fd, q) = Inc(d, q.key)
      BY <2>7, Zenon DEF Execute
    <3>2. d.rows[q.key] # None /\ d.rows[q.key] # Limit - 1 => d.rows[q.key] + 1 \in Values
      BY <2>0, TableConstants DEF Values
    <3>3. CASE d.rows[q.key] = Limit - 1
      BY <3>1, <3>3, AnswersAreGood DEF Inc, Result, Executed
    <3>4. CASE d.rows[q.key] # Limit - 1
      BY <3>1, <3>2, <3>4, CountExecuted DEF Inc
    <3>. QED  BY <3>3, <3>4
  <2>8. CASE q.op = "dec"
    <3>1. Execute(d, fd, q) = Dec(d, q.key)
      BY <2>8, Zenon DEF Execute
    <3>2. d.rows[q.key] # None /\ d.rows[q.key] \notin {0, Limit - 1} => d.rows[q.key] - 1 \in Values
      BY <2>0, TableConstants DEF Values
    <3>3. CASE d.rows[q.key] \in {0, Limit - 1}
      BY <3>1, <3>3, AnswersAreGood DEF Dec, Result, Executed
    <3>4. CASE d.rows[q.key] \notin {0, Limit - 1}
      BY <3>1, <3>2, <3>4, CountExecuted DEF Dec
    <3>. QED  BY <3>3, <3>4
  <2>9. CASE q.op = "sync"
    <3>1. Execute(d, fd, q) = Sync(d)
      BY <2>9, Zenon DEF Execute
    <3>. QED  BY <3>1, AnswersAreGood DEF Sync, Result, Executed
  <2>10. CASE q.op = "clear"
    <3>1. Execute(d, fd, q) = Clear(d)
      BY <2>10, Zenon DEF Execute
    <3>2. [EmptyDatabase EXCEPT !.lastfd = d.lastfd] \in Databases(fds)
      BY DEF EmptyDatabase, Databases
    <3>. QED  BY <3>1, <3>2, AnswersAreGood DEF Clear, Result, Executed
  <2>11. CASE q.op = "first"
    <3>1. Execute(d, fd, q) = Positioned(d, Present(d), fd)
      BY <2>11, Zenon DEF Execute
    <3>. QED  BY <3>1, PositionedExecuted
  <2>12. CASE q.op = "from"
    <3>1. Execute(d, fd, q) = Positioned(d, From(d, q.key), fd)
      BY <2>12, Zenon DEF Execute
    <3>2. From(d, q.key) \in SUBSET Present(d)
      BY DEF From
    <3>. QED  BY <3>1, <3>2, PositionedExecuted
  <2>13. CASE q.op = "next"
    <3>1. Execute(d, fd, q) = NextKey(d, fd)
      BY <2>13, Zenon DEF Execute
    <3>. QED  BY <3>1, NextKeyExecuted
  <2>. QED
    BY <2>1, <2>2, <2>3, <2>4, <2>5, <2>6, <2>7, <2>8, <2>9, <2>10, <2>11, <2>12, <2>13
       DEF Operations
<1>. QED  BY <1>1, <1>2

-----------------------------------------------------------------------------
(* The inductive invariant.                                                  *)

Answers == Tokens \X GoodAnswers
Wires(c) == [sent : Seq(Calls(c)), replies : Seq(Answers)]

Busy == {"try", "sent", "failed"}

(* A database is selected on a socket, nothing is under way without one, and *)
(* nothing is sent on one that was lost.                                     *)
Linked(c) ==
  /\ me[c].selected => me[c].sock # None
  /\ me[c].pc # "closed" /\ me[c].sock = None => wire[c] = Quiet
  /\ me[c].pc = "sent" => me[c].sock # None /\ ~me[c].lost

(* One connection executes the request at most once, and it is given up      *)
(* before the next one is opened.                                            *)
Unserved(c) == IF wire[c].sent = <<>> THEN 0 ELSE 1
Counted(c) ==
  /\ executed[c] <= 1 + cut[c]
  /\ me[c].request.big => executed[c] = 0 /\ me[c].pc # "sent"
  /\ me[c].pc = "try" => executed[c] <= cut[c]
  /\ me[c].pc = "sent" => executed[c] + Unserved(c) <= 1 + cut[c]
  /\ me[c].pc = "failed" /\ ~me[c].request.big => executed[c] + Unserved(c) <= cut[c]

(* On a connection that was neither torn nor lost there is nothing but the   *)
(* request of the call or its answer, and before that, at most, the answer   *)
(* that reselect did not read.                                               *)
InitAnswer   == <<"init", InitDone>>
OwnAnswer(c) == <<me[c].request.op, answered[c]>>
Lates == {<<>>} \cup {<< <<"init", r>> >> : r \in GoodAnswers}
Whole(c) == ~me[c].torn /\ ~me[c].lost /\ me[c].pc \in {"idle", "try", "sent"}

Pending(c) == me[c].pc = "sent" /\ wire[c].sent = <<>>
InStep(c) ==
  /\ ~me[c].selected => wire[c].replies \in Lates
  /\ me[c].selected /\ Pending(c) =>
       /\ executed[c] > 0
       /\ wire[c].replies \in {<<OwnAnswer(c)>>, <<InitAnswer, OwnAnswer(c)>>}
  /\ me[c].selected /\ ~Pending(c) =>
       /\ wire[c].sent = IF me[c].pc = "sent" THEN <<me[c].request>> ELSE <<>>
       /\ wire[c].replies \in {<<>>, <<InitAnswer>>}

(* A call that has read an answer has read the last one to its request.      *)
Own(c) ==
  /\ me[c].pc \in Busy => me[c].errs < MaxTries /\ me[c].retval = -1
  /\ me[c].pc = "idle" /\ me[c].retval # -1 =>
       me[c].err = "none" /\ me[c].retval = Status(me[c].reply)
  /\ me[c].pc = "idle" /\ me[c].retval # -1 /\ ~Torn(c) =>
       executed[c] > 0 /\ me[c].reply = answered[c] /\ answered[c].status # "error"

Local(c) ==
  /\ me[c] \in Types(c) /\ wire[c] \in Wires(c)
  /\ Linked(c) /\ Counted(c) /\ Own(c) /\ (Whole(c) => InStep(c))

Shape ==
  /\ db \in Databases(Fds)
  /\ DOMAIN me = Clients /\ DOMAIN wire = Clients /\ DOMAIN answered = Clients
  /\ executed \in [Clients -> Nat] /\ cut \in [Clients -> Nat]
  /\ calls \in 0 .. MaxCalls /\ faults \in 0 .. MaxFaults /\ unsaved \in BOOLEAN
  /\ \A c, d \in Clients : c # d /\ me[c].sock # None => me[c].sock # me[d].sock

ClientInv == Shape /\ \A c \in Clients : Local(c)

-----------------------------------------------------------------------------
(* What is under way, when something is put on the wire and taken from it.   *)
LEMMA OneLeft ==
  ASSUME NEW S, NEW s \in Seq(S), s # <<>>
  PROVE  Len(s) = 1 <=> Tail(s) = <<>>
<1>. DEFINE n == Len(s)
            m == Len(Tail(s))
<1>1. m = n - 1 /\ Tail(s) \in Seq(S)
  BY HeadTailProperties
<1>2. n \in Nat /\ (Tail(s) = <<>> => m = 0) /\ (Tail(s) # <<>> => m \in Nat \ {0})
  BY <1>1, EmptySeq, LenProperties
<1>3. n = 1 <=> Tail(s) = <<>>
  <2>. HIDE DEF m, n
  <2>. QED  BY <1>1, <1>2
<1>. QED  BY <1>3

LEMMA QuietIs == Quiet.sent = <<>> /\ Quiet.replies = <<>>
BY DEF Quiet

LEMMA Appended ==
  ASSUME NEW T, NEW s \in Seq(T), NEW a \in T
  PROVE  Append(s, a) \in Seq(T) /\ Append(s, a) # <<>>
<1>1. Len(Append(s, a)) = Len(s) + 1 /\ Len(s) \in Nat /\ Len(<<>>) = 0
  OBVIOUS
<1>. QED  BY <1>1

LEMMA OneOrTwo ==
  ASSUME NEW a, NEW b
  PROVE  /\ Append(<<>>, a) = <<a>> /\ Append(<<a>>, b) = <<a, b>>
         /\ Head(<<a>>) = a /\ Head(<<a, b>>) = a
         /\ Tail(<<a>>) = <<>> /\ Tail(<<a, b>>) = <<b>>
         /\ <<a>> # <<>> /\ <<a, b>> # <<>> /\ Len(<<a>>) = 1 /\ Len(<<a, b>>) = 2
<1>1. Append(<<>>, a) = <<a>> /\ Len(<<a>>) = 1 /\ Head(<<a>>) = a /\ <<a>> # <<>>
  OBVIOUS
<1>2. Tail(<<a>>) = <<>>
  OBVIOUS
<1>3. Append(<<a>>, b) = <<a, b>>
  <2>1. ASSUME NEW T, NEW x \in T, NEW y \in T
        PROVE  Append(<<x>>, y) = <<x, y>>
    <3>1. <<x>> \in Seq(T) /\ <<x, y>> \in Seq(T) /\ Append(<<x>>, y) \in Seq(T)
      OBVIOUS
    <3>2. PICK t \in Seq(T) : t = Append(<<x>>, y)
      BY <3>1
    <3>3. PICK u \in Seq(T) : u = <<x, y>>
      BY <3>1
    <3>4. Len(t) = 2 /\ t[1] = x /\ t[2] = y
      BY <3>1, <3>2
    <3>5. Len(u) = 2 /\ u[1] = x /\ u[2] = y
      BY <3>3
    <3>6. \A i \in 1 .. 2 : t[i] = u[i]
      BY <3>4, <3>5
    <3>7. t = u
      BY <3>4, <3>5, <3>6, SeqEqual
    <3>. QED  BY <3>2, <3>3, <3>7
  <2>2. a \in {a, b} /\ b \in {a, b}
    OBVIOUS
  <2>. QED  BY <2>1, <2>2
<1>3a. Len(<<a, b>>) = 2 /\ Head(<<a, b>>) = a
  OBVIOUS
<1>3b. <<a, b>> # <<>>
  <2>1. Len(<<>>) = 0
    OBVIOUS
  <2>. QED  BY <1>3a, <2>1
<1>4. Tail(<<a, b>>) = <<b>>
  OBVIOUS
<1>. QED  BY <1>1, <1>2, <1>3, <1>3a, <1>3b, <1>4

-----------------------------------------------------------------------------
(* A step of one client leaves the others as they are.                       *)
Turn(c) ==
  /\ DOMAIN me' = Clients /\ DOMAIN wire' = Clients /\ DOMAIN answered' = Clients
  /\ executed' \in [Clients -> Nat] /\ cut' \in [Clients -> Nat]
  /\ \A d \in Clients \ {c} :
       /\ me'[d] = me[d] /\ wire'[d] = wire[d] /\ executed'[d] = executed[d]
       /\ cut'[d] = cut[d] /\ answered'[d] = answered[d]
  /\ me'[c].sock \in {me[c].sock, None} \cup Free(c)
  /\ db' \in Databases(Fds) /\ calls' \in 0 .. MaxCalls /\ unsaved' \in BOOLEAN
  /\ faults' \in 0 .. MaxFaults /\ faults <= faults'

LEMMA OneClient ==
  ASSUME NEW c \in Clients, ClientInv, Turn(c), Local(c)'
  PROVE  ClientInv'
<1>1. ASSUME NEW d \in Clients \ {c}
      PROVE  Local(d)'
  <2>1. Local(d)
    BY DEF ClientInv
  <2>2. /\ me'[d] = me[d] /\ wire'[d] = wire[d] /\ executed'[d] = executed[d]
        /\ cut'[d] = cut[d] /\ answered'[d] = answered[d]
    BY DEF Turn
  <2>4. Linked(d)'
    BY <2>1, <2>2 DEF Local, Linked
  <2>5. Counted(d)'
    BY <2>1, <2>2 DEF Local, Counted, Unserved
  <2>6. Own(d)'
    BY <2>1, <2>2 DEF Local, Own, Torn
  <2>7. Whole(d)' => InStep(d)'
    <3>1. (Whole(d)' <=> Whole(d)) /\ (Pending(d)' <=> Pending(d)) /\ OwnAnswer(d)' = OwnAnswer(d)
      BY <2>2 DEF Whole, Pending, OwnAnswer
    <3>. QED  BY <2>1, <2>2, <3>1 DEF Local, InStep
  <2>. QED  BY <2>1, <2>2, <2>4, <2>5, <2>6, <2>7 DEF Local, Types, Wires
<1>2. ASSUME NEW d \in Clients, NEW e \in Clients, d # e, me'[d].sock # None
      PROVE  me'[d].sock # me'[e].sock
  <2>1. CASE d # c /\ e # c
    BY <1>2, <2>1 DEF ClientInv, Shape, Turn
  <2>2. CASE d = c
    BY <1>2, <2>2 DEF ClientInv, Shape, Turn, Free
  <2>3. CASE e = c
    BY <1>2, <2>3 DEF ClientInv, Shape, Turn, Free
  <2>. QED  BY <2>1, <2>2, <2>3
<1>. QED  BY <1>1, <1>2 DEF ClientInv, Shape, Turn

-----------------------------------------------------------------------------
(* The steps.                                                                *)
LEMMA ClosedTypes ==
  ASSUME NEW c \in Clients
  PROVE  Closed \in Types(c) /\ \A fd \in Fds : Connected(fd) \in Types(c)
<1>1. Failed \in Replies /\ 0 \in 0 .. MaxTries
  BY AnswersAreGood, ClientConstants DEF GoodAnswers
<1>. QED  BY <1>1, ClientConstants DEF Closed, Connected, Fresh, Types, Calls, Errors

LEMMA Begins ==
  ASSUME Init
  PROVE  ClientInv
<1>1. Shape
  <2>1. db \in Databases(Fds) /\ calls \in 0 .. MaxCalls /\ faults \in 0 .. MaxFaults
    BY ClientConstants DEF Init
  <2>2. \A c \in Clients : me[c].sock = Start[c]
    BY DEF Init, Fresh, Closed, Connected
  <2>3. DOMAIN me = Clients /\ DOMAIN wire = Clients /\ DOMAIN answered = Clients
    BY DEF Init
  <2>4. executed \in [Clients -> Nat] /\ cut \in [Clients -> Nat] /\ unsaved \in BOOLEAN
    BY DEF Init
  <2>. QED  BY <2>1, <2>2, <2>3, <2>4, ClientConstants DEF Shape
<1>2. ASSUME NEW c \in Clients
      PROVE  Local(c)
  <2>2. me[c] \in {Closed, Connected(Start[c])} /\ (me[c] = Closed \/ Start[c] \in Fds)
    BY ClientConstants DEF Init
  <2>3. me[c] \in Types(c)
    BY <2>2, ClosedTypes
  <2>4. wire[c] = Quiet /\ wire[c] \in Wires(c)
    BY DEF Init, Quiet, Wires
  <2>5. Linked(c)
    <3>1. \A fd : /\ Connected(fd).selected => Connected(fd).sock # None
                  /\ Connected(fd).pc = "idle"
      BY Zenon DEF Fresh, Connected
    <3>2. ~Closed.selected /\ Closed.pc = "closed"
      BY Zenon DEF Fresh, Closed
    <3>3. me[c].selected => me[c].sock # None
      BY <2>2, <3>1, <3>2, Zenon
    <3>4. me[c].pc # "sent"
      BY <2>2, <3>1, <3>2
    <3>. QED  BY <2>4, <3>3, <3>4 DEF Linked
  <2>6. Counted(c)
    BY <2>2 DEF Fresh, Closed, Connected, Counted, CloseRequest, Init
  <2>7. Own(c)
    BY <2>2 DEF Fresh, Closed, Connected, Own, Busy
  <2>8. InStep(c)
    <3>1. me[c].pc # "sent"
      BY <2>2 DEF Fresh, Closed, Connected
    <3>. QED  BY <2>4, <3>1, QuietIs DEF InStep, Pending, Lates
  <2>. QED  BY <2>3, <2>4, <2>5, <2>6, <2>7, <2>8 DEF Local
<1>. QED  BY <1>1, <1>2 DEF ClientInv

(* What is known of a client before its step. *)
Sane(c) ==
  /\ me[c] \in Types(c) /\ wire[c] \in Wires(c)
  /\ Linked(c) /\ Counted(c) /\ Own(c) /\ (Whole(c) => InStep(c))
  /\ db \in Databases(Fds)
  /\ DOMAIN me = Clients /\ DOMAIN wire = Clients /\ DOMAIN answered = Clients
  /\ executed \in [Clients -> Nat] /\ cut \in [Clients -> Nat]
  /\ calls \in 0 .. MaxCalls /\ faults \in 0 .. MaxFaults /\ unsaved \in BOOLEAN
  /\ faults \in Nat /\ MaxTries \in Nat \ {0} /\ None \notin Fds
  /\ Failed \in Replies /\ Free(c) \subseteq Fds
  /\ wire[c].sent \in Seq(Calls(c)) /\ wire[c].replies \in Seq(Answers)

LEMMA Known ==
  ASSUME ClientInv, NEW c \in Clients
  PROVE  Sane(c)
<1>1. wire[c].sent \in Seq(Calls(c)) /\ wire[c].replies \in Seq(Answers)
  BY DEF ClientInv, Local, Wires
<1>3. Free(c) \subseteq Fds
  BY DEF Free
<1>4. Failed \in Replies
  BY AnswersAreGood DEF GoodAnswers
<1>. QED  BY <1>1, <1>3, <1>4, ClientConstants DEF ClientInv, Shape, Local, Sane

LEMMA ConnectStep ==
  ASSUME ClientInv, NEW c \in Clients, Connect(c)
  PROVE  ClientInv'
<1>0. Sane(c)
  BY Known
<1>. USE <1>0 DEF Sane
<1>1. PICK fd \in Free(c) : me' = [me EXCEPT ![c] = Connected(fd)]
  BY DEF Connect
<1>2. fd \in Fds /\ me'[c] = Connected(fd) /\ wire'[c] = Quiet
  BY <1>1 DEF Connect
<1>3. Turn(c)
  BY <1>1, <1>2 DEF Fresh, Closed, Connected, Connect, Turn, history
<1>4. me'[c] \in Types(c) /\ wire'[c] \in Wires(c)
  BY <1>2, ClosedTypes DEF Wires, Quiet
<1>5. Linked(c)'
  <2>1. Connected(fd).pc = "idle" /\ Connected(fd).sock = fd /\ fd # None
    BY <1>2 DEF Fresh, Connected
  <2>. QED  BY <1>2, <2>1 DEF Linked
<1>6. Counted(c)'
  BY <1>2 DEF Fresh, Closed, Connected, Connect, history, Counted, CloseRequest
<1>7. Own(c)' /\ InStep(c)'
  <2>1. Connected(fd).pc = "idle" /\ Connected(fd).retval = -1
    BY DEF Fresh, Connected
  <2>2. Own(c)'
    BY <1>2, <2>1 DEF Own, Busy
  <2>3. InStep(c)'
    BY <1>2, <2>1, QuietIs DEF InStep, Pending, Lates
  <2>. QED  BY <2>2, <2>3
<1>8. Local(c)'
  BY <1>4, <1>5, <1>6, <1>7 DEF Local, Types, Wires
<1>. QED  BY <1>3, <1>8, OneClient

LEMMA CallStep ==
  ASSUME ClientInv, NEW c \in Clients, NEW q \in Requests[c], Call(c, q)
  PROVE  ClientInv'
<1>0. Sane(c)
  BY Known
<1>. USE <1>0 DEF Sane
<1>1. me'[c] = [me[c] EXCEPT !.pc = "try", !.request = q, !.errs = 0,
                             !.err = "none", !.retval = -1, !.reply = Failed]
  BY DEF Call
<1>2. executed'[c] = 0 /\ cut'[c] = 0 /\ wire'[c] = wire[c]
  BY DEF Call
<1>3. Turn(c)
  BY <1>1, ClientConstants DEF Call, Turn, Types
<1>4. me'[c] \in Types(c)
  <2>1. ASSUME NEW m \in Types(c)
        PROVE  [m EXCEPT !.pc = "try", !.request = q, !.errs = 0,
                         !.err = "none", !.retval = -1, !.reply = Failed] \in Types(c)
    <3>1. Failed \in Replies /\ 0 \in 0 .. MaxTries /\ q \in Calls(c)
      BY DEF Calls
    <3>. QED  BY <3>1 DEF Types, Errors
  <2>. QED  BY <1>1, <2>1
<1>1a. /\ me'[c].pc = "try" /\ me[c].pc = "idle" /\ me'[c].sock = me[c].sock
       /\ me'[c].selected = me[c].selected /\ me'[c].torn = me[c].torn
       /\ me'[c].lost = me[c].lost
  BY <1>1 DEF Call, Types
<1>5. Linked(c)' /\ (Whole(c)' => InStep(c)')
  <2>1. Linked(c)'
    BY <1>1a, <1>2 DEF Linked
  <2>2. Whole(c)' => InStep(c)'
    BY <1>1a, <1>2 DEF Whole, InStep, Pending
  <2>. QED  BY <2>1, <2>2
<1>6. Counted(c)'
  BY <1>1, <1>2 DEF Counted, Types
<1>7. Own(c)'
  BY <1>1 DEF Own, Types, Busy
<1>8. Local(c)'
  BY <1>2, <1>4, <1>5, <1>6, <1>7 DEF Local, Types, Wires
<1>. QED  BY <1>3, <1>8, OneClient

LEMMA AbortStep ==
  ASSUME ClientInv, NEW c \in Clients, Abort(c)
  PROVE  ClientInv'
<1>0. Sane(c)
  BY Known
<1>. USE <1>0 DEF Sane
<1>1. me'[c] = Closed /\ wire'[c] = wire[c] /\ executed'[c] = executed[c] /\ cut'[c] = cut[c]
  BY DEF Abort, history
<1>3. Turn(c)
  BY <1>1 DEF Fresh, Closed, Connected, Abort, Turn, history
<1>4. me'[c] \in Types(c)
  BY <1>1, ClosedTypes
<1>5. Linked(c)' /\ ~Whole(c)'
  <2>1. Closed.pc = "closed" /\ ~Closed.selected
    BY Zenon DEF Fresh, Closed
  <2>. QED  BY <1>1, <2>1 DEF Linked, Whole
<1>6. Counted(c)'
  BY <1>1 DEF Fresh, Closed, Connected, Counted, CloseRequest
<1>7. Own(c)'
  BY <1>1 DEF Fresh, Closed, Connected, Own, Busy
<1>8. Local(c)'
  BY <1>1, <1>4, <1>5, <1>6, <1>7 DEF Local, Types, Wires
<1>. QED  BY <1>3, <1>8, OneClient

LEMMA SendStep ==
  ASSUME ClientInv, NEW c \in Clients, Send(c)
  PROVE  ClientInv'
<1>0. Sane(c)
  BY Known
<1>. USE <1>0 DEF Sane
<1>1. /\ me'[c] = [me[c] EXCEPT !.pc = "sent"] /\ me[c].pc = "try" /\ ~me[c].request.big
      /\ me[c].sock # None /\ ~me[c].lost
  BY DEF Send, Attempting
<1>1a. /\ me'[c].pc = "sent" /\ me'[c].sock = me[c].sock /\ me'[c].selected = me[c].selected
       /\ me'[c].torn = me[c].torn /\ me'[c].lost = me[c].lost /\ me'[c].request = me[c].request
       /\ me'[c].errs = me[c].errs /\ me'[c].retval = me[c].retval
  BY <1>1 DEF Types
<1>2. /\ wire'[c] = [sent |-> Append(wire[c].sent, me[c].request), replies |-> wire[c].replies]
      /\ wire'[c].sent = Append(wire[c].sent, me[c].request) /\ wire'[c].replies = wire[c].replies
      /\ executed'[c] = executed[c] /\ cut'[c] = cut[c]
  BY DEF Send, history, Wires
<1>3. Turn(c)
  BY <1>1 DEF Send, Turn, history, Types
<1>4. me[c].request \in Calls(c)
  BY DEF Types
<1>4a. wire'[c].sent # <<>> /\ wire'[c].sent \in Seq(Calls(c))
  <2>1. Append(wire[c].sent, me[c].request) # <<>>
    BY <1>4, Appended
  <2>. QED  BY <1>2, <1>4, <2>1, Appended
<1>4b. me'[c] \in Types(c) /\ wire'[c] \in Wires(c)
  <2>1. ASSUME NEW m \in Types(c)
        PROVE  [m EXCEPT !.pc = "sent"] \in Types(c)
    BY DEF Types
  <2>. QED  BY <1>1, <1>2, <1>4a, <2>1 DEF Wires
<1>5. Linked(c)'
  BY <1>1, <1>1a DEF Linked
<1>6. Counted(c)'
  BY <1>1, <1>1a, <1>2, <1>4a DEF Counted, Unserved
<1>7. Own(c)'
  BY <1>1, <1>1a DEF Own, Busy
<1>7a. Whole(c)' => InStep(c)'
  <2>. SUFFICES ASSUME Whole(c)' PROVE InStep(c)'
    OBVIOUS
  <2>1. InStep(c) /\ ~Pending(c) /\ ~Pending(c)'
    BY <1>1, <1>1a, <1>4a DEF Whole, Pending
  <2>2. me[c].selected => wire'[c].sent = <<me[c].request>>
    <3>1. me[c].selected => wire[c].sent = <<>>
      BY <1>1, <2>1 DEF InStep
    <3>. QED  BY <1>2, <3>1, OneOrTwo
  <2>. QED  BY <1>1a, <1>2, <2>1, <2>2 DEF InStep
<1>8. Local(c)'
  BY <1>4b, <1>5, <1>6, <1>7, <1>7a DEF Local, Types, Wires
<1>. QED  BY <1>3, <1>8, OneClient

-----------------------------------------------------------------------------
(* A round that ends without an answer: the call returns, or the client is   *)
(* to connect again.                                                         *)
Leaves(c) ==
  /\ DOMAIN me' = Clients /\ \A d \in Clients \ {c} : me'[d] = me[d]
  /\ me'[c] \in Types(c) /\ me'[c].pc \in {"idle", "closed", "failed"}
  /\ me'[c].retval = -1
  /\ me'[c].request \in {me[c].request, CloseRequest}
  /\ me'[c].pc = "failed" => me'[c].errs < MaxTries /\ me'[c].request = me[c].request
  /\ me'[c].sock \in {me[c].sock, None}
  /\ me'[c].pc # "closed" => me'[c].sock = me[c].sock
  /\ me'[c].selected => me'[c].sock # None

LEMMA ReturnLeaves ==
  ASSUME ClientInv, NEW c \in Clients, NEW m \in Types(c), Return(c, m),
         m.retval = -1, m.sock = me[c].sock, m.selected = me[c].selected,
         m.request = me[c].request
  PROVE  /\ Leaves(c) /\ me'[c].pc # "failed"
         /\ me'[c].pc = "idle" =>
              me'[c].selected = me[c].selected /\ me'[c].torn = m.torn /\ me'[c].lost = m.lost
<1>0. Sane(c)
  BY Known
<1>. USE <1>0 DEF Sane
<1>1. DOMAIN me' = Clients /\ \A d \in Clients \ {c} : me'[d] = me[d]
  BY DEF Return
<1>2. CASE m.request = CloseRequest
  <2>1. me'[c] = Closed
    BY <1>2 DEF Return
  <2>2. ~Closed.selected
    BY Zenon DEF Fresh, Closed
  <2>3. /\ Closed.pc = "closed" /\ Closed.retval = -1 /\ Closed.request = CloseRequest
        /\ Closed.sock = None
    BY DEF Fresh, Closed
  <2>. QED  BY <1>1, <2>1, <2>2, <2>3, ClosedTypes DEF Leaves
<1>3. CASE m.request # CloseRequest
  <2>1. me'[c] = [m EXCEPT !.pc = "idle"]
    BY <1>3 DEF Return
  <2>2. [m EXCEPT !.pc = "idle"] \in Types(c)
    BY DEF Types
  <2>3. /\ me'[c].pc = "idle" /\ me'[c].retval = -1 /\ me'[c].request = me[c].request
        /\ me'[c].sock = me[c].sock /\ me'[c].selected = me[c].selected
        /\ me'[c].torn = m.torn /\ me'[c].lost = m.lost
    BY <2>1 DEF Types
  <2>4. me'[c].selected => me'[c].sock # None
    BY <2>3 DEF Linked
  <2>. QED  BY <1>1, <2>1, <2>2, <2>3, <2>4 DEF Leaves
<1>. QED  BY <1>2, <1>3

LEMMA FailsLeaves ==
  ASSUME ClientInv, NEW c \in Clients, me[c].pc \in Busy, NEW err \in Errors, Fails(c, err)
  PROVE  /\ Leaves(c) /\ (err = "error" => me'[c].pc # "failed")
         /\ err # "error" => me'[c].pc = "failed"
         /\ me'[c].pc = "idle" => /\ me'[c].selected = me[c].selected
                                  /\ me'[c].torn = me[c].torn /\ me'[c].lost = me[c].lost
<1>0. Sane(c)
  BY Known
<1>. USE <1>0 DEF Sane
<1>1. me[c].retval = -1 /\ me[c].errs < MaxTries
  BY DEF Own
<1>2. CASE err = "error"
  <2>1. ASSUME NEW m \in Types(c)
        PROVE  /\ [m EXCEPT !.err = err] \in Types(c)
               /\ [m EXCEPT !.err = err].retval = m.retval
               /\ [m EXCEPT !.err = err].sock = m.sock
               /\ [m EXCEPT !.err = err].selected = m.selected
               /\ [m EXCEPT !.err = err].request = m.request
               /\ [m EXCEPT !.err = err].torn = m.torn
               /\ [m EXCEPT !.err = err].lost = m.lost
    BY DEF Types
  <2>2. Return(c, [me[c] EXCEPT !.err = err])
    BY <1>2 DEF Fails
  <2>. HIDE DEF Sane
  <2>3. me[c] \in Types(c)
    BY <1>0 DEF Sane
  <2>4. PICK m \in Types(c) : m = [me[c] EXCEPT !.err = err]
    BY <2>1, <2>3
  <2>5. /\ m.retval = -1 /\ m.sock = me[c].sock /\ m.selected = me[c].selected
        /\ m.request = me[c].request /\ m.torn = me[c].torn /\ m.lost = me[c].lost
    BY <1>1, <2>1, <2>3, <2>4
  <2>. QED  BY <1>2, <2>2, <2>4, <2>5, ReturnLeaves
<1>3. CASE err # "error"
  <2>1. ASSUME NEW m \in Types(c)
        PROVE  /\ [m EXCEPT !.pc = "failed", !.err = err] \in Types(c)
               /\ [m EXCEPT !.pc = "failed", !.err = err].pc = "failed"
               /\ [m EXCEPT !.pc = "failed", !.err = err].retval = m.retval
               /\ [m EXCEPT !.pc = "failed", !.err = err].errs = m.errs
               /\ [m EXCEPT !.pc = "failed", !.err = err].sock = m.sock
               /\ [m EXCEPT !.pc = "failed", !.err = err].selected = m.selected
               /\ [m EXCEPT !.pc = "failed", !.err = err].request = m.request
    BY DEF Types
  <2>2. me' = [me EXCEPT ![c].pc = "failed", ![c].err = err]
    BY <1>3 DEF Fails
  <2>3. me'[c] = [me[c] EXCEPT !.pc = "failed", !.err = err]
    BY <2>2
  <2>4. DOMAIN me' = Clients /\ \A d \in Clients \ {c} : me'[d] = me[d]
    BY <2>2
  <2>5. me[c].selected => me[c].sock # None
    BY DEF Linked
  <2>6. /\ me'[c] \in Types(c) /\ me'[c].pc = "failed" /\ me'[c].retval = -1
        /\ me'[c].errs = me[c].errs /\ me'[c].sock = me[c].sock
        /\ me'[c].selected = me[c].selected /\ me'[c].request = me[c].request
    <3>. HIDE DEF Sane
    <3>1. me[c] \in Types(c)
      BY <1>0 DEF Sane
    <3>2. PICK m \in Types(c) : m = me[c]
      BY <3>1
    <3>3. me'[c] = [m EXCEPT !.pc = "failed", !.err = err]
      BY <2>3, <3>2
    <3>. QED  BY <1>1, <2>1, <3>2, <3>3
  <2>. QED  BY <1>1, <1>3, <2>4, <2>5, <2>6 DEF Leaves
<1>. QED  BY <1>2, <1>3

LEMMA LeavesLocal ==
  ASSUME ClientInv, NEW c \in Clients, Leaves(c),
         wire'[c] \in Wires(c),
         me[c].sock = None => wire'[c] = Quiet,
         executed'[c] = executed[c], cut'[c] \in Nat, cut[c] <= cut'[c],
         me'[c].pc = "failed" /\ ~me[c].request.big => executed[c] + Unserved(c)' <= cut'[c],
         me'[c].pc = "idle" /\ Whole(c)' => InStep(c)'
  PROVE  Local(c)'
<1>0. Sane(c)
  BY Known
<1>. USE <1>0 DEF Sane
<1>1. Linked(c)'
  BY DEF Leaves, Linked
<1>2. Counted(c)'
  <2>1. ~CloseRequest.big
    BY DEF CloseRequest
  <2>. QED  BY <2>1 DEF Leaves, Counted
<1>3. Own(c)'
  BY DEF Leaves, Own, Busy
<1>4. Whole(c)' => me'[c].pc = "idle"
  BY DEF Whole, Leaves
<1>. QED  BY <1>1, <1>2, <1>3, <1>4 DEF Local, Leaves, Types, Wires

-----------------------------------------------------------------------------
LEMMA TooBigStep ==
  ASSUME ClientInv, NEW c \in Clients, TooBig(c)
  PROVE  ClientInv'
<1>0. Sane(c)
  BY Known
<1>. USE <1>0 DEF Sane
<1>1. me[c].pc = "try" /\ me[c].request.big /\ me[c].sock # None
  BY DEF TooBig
<1>2. Leaves(c) /\ me'[c].pc = "failed"
  <2>. HIDE DEF Sane
  <2>. QED  BY <1>1, FailsLeaves DEF TooBig, Busy, Errors
<1>3. Local(c)'
  BY <1>1, <1>2, LeavesLocal DEF TooBig, history
<1>4. Turn(c)
  BY <1>2 DEF TooBig, history, Turn, Leaves
<1>. QED  BY <1>3, <1>4, OneClient

(* An exchange that fails on its way: the request may be sent once more. *)
LEMMA CutStep ==
  ASSUME ClientInv, NEW c \in Clients, me[c].pc \in {"try", "sent"},
         me[c].pc = "try" => ~me[c].request.big, me[c].sock # None,
         Fails(c, "close") \/ Fails(c, "proto"), IsCut(c), wire' = wire,
         db' = db, calls' = calls, unsaved' = unsaved, executed' = executed,
         answered' = answered, faults' \in 0 .. MaxFaults, faults <= faults'
  PROVE  ClientInv'
<1>0. Sane(c)
  BY Known
<1>1. me[c].pc \in Busy
  BY DEF Busy
<1>2. Leaves(c) /\ me'[c].pc = "failed"
  BY <1>1, FailsLeaves DEF Errors
<1>3. /\ cut'[c] = cut[c] + 1 /\ cut' \in [Clients -> Nat] /\ cut'[c] \in Nat
      /\ cut[c] <= cut'[c] /\ \A d \in Clients \ {c} : cut'[d] = cut[d]
  BY <1>0 DEF IsCut, Sane
<1>4. executed[c] + Unserved(c)' <= cut'[c]
  <2>1. Unserved(c)' = Unserved(c) /\ Unserved(c) \in {0, 1} /\ executed[c] \in Nat /\ cut[c] \in Nat
    BY <1>0 DEF Unserved, Sane
  <2>. QED  BY <1>0, <1>3, <2>1 DEF Counted, Sane
<1>5. Local(c)'
  BY <1>0, <1>2, <1>3, <1>4, LeavesLocal DEF Sane
<1>6. Turn(c)
  BY <1>0, <1>2, <1>3 DEF Turn, Leaves, Sane
<1>. QED  BY <1>5, <1>6, OneClient

LEMMA CutOffStep ==
  ASSUME ClientInv, NEW c \in Clients, CutOff(c)
  PROVE  ClientInv'
<1>0. Sane(c)
  BY Known
<1>1. me[c].pc \in {"try", "sent"} /\ me[c].sock # None /\ (me[c].pc = "try" => ~me[c].request.big)
  BY <1>0 DEF CutOff, Attempting, Sane, Linked
<1>2. faults' \in 0 .. MaxFaults /\ faults <= faults'
  BY <1>0, ClientConstants DEF CutOff, OneFault, Sane
<1>. QED  BY <1>1, <1>2, CutStep DEF CutOff

LEMMA RefusesStep ==
  ASSUME ClientInv, NEW c \in Clients, Refuses(c)
  PROVE  ClientInv'
<1>0. Sane(c)
  BY Known
<1>1. me[c].pc = "try" /\ me[c].sock # None /\ ~me[c].request.big
  BY DEF Refuses, Attempting
<1>2. faults' \in 0 .. MaxFaults /\ faults <= faults'
  BY <1>0 DEF Refuses, Sane
<1>. QED  BY <1>1, <1>2, CutStep DEF Refuses

LEMMA SkipStep ==
  ASSUME ClientInv, NEW c \in Clients, Skip(c)
  PROVE  ClientInv'
<1>0. Sane(c)
  BY Known
<1>. USE <1>0 DEF Sane
<1>1. me[c].pc = "try" /\ me[c].pc \in Busy /\ me[c].err \in Errors /\ me[c].sock = None
  BY DEF Skip, Busy, Types
<1>2. Leaves(c) /\ (me'[c].pc = "idle" => me'[c].selected = me[c].selected)
  <2>. HIDE DEF Sane
  <2>. QED  BY <1>1, FailsLeaves DEF Skip
<1>3. /\ wire'[c] = wire[c] /\ executed'[c] = executed[c] /\ cut'[c] = cut[c]
  BY DEF Skip, history
<1>5. wire'[c] = Quiet /\ ~me[c].selected
  BY <1>1, <1>3 DEF Linked
<1>6. me'[c].pc = "failed" => executed[c] + Unserved(c)' <= cut'[c]
  BY <1>1, <1>3, <1>5, QuietIs DEF Counted, Unserved
<1>6a. me'[c].pc = "idle" => InStep(c)'
  BY <1>2, <1>5, QuietIs DEF InStep, Lates
<1>7. Local(c)'
  BY <1>1, <1>2, <1>3, <1>5, <1>6, <1>6a, LeavesLocal
<1>8. Turn(c)
  BY <1>2, <1>3 DEF Skip, history, Turn, Leaves
<1>. QED  BY <1>7, <1>8, OneClient

-----------------------------------------------------------------------------
(* On a whole connection the request that dbmsd looks at is the one that its *)
(* client waits for.                                                         *)
LEMMA WholeAsked ==
  ASSUME ClientInv, NEW c \in Clients, Reached(c), Whole(c)
  PROVE  /\ me[c].pc = "sent" /\ Asked(c) = me[c].request /\ Awaited(c)
         /\ wire[c].replies \in {<<>>, <<InitAnswer>>}
<1>0. Sane(c)
  BY Known
<1>1. wire[c].sent # <<>> /\ me[c].selected
  BY DEF Reached
<1>2. ~Pending(c)
  BY <1>1 DEF Pending
<1>3. /\ wire[c].sent = IF me[c].pc = "sent" THEN <<me[c].request>> ELSE <<>>
      /\ wire[c].replies \in {<<>>, <<InitAnswer>>}
  BY <1>0, <1>1, <1>2 DEF InStep, Sane
<1>4. me[c].pc = "sent" /\ ~me[c].request.big
  BY <1>0, <1>1, <1>3 DEF Counted, Sane
<1>5. wire[c].sent = <<me[c].request>> /\ Len(wire[c].sent) = 1
  BY <1>3, <1>4, OneOrTwo
<1>6. Head(wire[c].sent) = me[c].request
  BY <1>5, OneOrTwo
<1>. QED  BY <1>3, <1>4, <1>5, <1>6 DEF Awaited, Asked

(* dbmsd answers: the request leaves the wire and the answer joins it.       *)
LEMMA AnswerStep ==
  ASSUME ClientInv, NEW c \in Clients, Reached(c), NEW r \in GoodAnswers, Answer(c, r),
         me' = me, cut' = cut, calls' = calls, unsaved' \in BOOLEAN,
         db' \in Databases(Fds), faults' \in 0 .. MaxFaults, faults <= faults'
  PROVE  ClientInv'
<1>0. Sane(c)
  BY Known
<1>. USE <1>0 DEF Sane
<1>. DEFINE s == wire[c].sent
            a == <<Asked(c).op, r>>
            t == IF Torn(c) THEN wire[c].replies ELSE Append(wire[c].replies, a)
<1>1. s \in Seq(Calls(c)) /\ s # <<>> /\ Tail(s) \in Seq(Calls(c)) /\ Len(s) \in Nat
  BY DEF Reached
<1>2. a \in Answers
  <2>1. Head(s) \in Calls(c)
    BY <1>1
  <2>2. Head(s).op \in Tokens
    BY <2>1, ClientConstants DEF Calls, CloseRequest, Tokens
  <2>. QED  BY <2>2 DEF Answers, Asked
<1>2a. t \in Seq(Answers)
  <2>1. Append(wire[c].replies, a) \in Seq(Answers)
    BY <1>2, Appended
  <2>. QED  BY <2>1
<1>3. /\ wire'[c] = [sent |-> Tail(s), replies |-> t]
      /\ DOMAIN wire' = Clients /\ \A d \in Clients \ {c} : wire'[d] = wire[d]
  BY DEF Answer
<1>4. /\ wire'[c].sent = Tail(s) /\ wire'[c].replies = t
      /\ wire'[c] \in Wires(c)
  BY <1>1, <1>2a, <1>3 DEF Wires
<1>7. /\ DOMAIN answered' = Clients /\ executed' \in [Clients -> Nat]
      /\ \A d \in Clients \ {c} : executed'[d] = executed[d] /\ answered'[d] = answered[d]
  <2>1. CASE Awaited(c)
    BY <2>1 DEF Answer
  <2>2. CASE ~Awaited(c)
    BY <2>2 DEF Answer
  <2>. QED  BY <2>1, <2>2
<1>8. Turn(c)
  BY <1>3, <1>7 DEF Turn
<1>9. me[c].sock # None /\ me[c].selected
  BY DEF Reached, Linked
<1>11. Linked(c)'
  BY <1>9 DEF Linked
<1>12. Whole(c) => /\ me[c].pc = "sent" /\ Asked(c) = me[c].request /\ Awaited(c)
                  /\ wire[c].replies \in {<<>>, <<InitAnswer>>}
  BY WholeAsked
<1>13. CASE Awaited(c)
  <2>1. /\ me[c].pc \in {"sent", "failed"} /\ ~me[c].request.big /\ Len(s) = 1
        /\ executed'[c] = executed[c] + 1 /\ answered'[c] = r
    BY <1>13 DEF Answer, Awaited
  <2>2. wire'[c].sent = <<>> /\ Unserved(c) = 1 /\ Unserved(c)' = 0
    <3>1. Tail(s) = <<>>
      BY <1>1, <2>1, OneLeft
    <3>. QED  BY <1>1, <1>4, <3>1 DEF Unserved
  <2>3. executed[c] \in Nat /\ cut[c] \in Nat
    OBVIOUS
  <2>4. Counted(c)'
    BY <2>1, <2>2, <2>3 DEF Counted
  <2>5. Own(c)'
    BY <2>1, <2>3 DEF Own, Busy
  <2>6. Whole(c)' => InStep(c)'
    <3>. SUFFICES ASSUME Whole(c) PROVE InStep(c)'
      BY DEF Whole
    <3>1. OwnAnswer(c)' = a
      <4>1. Asked(c) = me[c].request
        BY <1>12
      <4>. QED  BY <2>1, <4>1 DEF OwnAnswer
    <3>2. wire'[c].replies \in {<<OwnAnswer(c)'>>, <<InitAnswer, OwnAnswer(c)'>>}
      <4>1. t = Append(wire[c].replies, a)
        BY DEF Whole, Torn
      <4>2. CASE wire[c].replies = <<>>
        BY <1>4, <3>1, <4>1, <4>2, OneOrTwo
      <4>3. CASE wire[c].replies = <<InitAnswer>>
        BY <1>4, <3>1, <4>1, <4>3, OneOrTwo
      <4>. QED  BY <1>12, <4>2, <4>3
    <3>3. executed'[c] > 0
      BY <2>1, <2>3
    <3>4. Pending(c)'
      BY <1>12, <2>2 DEF Pending
    <3>. QED  BY <1>9, <3>2, <3>3, <3>4 DEF InStep, InitAnswer
  <2>. QED  BY <1>4, <1>8, <1>11, <2>4, <2>5, <2>6, OneClient DEF Local, Types, Wires
<1>14. CASE ~Awaited(c)
  <2>1. executed'[c] = executed[c] /\ answered'[c] = answered[c]
    BY <1>14 DEF Answer
  <2>2. me[c].pc \in {"sent", "failed"} /\ ~me[c].request.big => wire'[c].sent # <<>>
    <3>1. Len(s) # 1 => Tail(s) # <<>>
      BY <1>1, OneLeft
    <3>. QED  BY <1>4, <1>14, <3>1 DEF Awaited
  <2>3. Unserved(c) = 1 /\ Unserved(c)' \in {0, 1}
    BY <1>1 DEF Unserved
  <2>4. me[c].pc \in {"sent", "failed"} /\ ~me[c].request.big => Unserved(c)' = 1
    BY <2>2 DEF Unserved
  <2>5. Counted(c)'
    BY <2>1, <2>3, <2>4 DEF Counted
  <2>6. Own(c)'
    BY <2>1 DEF Own, Torn
  <2>7. ~Whole(c)'
    BY <1>12, <1>14 DEF Whole
  <2>. QED  BY <1>4, <1>8, <1>11, <2>5, <2>6, <2>7, OneClient DEF Local, Types, Wires
<1>. QED  BY <1>13, <1>14

(* The request that dbmsd looks at is one of the client's. *)
LEMMA AskedIs ==
  ASSUME ClientInv, NEW c \in Clients, Reached(c)
  PROVE  /\ Asked(c) \in Calls(c) /\ me[c].sock \in Fds
         /\ Execute(db, me[c].sock, Asked(c)) \in Executed(Fds)
<1>0. Sane(c)
  BY Known
<1>. USE <1>0 DEF Sane
<1>1. Asked(c) \in Calls(c)
  BY DEF Reached, Asked
<1>2. me[c].sock \in Fds
  BY DEF Reached, Linked, Types
<1>3. Asked(c) \in [op : Operations, key : Keys, value : Values, big : BOOLEAN] \cup {CloseRequest}
  BY <1>1, ClientConstants DEF Calls
<1>. QED  BY <1>1, <1>2, <1>3, ExecuteExecutes

LEMMA ServeStep ==
  ASSUME ClientInv, NEW c \in Clients, Serve(c)
  PROVE  ClientInv'
<1>0. Sane(c)
  BY Known
<1>1. Reached(c) /\ Execute(db, me[c].sock, Asked(c)) \in Executed(Fds)
  BY AskedIs DEF Serve
<1>2. PICK done \in Executed(Fds) : done = Execute(db, me[c].sock, Asked(c))
  BY <1>1
<1>3. db' = done.db /\ Answer(c, done.reply)
  BY <1>2 DEF Serve
<1>4. done.db \in Databases(Fds) /\ done.reply \in GoodAnswers
  BY DEF Executed
<1>. QED  BY <1>0, <1>1, <1>3, <1>4, AnswerStep DEF Serve, Sane

LEMMA ServeFailsStep ==
  ASSUME ClientInv, NEW c \in Clients, ServeFails(c)
  PROVE  ClientInv'
<1>0. Sane(c)
  BY Known
<1>1. Reached(c) /\ me[c].sock \in Fds
  BY AskedIs DEF ServeFails
<1>2. db' \in Databases(Fds)
  BY <1>0, <1>1, UsedIsDatabase DEF ServeFails, Sane
<1>3. faults' \in 0 .. MaxFaults /\ faults <= faults'
  BY <1>0, ClientConstants DEF ServeFails, OneFault, Sane
<1>. QED  BY <1>0, <1>1, <1>2, <1>3, AnswersAreGood, AnswerStep DEF ServeFails, Sane

LEMMA ServeUnsavedStep ==
  ASSUME ClientInv, NEW c \in Clients, ServeUnsaved(c)
  PROVE  ClientInv'
<1>0. Sane(c)
  BY Known
<1>1. Reached(c) /\ Execute(db, me[c].sock, Asked(c)) \in Executed(Fds)
  BY AskedIs DEF ServeUnsaved
<1>2. PICK done \in Executed(Fds) : done = Execute(db, me[c].sock, Asked(c))
  BY <1>1
<1>3. Answer(c, done.reply)
  BY <1>2 DEF ServeUnsaved
<1>4. done.reply \in GoodAnswers
  BY DEF Executed
<1>5. faults' \in 0 .. MaxFaults /\ faults <= faults'
  BY <1>0, ClientConstants DEF ServeUnsaved, OneFault, Sane
<1>. QED  BY <1>0, <1>1, <1>3, <1>4, <1>5, AnswerStep DEF ServeUnsaved, Sane

-----------------------------------------------------------------------------
(* The client reads. *)
LEMMA RestIs ==
  ASSUME ClientInv, NEW c \in Clients, Rest(c), wire[c].replies # <<>>
  PROVE  /\ wire'[c].sent = wire[c].sent /\ wire'[c].replies = Tail(wire[c].replies)
         /\ wire'[c] \in Wires(c) /\ Unserved(c)' = Unserved(c)
         /\ DOMAIN wire' = Clients /\ \A d \in Clients \ {c} : wire'[d] = wire[d]
<1>0. Sane(c)
  BY Known
<1>. USE <1>0 DEF Sane
<1>1. DOMAIN wire' = Clients /\ \A d \in Clients \ {c} : wire'[d] = wire[d]
  BY DEF Rest
<1>2. wire'[c] = [wire[c] EXCEPT !.replies = Tail(wire[c].replies)]
  BY DEF Rest
<1>3. Tail(wire[c].replies) \in Seq(Answers)
  BY HeadTailProperties
<1>4. wire'[c].sent = wire[c].sent /\ wire'[c].replies = Tail(wire[c].replies)
  BY <1>2 DEF Wires
<1>5. wire'[c] \in Wires(c)
  <2>1. ASSUME NEW w \in Wires(c), NEW t \in Seq(Answers)
        PROVE  [w EXCEPT !.replies = t] \in Wires(c)
    BY DEF Wires
  <2>2. wire[c] \in Wires(c)
    OBVIOUS
  <2>. HIDE DEF Sane
  <2>. QED  BY <1>2, <1>3, <2>1, <2>2
<1>. QED  BY <1>1, <1>4, <1>5 DEF Unserved

(* On a whole connection what passes for an answer is the call's own, and it *)
(* is the last thing under way.                                              *)
LEMMA FirstAnswer ==
  ASSUME ClientInv, NEW c \in Clients, Reading(c)
  PROVE  /\ Head(wire[c].replies) \in Answers /\ Read(c) \in GoodAnswers
         /\ ~OutOfStep(c) => /\ Tail(wire[c].replies) = <<>>
                             /\ me[c].selected => wire[c].sent = <<>>
         /\ ~OutOfStep(c) /\ Read(c) # Failed =>
              me[c].selected /\ executed[c] > 0 /\ Read(c) = answered[c]
<1>0. Sane(c)
  BY Known
<1>. DEFINE w == wire[c].replies
<1>1. Head(w) \in Answers /\ Read(c) \in GoodAnswers
  <2>1. Head(w) \in Answers
    BY <1>0, HeadTailProperties DEF Sane, Reading
  <2>. QED  BY <2>1 DEF Answers, Read
<1>2. me[c].pc = "sent" /\ w # <<>> /\ InStep(c)
  BY <1>0 DEF Sane, Reading, Linked, Whole, Torn
<1>3. me[c].request.op # "init"
  <2>1. me[c].request \in Calls(c)
    BY <1>0 DEF Sane, Types
  <2>. QED  BY <2>1, ClientConstants DEF Calls, CloseRequest, Operations
<1>4. InitDone # Failed
  BY DEF InitDone, Failed, Found
<1>. DEFINE ended == /\ ~OutOfStep(c) => /\ Tail(w) = <<>>
                                         /\ me[c].selected => wire[c].sent = <<>>
                     /\ ~OutOfStep(c) /\ Read(c) # Failed =>
                          me[c].selected /\ executed[c] > 0 /\ Read(c) = answered[c]
<1>5. CASE ~me[c].selected
  <2>1. PICK r \in GoodAnswers : w = << <<"init", r>> >>
    BY <1>2, <1>5 DEF InStep, Lates
  <2>2. Tail(w) = <<>> /\ Head(w) = <<"init", r>>
    BY <2>1, OneOrTwo
  <2>3. Token(c) = "init" /\ Read(c) = r
    BY <2>2 DEF Token, Read
  <2>. QED  BY <1>1, <1>3, <1>5, <2>2, <2>3 DEF OutOfStep
<1>6. ASSUME Head(w) = InitAnswer PROVE OutOfStep(c)
  <2>1. Token(c) = "init" /\ Read(c) = InitDone
    BY <1>6 DEF Token, Read, InitAnswer
  <2>. QED  BY <1>3, <1>4, <2>1 DEF OutOfStep
<1>7. CASE me[c].selected /\ wire[c].sent # <<>>
  <2>1. w = <<InitAnswer>>
    BY <1>2, <1>7 DEF InStep, Pending
  <2>2. Head(w) = InitAnswer
    BY <2>1, OneOrTwo
  <2>. QED  BY <1>1, <1>6, <2>2
<1>8. CASE me[c].selected /\ wire[c].sent = <<>>
  <2>1. executed[c] > 0 /\ w \in {<<OwnAnswer(c)>>, <<InitAnswer, OwnAnswer(c)>>}
    BY <1>2, <1>8 DEF InStep, Pending
  <2>2. CASE w = <<InitAnswer, OwnAnswer(c)>>
    <3>1. Head(w) = InitAnswer
      BY <2>2, OneOrTwo
    <3>. QED  BY <1>1, <1>6, <3>1
  <2>3. CASE w = <<OwnAnswer(c)>>
    <3>1. Head(w) = OwnAnswer(c) /\ Tail(w) = <<>>
      BY <2>3, OneOrTwo
    <3>2. Read(c) = answered[c]
      BY <3>1 DEF Read, OwnAnswer
    <3>. QED  BY <1>1, <1>8, <2>1, <3>1, <3>2
  <2>. QED  BY <2>1, <2>2, <2>3
<1>. QED  BY <1>5, <1>7, <1>8

LEMMA ReceiveStep ==
  ASSUME ClientInv, NEW c \in Clients, Receive(c)
  PROVE  ClientInv'
<1>0. Sane(c)
  BY Known
<1>1. /\ me[c].pc = "sent" /\ me[c].pc \in Busy /\ wire[c].replies # <<>> /\ Rest(c)
      /\ db' = db /\ calls' = calls /\ faults' = faults /\ unsaved' = unsaved
      /\ executed' = executed /\ answered' = answered /\ Reading(c)
      /\ IF OutOfStep(c) THEN IsCut(c) ELSE UNCHANGED cut
  BY DEF Receive, Busy, Reading
<1>2. /\ wire'[c].sent = wire[c].sent /\ wire'[c].replies = Tail(wire[c].replies)
      /\ wire'[c] \in Wires(c) /\ Unserved(c)' = Unserved(c)
      /\ DOMAIN wire' = Clients /\ \A d \in Clients \ {c} : wire'[d] = wire[d]
  BY <1>1, RestIs
<1>3. /\ ~OutOfStep(c) => /\ Tail(wire[c].replies) = <<>>
                          /\ me[c].selected => wire[c].sent = <<>>
      /\ ~OutOfStep(c) /\ Read(c) # Failed => executed[c] > 0 /\ Read(c) = answered[c]
      /\ Read(c) \in GoodAnswers
  BY <1>1, FirstAnswer
<1>3a. me[c].sock # None
  BY <1>0, <1>1 DEF Sane, Linked
<1>4. /\ cut' \in [Clients -> Nat] /\ \A d \in Clients \ {c} : cut'[d] = cut[d]
      /\ cut[c] \in Nat /\ cut'[c] \in Nat /\ cut[c] <= cut'[c]
      /\ OutOfStep(c) => cut'[c] = cut[c] + 1
  <2>1. cut \in [Clients -> Nat]
    BY <1>0 DEF Sane
  <2>2. CASE OutOfStep(c)
    BY <1>1, <2>1, <2>2 DEF IsCut
  <2>3. CASE ~OutOfStep(c)
    BY <1>1, <2>1, <2>3
  <2>. QED  BY <2>2, <2>3
<1>4a. ASSUME ~OutOfStep(c), me'[c].pc = "idle", me'[c].selected = me[c].selected
       PROVE  InStep(c)'
  <2>1. wire'[c].replies = <<>> /\ (me[c].selected => wire'[c].sent = <<>>)
    BY <1>2, <1>3, <1>4a
  <2>. QED  BY <1>4a, <2>1 DEF InStep, Pending, Lates
<1>5. ASSUME Leaves(c), me'[c].pc = "failed" => OutOfStep(c),
             me'[c].pc = "idle" => ~OutOfStep(c) /\ me'[c].selected = me[c].selected
      PROVE  ClientInv'
  <2>1. ~me[c].request.big /\ OutOfStep(c) => executed[c] + Unserved(c)' <= cut'[c]
    <3>1. Unserved(c) \in {0, 1} /\ executed[c] \in Nat
      BY <1>0 DEF Unserved, Sane
    <3>. QED  BY <1>0, <1>1, <1>2, <1>4, <3>1 DEF Sane, Counted
  <2>2. Local(c)'
    BY <1>0, <1>1, <1>2, <1>3a, <1>4, <1>4a, <1>5, <2>1, LeavesLocal DEF Sane
  <2>3. Turn(c)
    BY <1>0, <1>1, <1>2, <1>4, <1>5 DEF Sane, Turn, Leaves
  <2>. QED  BY <2>2, <2>3, OneClient
<1>6. CASE ~Accepted(c) /\ Fails(c, "proto")
  <2>1. Leaves(c) /\ me'[c].pc = "failed"
    BY <1>1, <1>6, FailsLeaves DEF Errors
  <2>. QED  BY <1>5, <1>6, <2>1 DEF Accepted
<1>7. CASE Accepted(c) /\ Fails(c, "error")
  <2>1. /\ Leaves(c) /\ me'[c].pc # "failed"
        /\ me'[c].pc = "idle" => me'[c].selected = me[c].selected
    BY <1>1, <1>7, FailsLeaves DEF Errors
  <2>. QED  BY <1>5, <1>7, <2>1 DEF Accepted
<1>8. CASE /\ Accepted(c) /\ Read(c) # Failed
           /\ Return(c, [me[c] EXCEPT !.err = "none", !.retval = Status(Read(c)), !.reply = Read(c)])
  <2>. DEFINE r == Read(c)
  <2>1. ~OutOfStep(c)
    BY <1>8 DEF Accepted
  <2>2. r \in GoodAnswers /\ executed[c] > 0 /\ r = answered[c]
    BY <1>3, <1>8, <2>1
  <2>3. r \in Replies /\ r.status # "error" /\ Status(r) \in {0, 1}
    BY <1>8, <2>2 DEF GoodAnswers, Status
  <2>4. /\ executed'[c] = executed[c] /\ answered'[c] = answered[c]
        /\ executed[c] \in Nat /\ me[c] \in Types(c) /\ DOMAIN me = Clients
    BY <1>0, <1>1 DEF Sane
  <2>. HIDE DEF r
  <2>5. CASE me[c].request = CloseRequest
    <3>1. ASSUME NEW m \in Types(c)
          PROVE  [m EXCEPT !.err = "none", !.retval = Status(r), !.reply = r].request = m.request
      BY DEF Types
    <3>2. me' = [me EXCEPT ![c] = Closed]
      BY <1>8, <2>4, <2>5, <3>1 DEF Return, r
    <3>3. Leaves(c) /\ me'[c].pc = "closed"
      <4>1. me'[c] = Closed /\ DOMAIN me' = Clients /\ \A d \in Clients \ {c} : me'[d] = me[d]
        BY <2>4, <3>2
      <4>2. ~Closed.selected
        BY Zenon DEF Fresh, Closed
      <4>3. /\ Closed.pc = "closed" /\ Closed.retval = -1 /\ Closed.request = CloseRequest
            /\ Closed.sock = None
        BY DEF Fresh, Closed
      <4>. QED  BY <4>1, <4>2, <4>3, ClosedTypes DEF Leaves
    <3>. QED  BY <1>5, <3>3
  <2>6. CASE me[c].request # CloseRequest
    <3>1. ASSUME NEW m \in Types(c)
          PROVE  [m EXCEPT !.err = "none", !.retval = Status(r), !.reply = r].request = m.request
      BY DEF Types
    <3>2. me' = [me EXCEPT ![c] =
                   [[me[c] EXCEPT !.err = "none", !.retval = Status(r), !.reply = r]
                      EXCEPT !.pc = "idle"]]
      BY <1>8, <2>4, <2>6, <3>1 DEF Return, r
    <3>3. ASSUME NEW m \in Types(c), NEW n,
                 n = [[m EXCEPT !.err = "none", !.retval = Status(r), !.reply = r]
                        EXCEPT !.pc = "idle"]
          PROVE  /\ n \in Types(c) /\ n.pc = "idle" /\ n.err = "none" /\ n.retval = Status(r)
                 /\ n.reply = r /\ n.sock = m.sock /\ n.selected = m.selected
                 /\ n.request = m.request
      BY <2>3, <3>3 DEF Types, Errors
    <3>4. /\ me'[c] \in Types(c) /\ me'[c].pc = "idle" /\ me'[c].err = "none"
          /\ me'[c].retval = Status(r) /\ me'[c].reply = r /\ me'[c].sock = me[c].sock
          /\ me'[c].selected = me[c].selected /\ me'[c].request = me[c].request
      BY <2>4, <3>2, <3>3
    <3>5. DOMAIN me' = Clients /\ \A d \in Clients \ {c} : me'[d] = me[d]
      BY <2>4, <3>2
    <3>6. Turn(c)
      BY <1>0, <1>1, <1>2, <1>4, <3>4, <3>5 DEF Sane, Turn
    <3>7. Linked(c)'
      BY <1>3a, <3>4 DEF Linked
    <3>8. Counted(c)'
      BY <1>0, <1>1, <1>4, <2>4, <3>4 DEF Sane, Counted
    <3>9. Own(c)'
      BY <2>2, <2>3, <2>4, <3>4 DEF Own, Busy
    <3>10. InStep(c)'
      BY <1>4a, <2>1, <3>4
    <3>. QED  BY <1>2, <3>4, <3>6, <3>7, <3>8, <3>9, <3>10, OneClient DEF Local, Types, Wires
  <2>. QED  BY <2>5, <2>6
<1>. QED  BY <1>6, <1>7, <1>8 DEF Receive

LEMMA TearStep ==
  ASSUME ClientInv, NEW c \in Clients, Tear(c)
  PROVE  ClientInv'
<1>0. Sane(c)
  BY Known
<1>1. /\ me[c].pc = "sent" /\ me[c].pc \in Busy /\ wire[c].replies # <<>> /\ Rest(c)
      /\ db' = db /\ calls' = calls /\ unsaved' = unsaved
      /\ executed' = executed /\ answered' = answered /\ cut' = cut
      /\ faults' \in 0 .. MaxFaults /\ faults <= faults'
  BY <1>0, ClientConstants DEF Tear, Reading, Busy, OneFault, history, Sane
<1>2. /\ wire'[c] \in Wires(c)
      /\ DOMAIN wire' = Clients /\ \A d \in Clients \ {c} : wire'[d] = wire[d]
  BY <1>1, RestIs
<1>3. me[c].sock # None
  BY <1>0, <1>1 DEF Sane, Linked
<1>4. Leaves(c) /\ me'[c].pc # "failed" /\ ~Whole(c)'
  <2>1. PICK torn \in BOOLEAN, lost \in BOOLEAN :
          /\ torn \/ lost
          /\ Return(c, [me[c] EXCEPT !.err = "error", !.torn = torn, !.lost = lost])
    <3>1. me[c] \in Types(c) /\ ~me[c].torn /\ ~me[c].lost
      BY <1>0, <1>1 DEF Sane, Linked, Tear, Reading, Torn
    <3>2. ASSUME NEW m \in Types(c), ~m.torn, ~m.lost
          PROVE  /\ [m EXCEPT !.err = "error", !.torn = TRUE]
                     = [m EXCEPT !.err = "error", !.torn = TRUE, !.lost = FALSE]
                 /\ [m EXCEPT !.err = "error", !.lost = TRUE]
                     = [m EXCEPT !.err = "error", !.torn = FALSE, !.lost = TRUE]
      BY <3>2 DEF Types
    <3>3. \/ Return(c, [me[c] EXCEPT !.err = "error", !.torn = TRUE])
          \/ Return(c, [me[c] EXCEPT !.err = "error", !.lost = TRUE])
      BY DEF Tear
    <3>. QED  BY <3>1, <3>2, <3>3
  <2>2. ASSUME NEW m \in Types(c), NEW n,
               n = [m EXCEPT !.err = "error", !.torn = torn, !.lost = lost]
        PROVE  /\ n \in Types(c) /\ n.retval = m.retval /\ n.sock = m.sock
               /\ n.selected = m.selected /\ n.request = m.request
               /\ n.torn = torn /\ n.lost = lost
    BY <2>2 DEF Types, Errors
  <2>3. me[c] \in Types(c) /\ me[c].retval = -1
    BY <1>0, <1>1 DEF Sane, Own
  <2>4. PICK m \in Types(c) : m = [me[c] EXCEPT !.err = "error", !.torn = torn, !.lost = lost]
    BY <2>2, <2>3
  <2>5. /\ m.retval = -1 /\ m.sock = me[c].sock /\ m.selected = me[c].selected
        /\ m.request = me[c].request /\ m.torn = torn /\ m.lost = lost
    BY <2>2, <2>3, <2>4
  <2>6. /\ Leaves(c) /\ me'[c].pc # "failed"
        /\ me'[c].pc = "idle" => me'[c].torn = torn /\ me'[c].lost = lost
    BY <2>1, <2>4, <2>5, ReturnLeaves
  <2>7. me'[c].pc \in {"idle", "closed"}
    BY <2>6 DEF Leaves
  <2>. QED  BY <2>1, <2>6, <2>7 DEF Whole
<1>5. Local(c)'
  BY <1>0, <1>1, <1>2, <1>3, <1>4, LeavesLocal DEF Sane
<1>6. Turn(c)
  BY <1>0, <1>1, <1>2, <1>4 DEF Sane, Turn, Leaves
<1>. QED  BY <1>5, <1>6, OneClient

(* What is read from a torn connection leaves it torn. *)
LEMMA NoiseStep ==
  ASSUME ClientInv, NEW c \in Clients, Noise(c)
  PROVE  ClientInv'
<1>0. Sane(c)
  BY Known
<1>1. /\ me[c].pc = "sent" /\ me[c].pc \in Busy /\ me[c].torn /\ wire' = wire
      /\ db' = db /\ calls' = calls /\ unsaved' = unsaved /\ faults' = faults
      /\ executed' = executed /\ answered' = answered
  BY DEF Noise, Busy, Torn
<1>2. me[c].sock # None
  BY <1>0, <1>1 DEF Sane, Linked
<1>3. CASE Fails(c, "proto") /\ IsCut(c)
  <2>1. faults' \in 0 .. MaxFaults /\ faults <= faults'
    BY <1>0, <1>1 DEF Sane
  <2>. QED  BY <1>1, <1>2, <1>3, <2>1, CutStep
<1>4. ASSUME Leaves(c), cut' = cut, me'[c].pc # "failed", me'[c].pc = "idle" => me'[c].torn
      PROVE  ClientInv'
  <2>1. Local(c)'
    BY <1>0, <1>1, <1>2, <1>4, LeavesLocal DEF Sane, Whole
  <2>2. Turn(c)
    BY <1>0, <1>1, <1>4 DEF Sane, Turn, Leaves
  <2>. QED  BY <2>1, <2>2, OneClient
<1>5. CASE Fails(c, "error") /\ cut' = cut
  <2>1. /\ Leaves(c) /\ me'[c].pc # "failed"
        /\ me'[c].pc = "idle" => me'[c].torn = me[c].torn
    BY <1>1, <1>5, FailsLeaves DEF Errors
  <2>. QED  BY <1>1, <1>4, <1>5, <2>1
<1>6. ASSUME NEW r \in {Found(None, None), NotFound}, cut' = cut,
             Return(c, [me[c] EXCEPT !.err = "none", !.retval = Status(r), !.reply = r])
      PROVE  ClientInv'
  <2>1. r \in Replies /\ Status(r) \in {0, 1}
    BY AnswersAreGood DEF GoodAnswers, Status
  <2>2. me[c] \in Types(c) /\ DOMAIN me = Clients
    BY <1>0 DEF Sane
  <2>. DEFINE n == [me[c] EXCEPT !.err = "none", !.retval = Status(r), !.reply = r]
  <2>3. ASSUME NEW m \in Types(c), NEW x,
               x = [m EXCEPT !.err = "none", !.retval = Status(r), !.reply = r]
        PROVE  /\ x \in Types(c) /\ x.request = m.request /\ x.err = "none"
               /\ x.retval = Status(r) /\ x.reply = r /\ x.sock = m.sock
               /\ x.selected = m.selected /\ x.torn = m.torn /\ x.lost = m.lost
    BY <2>1, <2>3 DEF Types, Errors
  <2>4. /\ n \in Types(c) /\ n.request = me[c].request /\ n.err = "none"
        /\ n.retval = Status(r) /\ n.reply = r /\ n.sock = me[c].sock
        /\ n.selected = me[c].selected /\ n.torn = me[c].torn
    BY <2>2, <2>3
  <2>5. Return(c, n)
    BY <1>6
  <2>. HIDE DEF n
  <2>6. CASE n.request = CloseRequest
    <3>1. me'[c] = Closed /\ DOMAIN me' = Clients /\ \A d \in Clients \ {c} : me'[d] = me[d]
      BY <2>2, <2>5, <2>6 DEF Return
    <3>2. ~Closed.selected
      BY Zenon DEF Fresh, Closed
    <3>3. /\ Closed.pc = "closed" /\ Closed.retval = -1 /\ Closed.request = CloseRequest
          /\ Closed.sock = None
      BY DEF Fresh, Closed
    <3>4. Leaves(c)
      BY <3>1, <3>2, <3>3, ClosedTypes DEF Leaves
    <3>. QED  BY <1>4, <1>6, <3>1, <3>3, <3>4
  <2>7. CASE n.request # CloseRequest
    <3>1. me' = [me EXCEPT ![c] = [n EXCEPT !.pc = "idle"]]
      BY <2>5, <2>7 DEF Return
    <3>2. /\ me'[c] = [n EXCEPT !.pc = "idle"] /\ DOMAIN me' = Clients
          /\ \A d \in Clients \ {c} : me'[d] = me[d]
      BY <2>2, <3>1
    <3>3. /\ me'[c] \in Types(c) /\ me'[c].pc = "idle" /\ me'[c].err = "none"
          /\ me'[c].retval = Status(r) /\ me'[c].reply = r /\ me'[c].sock = me[c].sock
          /\ me'[c].selected = me[c].selected /\ me'[c].request = me[c].request
          /\ me'[c].torn
      BY <1>1, <2>4, <3>2 DEF Types
    <3>4. Turn(c)
      BY <1>0, <1>1, <1>6, <3>2, <3>3 DEF Sane, Turn
    <3>5. Linked(c)'
      BY <1>2, <3>3 DEF Linked
    <3>6. Counted(c)'
      BY <1>0, <1>1, <1>6, <3>3 DEF Sane, Counted
    <3>7. Own(c)'
      BY <3>3 DEF Own, Busy, Torn
    <3>. QED  BY <1>0, <1>1, <3>3, <3>4, <3>5, <3>6, <3>7, OneClient
              DEF Local, Types, Wires, Whole, Sane
  <2>. QED  BY <2>6, <2>7
<1>. QED  BY <1>3, <1>5, <1>6 DEF Noise

-----------------------------------------------------------------------------
(* The rest of a round: on a new connection, or without one.                 *)
LEMMA RoundStep ==
  ASSUME ClientInv, NEW c \in Clients, me[c].pc = "failed", NEW m \in Types(c), Round(c, m),
         m.retval = -1, m.errs = me[c].errs, m.request = me[c].request,
         m.selected => m.sock # None, m.sock \in Free(c) \cup {None}, NEW late \in Lates,
         m.sock = None => late = <<>>,
         m.selected /\ ~m.torn /\ ~m.lost => late \in {<<>>, <<InitAnswer>>},
         wire' = [wire EXCEPT ![c] = [sent |-> <<>>, replies |-> late]],
         db' = db, calls' = calls, unsaved' = unsaved, executed' = executed,
         cut' = cut, answered' = answered, faults' \in 0 .. MaxFaults, faults <= faults'
  PROVE  ClientInv'
<1>0. Sane(c)
  BY Known
<1>1. me[c].errs \in Nat /\ me[c].errs < MaxTries /\ MaxTries \in Nat \ {0} /\ DOMAIN me = Clients
  BY <1>0 DEF Sane, Own, Busy, Types
<1>2. /\ DOMAIN me' = Clients /\ \A d \in Clients \ {c} : me'[d] = me[d]
      /\ me'[c] \in Types(c) /\ me'[c].pc \in {"try", "idle", "closed"} /\ me'[c].retval = -1
      /\ me'[c].pc = "try" => me'[c].errs < MaxTries
      /\ me'[c].request \in {me[c].request, CloseRequest}
      /\ me'[c].sock \in Free(c) \cup {None}
      /\ me'[c].selected => me'[c].sock # None
      /\ me'[c].pc # "closed" =>
           /\ me'[c].sock = m.sock /\ me'[c].selected = m.selected
           /\ me'[c].torn = m.torn /\ me'[c].lost = m.lost
  <2>1. CASE me[c].errs + 1 # MaxTries
    <3>1. me' = [me EXCEPT ![c] = [m EXCEPT !.pc = "try", !.errs = me[c].errs + 1]]
      BY <1>1, <2>1 DEF Round
    <3>2. me[c].errs + 1 \in 0 .. MaxTries /\ me[c].errs + 1 < MaxTries
      BY <1>1, <2>1
    <3>. QED  BY <1>1, <3>1, <3>2 DEF Types
  <2>2. CASE me[c].errs + 1 = MaxTries
    <3>1. Return(c, [m EXCEPT !.errs = MaxTries])
      BY <2>2 DEF Round
    <3>2. MaxTries \in 0 .. MaxTries
      BY <1>1
    <3>3. CASE m.request = CloseRequest
      <4>1. me' = [me EXCEPT ![c] = Closed]
        BY <3>1, <3>3 DEF Return, Types
      <4>2. ~Closed.selected
        BY Zenon DEF Fresh, Closed
      <4>3. /\ Closed.pc = "closed" /\ Closed.retval = -1 /\ Closed.request = CloseRequest
            /\ Closed.sock = None
        BY DEF Fresh, Closed
      <4>. QED  BY <1>1, <4>1, <4>2, <4>3, ClosedTypes
    <3>4. CASE m.request # CloseRequest
      <4>1. me' = [me EXCEPT ![c] = [[m EXCEPT !.errs = MaxTries] EXCEPT !.pc = "idle"]]
        BY <3>1, <3>4 DEF Return, Types
      <4>. QED  BY <1>1, <3>2, <4>1 DEF Types
    <3>. QED  BY <3>3, <3>4
  <2>. QED  BY <2>1, <2>2
<1>3. /\ wire'[c] = [sent |-> <<>>, replies |-> late]
      /\ DOMAIN wire' = Clients /\ \A d \in Clients \ {c} : wire'[d] = wire[d]
  BY <1>0 DEF Sane
<1>4. /\ wire'[c] \in Wires(c) /\ wire'[c].sent = <<>> /\ wire'[c].replies = late
      /\ m.sock = None => wire'[c] = Quiet
  <2>1. ASSUME NEW r \in GoodAnswers PROVE << <<"init", r>> >> \in Seq(Answers)
    <3>1. <<"init", r>> \in Answers
      BY DEF Answers, Tokens
    <3>. QED  BY <3>1
  <2>2. late \in Seq(Answers)
    <3>1. late = <<>> \/ \E r \in GoodAnswers : late = << <<"init", r>> >>
      BY Zenon DEF Lates
    <3>2. <<>> \in Seq(Answers)
      OBVIOUS
    <3>. QED  BY <2>1, <3>1, <3>2
  <2>3. wire'[c] \in Wires(c)
    BY <1>3, <2>2 DEF Wires
  <2>4. m.sock = None => wire'[c] = Quiet
    BY <1>3 DEF Quiet
  <2>. QED  BY <1>3, <2>3, <2>4
<1>6. Turn(c)
  BY <1>0, <1>2, <1>3 DEF Sane, Turn
<1>7. Linked(c)'
  BY <1>2, <1>4 DEF Linked
<1>8. Counted(c)'
  <2>1. /\ me[c].request.big => executed[c] = 0
        /\ ~me[c].request.big => executed[c] + Unserved(c) <= cut[c]
        /\ executed[c] <= 1 + cut[c]
        /\ executed[c] \in Nat /\ cut[c] \in Nat /\ Unserved(c) \in Nat
    BY <1>0 DEF Sane, Counted, Unserved
  <2>2. ~CloseRequest.big
    BY DEF CloseRequest
  <2>3. executed[c] <= cut[c]
    <3>1. CASE me[c].request.big
      BY <2>1, <3>1
    <3>2. CASE ~me[c].request.big
      BY <2>1, <3>2
    <3>. QED  BY <3>1, <3>2
  <2>. QED  BY <1>2, <2>1, <2>2, <2>3 DEF Counted
<1>9. Own(c)'
  BY <1>2, <1>4 DEF Own, Busy
<1>10. Whole(c)' => InStep(c)'
  BY <1>2, <1>4 DEF Whole, InStep, Pending
<1>. QED  BY <1>2, <1>4, <1>6, <1>7, <1>8, <1>9, <1>10, OneClient DEF Local, Types, Wires

LEMMA ReconnectStep ==
  ASSUME ClientInv, NEW c \in Clients, Reconnect(c)
  PROVE  ClientInv'
<1>0. Sane(c)
  BY Known
<1>1. PICK fd \in Free(c) :
        Round(c, [me[c] EXCEPT !.err = "none", !.sock = fd, !.selected = TRUE,
                               !.lost = FALSE, !.torn = FALSE])
  BY DEF Reconnect
<1>2. ASSUME NEW m \in Types(c), NEW n,
             n = [m EXCEPT !.err = "none", !.sock = fd, !.selected = TRUE,
                           !.lost = FALSE, !.torn = FALSE]
      PROVE  n \in Types(c) /\ n.retval = m.retval /\ n.errs = m.errs /\ n.sock = fd /\ n.request = m.request
  BY <1>0, <1>2 DEF Types, Errors, Sane
<1>3. me[c] \in Types(c) /\ me[c].retval = -1 /\ me[c].pc = "failed"
  BY <1>0 DEF Sane, Own, Busy, Reconnect
<1>4. PICK n \in Types(c) :
        n = [me[c] EXCEPT !.err = "none", !.sock = fd, !.selected = TRUE,
                          !.lost = FALSE, !.torn = FALSE]
  BY <1>2, <1>3
<1>5. n.retval = -1 /\ n.errs = me[c].errs /\ n.sock = fd /\ n.request = me[c].request /\ fd # None
  BY <1>0, <1>2, <1>3, <1>4 DEF Sane
<1>6. faults' \in 0 .. MaxFaults /\ faults <= faults'
  BY <1>0 DEF Sane, Reconnect
<1>7. <<>> \in Lates /\ Quiet = [sent |-> <<>>, replies |-> <<>>]
  BY DEF Lates, Quiet
<1>. QED  BY <1>1, <1>3, <1>4, <1>5, <1>6, <1>7, RoundStep DEF Reconnect, history

LEMMA ReconnectFailsStep ==
  ASSUME ClientInv, NEW c \in Clients, ReconnectFails(c)
  PROVE  ClientInv'
<1>0. Sane(c)
  BY Known
<1>1. Round(c, [me[c] EXCEPT !.err = "error", !.sock = None, !.selected = FALSE,
                             !.lost = FALSE, !.torn = FALSE])
  BY DEF ReconnectFails
<1>2. ASSUME NEW m \in Types(c), NEW n,
             n = [m EXCEPT !.err = "error", !.sock = None, !.selected = FALSE,
                           !.lost = FALSE, !.torn = FALSE]
      PROVE  /\ n \in Types(c) /\ n.retval = m.retval /\ n.errs = m.errs /\ n.sock = None /\ n.selected = FALSE
             /\ n.request = m.request
  BY <1>2 DEF Types, Errors
<1>3. me[c] \in Types(c) /\ me[c].retval = -1 /\ me[c].pc = "failed"
  BY <1>0 DEF Sane, Own, Busy, ReconnectFails
<1>4. PICK n \in Types(c) :
        n = [me[c] EXCEPT !.err = "error", !.sock = None, !.selected = FALSE,
                          !.lost = FALSE, !.torn = FALSE]
  BY <1>2, <1>3
<1>5. n.retval = -1 /\ n.errs = me[c].errs /\ n.sock = None /\ n.request = me[c].request /\ ~n.selected
  BY <1>2, <1>3, <1>4
<1>6. faults' \in 0 .. MaxFaults /\ faults <= faults'
  BY <1>0, ClientConstants DEF Sane, ReconnectFails, OneFault
<1>7. <<>> \in Lates /\ Quiet = [sent |-> <<>>, replies |-> <<>>]
  BY DEF Lates, Quiet
<1>. QED  BY <1>1, <1>3, <1>4, <1>5, <1>6, <1>7, RoundStep DEF ReconnectFails, history

LEMMA OutcomesAre ==
  ASSUME NEW o \in Outcomes
  PROVE  /\ o.err \in Errors /\ o.selected \in BOOLEAN /\ o.lost \in BOOLEAN /\ o.torn \in BOOLEAN
         /\ o.late \in Lates
         /\ o.selected /\ ~o.torn /\ ~o.lost => o.late \in {<<>>, <<InitAnswer>>}
<1>1. <<>> \in Lates
  BY DEF Lates
<1>2. CASE \E e \in {"nope", "error", "close"} : o = Outcome(e, FALSE, FALSE, FALSE, <<>>)
  BY <1>1, <1>2 DEF Outcome, Errors
<1>3. CASE \E r \in {InitDone, NotFound, Failed} :
             o = Outcome("close", r = InitDone, FALSE, FALSE, << <<"init", r>> >>)
  <2>1. PICK r \in {InitDone, NotFound, Failed} :
          o = Outcome("close", r = InitDone, FALSE, FALSE, << <<"init", r>> >>)
    BY <1>3
  <2>2. 0 \in Values
    BY TableConstants DEF Values
  <2>3. r \in GoodAnswers
    BY <2>2, AnswersAreGood DEF InitDone
  <2>4. << <<"init", r>> >> \in Lates
    BY <2>3 DEF Lates
  <2>. DEFINE b == r = InitDone
              l == << <<"init", r>> >>
  <2>5. b \in BOOLEAN /\ (b => l = <<InitAnswer>>) /\ l \in Lates
    BY <2>4 DEF InitAnswer
  <2>6. o = Outcome("close", b, FALSE, FALSE, l)
    BY <2>1
  <2>. HIDE DEF b, l
  <2>7. /\ o.err = "close" /\ o.selected = b /\ o.lost = FALSE /\ o.torn = FALSE /\ o.late = l
    BY <2>6 DEF Outcome
  <2>. QED  BY <2>5, <2>7 DEF Errors
<1>4. CASE \E e \in {"error", "close"}, s \in BOOLEAN : o = Outcome(e, s, FALSE, TRUE, <<>>)
  BY <1>1, <1>4 DEF Outcome, Errors
<1>5. CASE \E e \in {"error", "close"} : o = Outcome(e, TRUE, TRUE, FALSE, <<>>)
  BY <1>1, <1>5 DEF Outcome, Errors
<1>6. \/ \E e \in {"nope", "error", "close"} : o = Outcome(e, FALSE, FALSE, FALSE, <<>>)
      \/ \E r \in {InitDone, NotFound, Failed} :
           o = Outcome("close", r = InitDone, FALSE, FALSE, << <<"init", r>> >>)
      \/ \E e \in {"error", "close"}, s \in BOOLEAN : o = Outcome(e, s, FALSE, TRUE, <<>>)
      \/ \E e \in {"error", "close"} : o = Outcome(e, TRUE, TRUE, FALSE, <<>>)
  <2>. DEFINE A == {Outcome(e, FALSE, FALSE, FALSE, <<>>) : e \in {"nope", "error", "close"}}
              B == {Outcome("close", r = InitDone, FALSE, FALSE, << <<"init", r>> >>) :
                      r \in {InitDone, NotFound, Failed}}
              C == {Outcome("error", s, FALSE, TRUE, <<>>) : s \in BOOLEAN}
              E == {Outcome("close", s, FALSE, TRUE, <<>>) : s \in BOOLEAN}
              D == {Outcome(e, TRUE, TRUE, FALSE, <<>>) : e \in {"error", "close"}}
  <2>1. o \in A \cup B \cup C \cup E \cup D
    BY DEF Outcomes
  <2>2. o \in A => \E e \in {"nope", "error", "close"} : o = Outcome(e, FALSE, FALSE, FALSE, <<>>)
    OBVIOUS
  <2>3. o \in B => \E r \in {InitDone, NotFound, Failed} :
                      o = Outcome("close", r = InitDone, FALSE, FALSE, << <<"init", r>> >>)
    OBVIOUS
  <2>4. o \in C \cup E =>
          \E e \in {"error", "close"}, s \in BOOLEAN : o = Outcome(e, s, FALSE, TRUE, <<>>)
    OBVIOUS
  <2>5. o \in D => \E e \in {"error", "close"} : o = Outcome(e, TRUE, TRUE, FALSE, <<>>)
    OBVIOUS
  <2>. HIDE DEF A, B, C, D, E
  <2>. QED  BY <2>1, <2>2, <2>3, <2>4, <2>5
<1>. QED  BY <1>2, <1>3, <1>4, <1>5, <1>6

LEMMA ReselectFailsStep ==
  ASSUME ClientInv, NEW c \in Clients, ReselectFails(c)
  PROVE  ClientInv'
<1>0. Sane(c)
  BY Known
<1>1. PICK fd \in Free(c), o \in Outcomes :
        /\ Round(c, [me[c] EXCEPT !.err = o.err, !.sock = fd, !.selected = o.selected,
                                  !.lost = o.lost, !.torn = o.torn])
        /\ wire' = [wire EXCEPT ![c] = [sent |-> <<>>, replies |-> o.late]]
  BY DEF ReselectFails
<1>1a. /\ o.err \in Errors /\ o.selected \in BOOLEAN /\ o.lost \in BOOLEAN /\ o.torn \in BOOLEAN
       /\ o.late \in Lates
       /\ o.selected /\ ~o.torn /\ ~o.lost => o.late \in {<<>>, <<InitAnswer>>}
  BY OutcomesAre
<1>2. ASSUME NEW m \in Types(c), NEW n,
             n = [m EXCEPT !.err = o.err, !.sock = fd, !.selected = o.selected,
                           !.lost = o.lost, !.torn = o.torn]
      PROVE  /\ n \in Types(c) /\ n.retval = m.retval /\ n.errs = m.errs /\ n.sock = fd
             /\ n.request = m.request /\ n.selected = o.selected /\ n.torn = o.torn /\ n.lost = o.lost
  <2>1. fd \in Fds
    BY <1>0 DEF Sane
  <2>. QED  BY <1>1a, <1>2, <2>1 DEF Types
<1>3. me[c] \in Types(c) /\ me[c].retval = -1 /\ me[c].pc = "failed"
  BY <1>0 DEF Sane, Own, Busy, ReselectFails
<1>4. PICK n \in Types(c) :
        n = [me[c] EXCEPT !.err = o.err, !.sock = fd, !.selected = o.selected,
                          !.lost = o.lost, !.torn = o.torn]
  BY <1>2, <1>3
<1>5. /\ n.retval = -1 /\ n.errs = me[c].errs /\ n.sock = fd /\ n.request = me[c].request
      /\ n.selected = o.selected /\ n.torn = o.torn /\ n.lost = o.lost /\ fd # None
  BY <1>0, <1>2, <1>3, <1>4 DEF Sane
<1>6. faults' \in 0 .. MaxFaults /\ faults <= faults'
  BY <1>0, ClientConstants DEF Sane, ReselectFails, OneFault
<1>7. Round(c, n)
  BY <1>1, <1>4
<1>. QED  BY <1>1, <1>1a, <1>3, <1>5, <1>6, <1>7, RoundStep DEF ReselectFails, history

-----------------------------------------------------------------------------
LEMMA Steps ==
  ASSUME ClientInv, [Next]_vars
  PROVE  ClientInv'
<1>1. CASE UNCHANGED vars
  <2>1. Shape'
    BY <1>1 DEF vars, ClientInv, Shape
  <2>2. ASSUME NEW c \in Clients PROVE Local(c)'
    <3>1. Local(c)
      BY DEF ClientInv
    <3>2. /\ me' = me /\ wire' = wire /\ executed' = executed /\ cut' = cut /\ answered' = answered
      BY <1>1 DEF vars
    <3>. QED  BY <3>1, <3>2
              DEF Local, Types, Wires, Linked, Counted, Unserved, Own, Torn, Whole, InStep,
                  Pending, OwnAnswer
  <2>. QED  BY <2>1, <2>2 DEF ClientInv
<1>2. CASE Next
  <2>1. PICK c \in Clients :
          \/ Connect(c) \/ Abort(c)
          \/ \E q \in Requests[c] : Call(c, q)
          \/ Send(c) \/ TooBig(c) \/ CutOff(c) \/ Skip(c) \/ Refuses(c)
          \/ Serve(c) \/ ServeFails(c) \/ ServeUnsaved(c)
          \/ Receive(c) \/ Tear(c) \/ Noise(c)
          \/ Reconnect(c) \/ ReconnectFails(c) \/ ReselectFails(c)
    BY <1>2 DEF Next
  <2>2. CASE Connect(c) \/ Abort(c) \/ \E q \in Requests[c] : Call(c, q)
    BY <2>2, ConnectStep, AbortStep, CallStep
  <2>3. CASE Send(c) \/ TooBig(c) \/ CutOff(c) \/ Skip(c) \/ Refuses(c)
    BY <2>3, SendStep, TooBigStep, CutOffStep, SkipStep, RefusesStep
  <2>4. CASE Serve(c) \/ ServeFails(c) \/ ServeUnsaved(c)
    BY <2>4, ServeStep, ServeFailsStep, ServeUnsavedStep
  <2>5. CASE Receive(c) \/ Tear(c) \/ Noise(c)
    BY <2>5, ReceiveStep, TearStep, NoiseStep
  <2>6. CASE Reconnect(c) \/ ReconnectFails(c) \/ ReselectFails(c)
    BY <2>6, ReconnectStep, ReconnectFailsStep, ReselectFailsStep
  <2>. QED  BY <2>1, <2>2, <2>3, <2>4, <2>5, <2>6
<1>. QED  BY <1>1, <1>2

(* The invariant holds of every state of the clients and of dbmsd. *)
THEOREM ClientInvariant == Spec => []ClientInv
<1>1. Init => ClientInv
  BY Begins
<1>2. ClientInv /\ [Next]_vars => ClientInv'
  BY Steps
<1>. QED  BY <1>1, <1>2, PTL DEF Spec

(* The variables of the clients keep their types, a descriptor belongs to    *)
(* one connection, and no call of dbms_comms makes more than MaxTries        *)
(* rounds.                                                                   *)
THEOREM ClientTypes == Spec => []TypeOK
<1>1. ClientInv => TypeOK
  <2>. SUFFICES ASSUME ClientInv PROVE TypeOK
    OBVIOUS
  <2>1. ASSUME NEW c \in Clients
        PROVE  /\ me[c] \in Types(c) /\ wire[c].sent \in Seq(Calls(c))
               /\ wire[c].replies \in Seq(Tokens \X Replies)
               /\ me[c].pc \in {"try", "sent", "failed"} => me[c].errs < MaxTries
    <3>1. Sane(c)
      BY Known
    <3>2. Answers \subseteq Tokens \X Replies
      BY DEF Answers, GoodAnswers
    <3>3. wire[c].replies \in Seq(Tokens \X Replies)
      <4>1. ASSUME NEW S, NEW T, S \subseteq T, NEW r \in Seq(S)
            PROVE  r \in Seq(T)
        BY <4>1
      <4>. QED  BY <3>1, <3>2, <4>1 DEF Sane
    <3>5. me[c].pc \in {"try", "sent", "failed"} => me[c].errs < MaxTries
      BY <3>1 DEF Sane, Own, Busy
    <3>. QED  BY <3>1, <3>3, <3>5 DEF Sane
  <2>. QED  BY <2>1 DEF ClientInv, Shape, TypeOK
<1>. QED  BY <1>1, ClientInvariant, PTL

(* A request is executed at most once more often than exchanges of its call  *)
(* were cut off, by a signal or by the end of the connection: dbms_comms     *)
(* repeats it only on a connection it has just opened.                       *)
THEOREM RequestsAreCounted == Spec => []ExecutedPerConnection
<1>1. ClientInv => ExecutedPerConnection
  BY DEF ClientInv, Local, Counted, ExecutedPerConnection
<1>. QED  BY <1>1, ClientInvariant, PTL

(* dbms_comms hands out the answer to the last execution of its own request, *)
(* whatever broke, unless a signal once cut off an answer of the connection  *)
(* in its middle; and the call of the backend succeeds exactly when that     *)
(* execution found what it was to find.                                      *)
THEOREM AnswersAreOwn == Spec => []AnswerIsOwn
<1>1. ClientInv => AnswerIsOwn
  <2>. SUFFICES ASSUME ClientInv, NEW c \in Clients, me[c].pc = "idle", ~Torn(c)
                PROVE  IsOwn(c)
    BY DEF AnswerIsOwn
  <2>1. Own(c) /\ me[c].retval \in {-1, 0, 1}
    BY Known DEF Sane, Types
  <2>2. CASE me[c].retval = -1
    <3>1. BackendResult(me[c]) # "ok"
      <4>1. CASE me[c].err # "none"
        BY <2>2, <4>1 DEF BackendResult
      <4>2. CASE me[c].err = "none"
        BY <2>2, <4>2 DEF BackendResult
      <4>. QED  BY <4>1, <4>2
    <3>. QED  BY <2>2, <3>1 DEF IsOwn
  <2>3. CASE me[c].retval # -1
    <3>1. /\ me[c].err = "none" /\ me[c].retval = Status(me[c].reply)
          /\ executed[c] > 0 /\ me[c].reply = answered[c] /\ answered[c].status # "error"
          /\ me[c].retval \in {0, 1} /\ me[c].retval >= 0
      BY <2>1, <2>3 DEF Own
    <3>2. CASE me[c].retval = 0
      BY <3>1, <3>2 DEF BackendResult, Status, IsOwn
    <3>3. CASE me[c].retval = 1
      BY <3>1, <3>3 DEF BackendResult, Status, IsOwn
    <3>. QED  BY <3>1, <3>2, <3>3
  <2>. QED  BY <2>2, <2>3
<1>. QED  BY <1>1, ClientInvariant, PTL

-----------------------------------------------------------------------------
(* Scans.  While a client scans alone every key that was there all the time  *)
(* is in the table; and either it has seen them all, or the cursor is where  *)
(* its last answer was, its connection was the last to use it, and it has    *)
(* seen those up to the cursor.                                              *)
Scans == [alone : BOOLEAN, fd : Fds \cup {None}, keys : SUBSET Keys,
          last : Keys \cup {None}, ended : BOOLEAN, there : SUBSET Keys]

Under(s, d) ==
  /\ ~s.ended /\ s.last # None /\ d.lastfd = s.fd /\ d.cursor = s.last
  /\ \A k \in s.there : k <= s.last => k \in s.keys
Follows(s, d) == s.there \subseteq Present(d) /\ (s.there \subseteq s.keys \/ Under(s, d))
Scanned(s, d) == s \in Scans /\ (s.alone => Follows(s, d))
ScanInv == DOMAIN scan = Clients /\ \A c \in Clients : Scanned(scan[c], db)

(* A database after a request that moves no cursor. *)
Keeps(d, e, q) ==
  /\ e.lastfd = d.lastfd
  /\ q.op # "clear" => e.cursor = d.cursor
  /\ \A k \in Present(d) : q.op = "clear" \/ (q.op = "delete" /\ k = q.key) \/ k \in Present(e)

(* None is neither a key nor a value. *)
LEMMA NoneIsApart ==
  None \notin Keys /\ None \notin Values /\ Keys \subseteq Int /\ Values \subseteq Int
<1>1. Nat \subseteq Int /\ Values \subseteq Int
  BY TableConstants DEF Values
<1>2. Keys \subseteq Int
  BY <1>1, TableConstants, Zenon
<1>. QED  BY <1>1, <1>2, TableConstants, Zenon

LEMMA CountKeeps ==
  ASSUME NEW d \in Databases(Fds), NEW q, q.key \in Keys, NEW v,
         d.rows[q.key] # None => v \in Values
  PROVE  Keeps(d, Count(d, q.key, v).db, q)
<1>1. CASE d.rows[q.key] = None
  BY <1>1 DEF Count, Result, Keeps
<1>2. CASE d.rows[q.key] # None
  <2>1. v # None
    BY <1>2, TableConstants DEF Values
  <2>. QED  BY <1>2, <2>1 DEF Count, Result, Keeps, Put, Present, Databases
<1>. QED  BY <1>1, <1>2

LEMMA OthersKeep ==
  ASSUME NEW d \in Databases(Fds), NEW fd \in Fds, NEW q,
         q \in [op : Operations, key : Keys, value : Values, big : BOOLEAN] \cup {CloseRequest},
         q.op \notin Moves
  PROVE  Keeps(d, Execute(d, fd, q).db, q)
<1>0. Keeps(d, d, q)
  BY DEF Keeps
<1>1. CASE q = CloseRequest
  <2>1. q.op = "close"
    BY <1>1 DEF CloseRequest
  <2>2. Execute(d, fd, q) = Result(d, NotFound)
    BY <2>1, Zenon DEF Execute
  <2>. QED  BY <1>0, <2>2 DEF Result
<1>2. CASE q # CloseRequest
  <2>. q.op \in Operations /\ q.key \in Keys /\ q.value \in Values
    BY <1>2
  <2>0. /\ d.rows[q.key] \in Values \cup {None} /\ d.rows \in [Keys -> Values \cup {None}]
        /\ None \notin Values /\ Values \subseteq Int
    BY NoneIsApart DEF Databases
  <2>1. CASE q.op = "fetch"
    <3>1. Execute(d, fd, q) = Fetch(d, q.key)
      BY <2>1, Zenon DEF Execute
    <3>. QED  BY <1>0, <3>1 DEF Fetch, Result
  <2>2. CASE q.op = "exists"
    <3>1. Execute(d, fd, q) = Exists(d, q.key)
      BY <2>2, Zenon DEF Execute
    <3>. QED  BY <1>0, <3>1 DEF Exists, Result
  <2>3. CASE q.op = "store"
    <3>1. Execute(d, fd, q) = Store(d, q.key, q.value)
      BY <2>3, Zenon DEF Execute
    <3>. QED  BY <2>0, <2>3, <3>1 DEF Store, Result, Keeps, Put, Present, Databases
  <2>4. CASE q.op = "delete"
    <3>1. Execute(d, fd, q) = Delete(d, q.key)
      BY <2>4, Zenon DEF Execute
    <3>. QED  BY <2>0, <2>4, <3>1 DEF Delete, Result, Keeps, Put, Present, Databases
  <2>5. CASE q.op = "packinc"
    <3>1. Execute(d, fd, q) = PackInc(d, q.key)
      BY <2>5, Zenon DEF Execute
    <3>2. d.rows[q.key] # None => (d.rows[q.key] + 1) % Limit \in Values
      BY <2>0, TableConstants DEF Values
    <3>. QED  BY <3>1, <3>2, CountKeeps DEF PackInc
  <2>6. CASE q.op = "packdec"
    <3>1. Execute(d, fd, q) = PackDec(d, q.key)
      BY <2>6, Zenon DEF Execute
    <3>2. d.rows[q.key] # None => (d.rows[q.key] - 1) % Limit \in Values
      BY <2>0, TableConstants DEF Values
    <3>. QED  BY <3>1, <3>2, CountKeeps DEF PackDec
  <2>7. CASE q.op = "inc"
    <3>1. Execute(d, fd, q) = Inc(d, q.key)
      BY <2>7, Zenon DEF Execute
    <3>2. CASE d.rows[q.key] = Limit - 1
      BY <1>0, <3>1, <3>2 DEF Inc, Result
    <3>3. CASE d.rows[q.key] # Limit - 1
      <4>1. d.rows[q.key] # None => d.rows[q.key] + 1 \in Values
        BY <2>0, <3>3, TableConstants DEF Values
      <4>. QED  BY <3>1, <3>3, <4>1, CountKeeps DEF Inc
    <3>. QED  BY <3>2, <3>3
  <2>8. CASE q.op = "dec"
    <3>1. Execute(d, fd, q) = Dec(d, q.key)
      BY <2>8, Zenon DEF Execute
    <3>2. CASE d.rows[q.key] \in {0, Limit - 1}
      BY <1>0, <3>1, <3>2 DEF Dec, Result
    <3>3. CASE d.rows[q.key] \notin {0, Limit - 1}
      <4>1. d.rows[q.key] # None => d.rows[q.key] - 1 \in Values
        BY <2>0, <3>3, TableConstants DEF Values
      <4>. QED  BY <3>1, <3>3, <4>1, CountKeeps DEF Dec
    <3>. QED  BY <3>2, <3>3
  <2>9. CASE q.op = "sync"
    <3>1. Execute(d, fd, q) = Sync(d)
      BY <2>9, Zenon DEF Execute
    <3>. QED  BY <1>0, <3>1 DEF Sync, Result
  <2>10. CASE q.op = "clear"
    <3>1. Execute(d, fd, q) = Clear(d)
      BY <2>10, Zenon DEF Execute
    <3>. QED  BY <2>10, <3>1 DEF Clear, Result, Keeps, EmptyDatabase
  <2>. QED  BY <2>1, <2>2, <2>3, <2>4, <2>5, <2>6, <2>7, <2>8, <2>9, <2>10 DEF Operations, Moves
<1>. QED  BY <1>1, <1>2

(* What a request that moves no cursor leaves of a scan. *)
LEMMA WithoutFollows ==
  ASSUME NEW s \in Scans, NEW d \in Databases(Fds), NEW e \in Databases(Fds), NEW q,
         s.alone => Follows(s, d), Keeps(d, e, q)
  PROVE  Scanned(Without(s, q), e)
<1>1. CASE q.op = "clear"
  <2>1. Without(s, q) = [s EXCEPT !.there = {}]
    BY <1>1 DEF Without
  <2>. QED  BY <2>1 DEF Scanned, Follows, Scans
<1>2. CASE q.op = "delete"
  <2>1. Without(s, q) = [s EXCEPT !.there = @ \ {q.key}]
    BY <1>2 DEF Without
  <2>2. Without(s, q) \in Scans
    BY <2>1 DEF Scans
  <2>3. ASSUME s.alone
        PROVE  Follows(Without(s, q), e)
    BY <1>2, <2>1, <2>3 DEF Follows, Under, Keeps, Scans
  <2>. QED  BY <2>1, <2>2, <2>3 DEF Scanned, Scans
<1>3. CASE q.op \notin {"clear", "delete"}
  <2>1. Without(s, q) = s
    BY <1>3 DEF Without, Scans
  <2>2. ASSUME s.alone
        PROVE  Follows(s, e)
    BY <1>3, <2>2 DEF Follows, Under, Keeps, Scans
  <2>. QED  BY <2>1, <2>2 DEF Scanned
<1>. QED  BY <1>1, <1>2, <1>3

(* Another client's request. *)
LEMMA OtherFollows ==
  ASSUME NEW s \in Scans, NEW d \in Databases(Fds), NEW e \in Databases(Fds), NEW q,
         s.alone => Follows(s, d), q.op \notin Moves => Keeps(d, e, q)
  PROVE  Scanned(Without([s EXCEPT !.alone = @ /\ q.op \notin Moves], q), e)
<1>1. CASE q.op \notin Moves
  <2>1. [s EXCEPT !.alone = @ /\ q.op \notin Moves] = s
    BY <1>1 DEF Scans
  <2>. QED  BY <1>1, <2>1, WithoutFollows
<1>2. CASE q.op \in Moves
  <2>. DEFINE t == [s EXCEPT !.alone = @ /\ q.op \notin Moves]
  <2>1. t \in Scans /\ ~t.alone
    BY <1>2 DEF Scans
  <2>2. q.op \notin {"clear", "delete"}
    BY <1>2 DEF Moves
  <2>3. Without(t, q) = t
    BY <2>1, <2>2 DEF Without, Scans
  <2>. QED  BY <2>1, <2>3 DEF Scanned
<1>. QED  BY <1>1, <1>2

(* do_first and do_from put the cursor on the least key there is, and        *)
(* do_next goes to the least after it when the connection was the last user. *)
StartedAt(fd, S, r, alone) ==
  [alone |-> alone, fd |-> fd, keys |-> {r.key} \ {None}, last |-> r.key,
   ended |-> r = NotFound, there |-> S]

LEMMA StartFollows ==
  ASSUME NEW d \in Databases(Fds), NEW S \in SUBSET Present(d), NEW fd \in Fds
  PROVE  LET p == Positioned(d, S, fd) IN Scanned(StartedAt(fd, S, p.reply, TRUE), p.db)
<1>. DEFINE p == Positioned(d, S, fd)
            t == StartedAt(fd, S, p.reply, TRUE)
<1>0. S \subseteq Keys /\ None \notin Keys /\ Keys \subseteq Int
  BY NoneIsApart DEF Present
<1>1. CASE S = {}
  <2>1. p.reply = NotFound /\ t.there = {}
    BY <1>1 DEF Positioned, Result, StartedAt
  <2>2. t \in Scans
    BY <1>0, <2>1 DEF StartedAt, Scans, NotFound
  <2>. QED  BY <2>1, <2>2 DEF Scanned, Follows
<1>2. CASE S # {}
  <2>1. Least(S) \in S /\ \A j \in S : Least(S) <= j
    BY <1>0, <1>2, LeastIsOneOf
  <2>2. PICK l \in S : l = Least(S)
    BY <2>1
  <2>3. p.reply = Found(l, d.rows[l]) /\ p.db = Used([d EXCEPT !.cursor = l], fd)
    BY <1>2, <2>2 DEF Positioned, Result, Seek
  <2>4. /\ p.reply.key = l /\ p.reply # NotFound
        /\ p.db.rows = d.rows /\ p.db.cursor = l /\ p.db.lastfd = fd
    BY <2>3 DEF Found, NotFound, Used, Databases
  <2>5. t \in Scans /\ t.there = S /\ t.keys = {l} /\ t.last = l /\ ~t.ended /\ t.fd = fd
    BY <1>0, <2>4 DEF StartedAt, Scans
  <2>6. \A k \in S : k <= l => k = l
    BY <1>0, <2>1, <2>2
  <2>7. t.there \subseteq Present(p.db)
    BY <2>4, <2>5 DEF Present
  <2>8. Under(t, p.db)
    <3>1. l # None
      BY <1>0
    <3>. QED  BY <2>4, <2>5, <2>6, <3>1 DEF Under
  <2>. QED  BY <2>5, <2>7, <2>8 DEF Scanned, Follows
<1>. QED  BY <1>1, <1>2

ContinuedWith(s, alone, r) ==
  [s EXCEPT !.alone = @ /\ alone, !.keys = (@ \cup {r.key}) \ {None}, !.last = r.key,
            !.ended = r = NotFound]

(* whatever is answered, the scan is one *)
LEMMA ContinuedIsScan ==
  ASSUME NEW s \in Scans, NEW alone \in BOOLEAN, NEW r \in Replies
  PROVE  /\ ContinuedWith(s, alone, r) \in Scans
         /\ ContinuedWith(s, alone, r).alone <=> s.alone /\ alone
         /\ ContinuedWith(s, alone, r).there = s.there
         /\ ContinuedWith(s, alone, r).fd = s.fd
         /\ ContinuedWith(s, alone, r).last = r.key
         /\ ContinuedWith(s, alone, r).ended <=> r = NotFound
         /\ ContinuedWith(s, alone, r).keys = s.keys \cup ({r.key} \ {None})
<1>1. None \notin Keys
  BY NoneIsApart
<1>2. r.key \in Keys \cup {None}
  BY DEF Replies
<1>. QED  BY <1>1, <1>2 DEF ContinuedWith, Scans

LEMMA PositionedKeepsRows ==
  ASSUME NEW d \in Databases(Fds), NEW S \in SUBSET Keys, NEW fd \in Fds
  PROVE  Positioned(d, S, fd).db.rows = d.rows
BY SeekIsDatabase, UsedIsDatabase DEF Positioned, Result

LEMMA NextKeepsRows ==
  ASSUME NEW d \in Databases(Fds), NEW fd \in Fds
  PROVE  NextKey(d, fd).db.rows = d.rows
<1>. DEFINE moved == Used(Seek(d, After(d)), fd)
<1>1. ASSUME NEW e PROVE After(e) \in SUBSET Keys
  BY DEF After, Present
<1>2. moved \in Databases(Fds) /\ moved.rows = d.rows
  BY <1>1, SeekIsDatabase, UsedIsDatabase
<1>3. NextKey(d, fd) \in {Result(moved, NotFound), Positioned(moved, After(moved), fd),
                          Positioned(d, After(d), fd)}
  BY DEF NextKey
<1>. QED  BY <1>1, <1>2, <1>3, PositionedKeepsRows DEF Result

LEMMA NextFollows ==
  ASSUME NEW s \in Scans, NEW d \in Databases(Fds), NEW alone \in BOOLEAN, NEW fd \in Fds,
         s.alone => Follows(s, d), alone => s.fd = fd
  PROVE  LET n == NextKey(d, fd) IN Scanned(ContinuedWith(s, alone, n.reply), n.db)
<1>0. None \notin Keys /\ Keys \subseteq Int
  BY NoneIsApart
<1>1. NextKey(d, fd) \in Executed(Fds)
  BY NextKeyExecuted
<1>2. PICK n \in Executed(Fds) : n = NextKey(d, fd)
  BY <1>1
<1>3. n.reply \in Replies /\ n.db \in Databases(Fds)
  BY DEF Executed, GoodAnswers
<1>4. PICK t \in Scans : t = ContinuedWith(s, alone, n.reply)
  BY <1>3, ContinuedIsScan
<1>5. /\ t.alone <=> s.alone /\ alone
      /\ t.there = s.there /\ t.fd = s.fd /\ t.last = n.reply.key
      /\ t.ended <=> n.reply = NotFound
      /\ t.keys = s.keys \cup ({n.reply.key} \ {None})
  BY <1>3, <1>4, ContinuedIsScan
<1>6. Present(n.db) = Present(d)
  BY <1>2, NextKeepsRows DEF Present
<1>7. ASSUME s.alone, alone
      PROVE  Follows(t, n.db)
  <2>1. s.there \subseteq Present(d)
    BY <1>7 DEF Follows
  <2>2. CASE s.there \subseteq s.keys
    BY <1>5, <1>6, <2>1, <2>2 DEF Follows
  <2>3. CASE Under(s, d)
    <3>. DEFINE S == After(d)
    <3>1. d.lastfd = fd /\ d.cursor = s.last /\ s.last \in Keys
      BY <1>7, <2>3 DEF Under, Scans
    <3>2. S = {j \in Present(d) : j > s.last} /\ n = Positioned(d, S, fd)
      BY <1>0, <1>2, <3>1 DEF After, NextKey
    <3>3. S \subseteq Keys
      BY <3>2 DEF Present
    <3>4. \A k \in s.there : k <= s.last \/ k \in S
      <4>1. s.last \in Int /\ \A k \in s.there : k \in Present(d) /\ k \in Int
        BY <1>0, <2>1, <3>1 DEF Present
      <4>2. \A k \in s.there : k > s.last => k \in S
        BY <3>2, <4>1
      <4>. QED  BY <4>1, <4>2
    <3>5. CASE S = {}
      BY <1>5, <1>6, <2>1, <2>3, <3>4, <3>5 DEF Under, Follows
    <3>6. CASE S # {}
      <4>1. Least(S) \in S /\ \A j \in S : Least(S) <= j
        BY <3>3, <3>6, LeastIsOneOf
      <4>2. PICK l \in S : l = Least(S)
        BY <4>1
      <4>3. n.reply = Found(l, d.rows[l]) /\ n.db = Used([d EXCEPT !.cursor = l], fd)
        BY <3>2, <3>6, <4>2 DEF Positioned, Result, Seek
      <4>4. /\ n.reply.key = l /\ n.reply # NotFound
            /\ n.db.cursor = l /\ n.db.lastfd = fd
        BY <4>3 DEF Found, NotFound, Used, Databases
      <4>5. l \in Keys /\ l # None
        BY <1>0, <3>3
      <4>6. \A k \in s.there : k <= l => k \in t.keys
        <5>1. \A k \in s.there : k <= s.last => k \in s.keys
          BY <2>3 DEF Under
        <5>2. \A k \in S : k <= l => k = l
          <6>1. l \in Int /\ \A k \in S : k \in Int /\ l <= k
            BY <1>0, <3>3, <4>1, <4>2
          <6>. QED  BY <6>1
        <5>. QED  BY <1>5, <3>4, <4>4, <4>5, <5>1, <5>2
      <4>7. Under(t, n.db)
        BY <1>5, <1>7, <4>4, <4>5, <4>6 DEF Under
      <4>. QED  BY <1>5, <1>6, <2>1, <4>7 DEF Follows
    <3>. QED  BY <3>5, <3>6
  <2>. QED  BY <1>7, <2>2, <2>3 DEF Follows
<1>8. Scanned(t, n.db)
  BY <1>5, <1>7 DEF Scanned
<1>. QED  BY <1>2, <1>4, <1>8

(* A request of c: what its own scan and those of the others become.         *)
LEMMA ScanAnswered ==
  ASSUME ClientInv, ScanInv, NEW c \in Clients, Reached(c), NEW r \in Replies, Answer(c, r),
         db' \in Databases(Fds),
         NEW q, q = Asked(c), q.op \notin Moves => Keeps(db, db', q),
         q.op \in Moves /\ r # Failed =>
           LET done == Execute(db, me[c].sock, q) IN r = done.reply /\ db' = done.db
  PROVE  ScanInv'
<1>0. Sane(c) /\ db \in Databases(Fds)
  BY Known DEF Sane
<1>1. scan' = Scanning(c, q, r) /\ DOMAIN scan' = Clients
  BY DEF Answer, Scanning
<1>2. PICK fd \in Fds : fd = me[c].sock
  BY AskedIs
<1>3. PICK e \in Databases(Fds) : e = db'
  OBVIOUS
<1>4. \A d \in Clients : scan[d] \in Scans /\ (scan[d].alone => Follows(scan[d], db))
  BY DEF ScanInv, Scanned
<1>5. ASSUME NEW d \in Clients \ {c}
      PROVE  Scanned(scan'[d], e)
  <2>1. scan'[d] = Without([scan[d] EXCEPT !.alone = @ /\ q.op \notin Moves], q)
    BY <1>1 DEF Scanning
  <2>. QED  BY <1>0, <1>3, <1>4, <2>1, OtherFollows
<1>6. Scanned(scan'[c], e)
  <2>1. CASE q.op \notin Moves
    <3>1. scan'[c] = Without(scan[c], q)
      BY <1>1, <2>1, Zenon DEF Scanning, Moves
    <3>. QED  BY <1>0, <1>3, <1>4, <2>1, <3>1, WithoutFollows
  <2>2. CASE q.op \in {"first", "from"}
    <3>. DEFINE S == IF q.op = "first" THEN Present(db) ELSE From(db, q.key)
    <3>1. scan'[c] = StartedAt(fd, S, r, r # Failed /\ ~Torn(c))
      <4>1. scan'[c] = Started(c, q, r)
        BY <1>1, <2>2, Zenon DEF Scanning
      <4>. QED  BY <1>2, <4>1 DEF Started, StartedAt
    <3>2. S \in SUBSET Present(db)
      BY DEF From
    <3>3. CASE r = Failed \/ Torn(c)
      <4>1. StartedAt(fd, S, r, FALSE) \in Scans /\ ~StartedAt(fd, S, r, FALSE).alone
        BY <3>2, NoneIsApart DEF StartedAt, Scans, Replies, Present
      <4>2. scan'[c] = StartedAt(fd, S, r, FALSE)
        BY <3>1, <3>3
      <4>. QED  BY <4>1, <4>2 DEF Scanned
    <3>4. CASE r # Failed /\ ~Torn(c)
      <4>1. Execute(db, fd, q) = Positioned(db, S, fd)
        <5>1. CASE q.op = "first"
          <6>1. Execute(db, fd, q) = Positioned(db, Present(db), fd)
            BY <5>1, Zenon DEF Execute
          <6>. QED  BY <5>1, <6>1
        <5>2. CASE q.op = "from"
          <6>1. Execute(db, fd, q) = Positioned(db, From(db, q.key), fd)
            BY <5>2, Zenon DEF Execute
          <6>. QED  BY <5>2, <6>1
        <5>. QED  BY <2>2, <5>1, <5>2
      <4>2. r = Positioned(db, S, fd).reply /\ e = Positioned(db, S, fd).db
        BY <1>2, <1>3, <2>2, <3>4, <4>1 DEF Moves
      <4>3. scan'[c] = StartedAt(fd, S, r, TRUE)
        BY <3>1, <3>4
      <4>. QED  BY <1>0, <3>2, <4>2, <4>3, StartFollows
    <3>. QED  BY <3>3, <3>4
  <2>3. CASE q.op = "next"
    <3>. DEFINE alone == r # Failed /\ cut[c] = 0 /\ ~Torn(c) /\ scan[c].fd = fd
    <3>1. scan'[c] = ContinuedWith(scan[c], alone, r)
      <4>1. scan'[c] = Continued(c, r)
        BY <1>1, <2>3, Zenon DEF Scanning
      <4>. QED  BY <1>2, <1>4, <4>1 DEF Continued, ContinuedWith, Scans
    <3>2. alone \in BOOLEAN
      OBVIOUS
    <3>3. CASE r = Failed
      <4>1. PICK s \in Scans : s = scan[c]
        BY <1>4
      <4>2. scan'[c] = ContinuedWith(s, FALSE, r)
        BY <3>1, <3>3, <4>1
      <4>3. PICK u \in Scans : u = ContinuedWith(s, FALSE, r)
        BY ContinuedIsScan
      <4>4. u.alone <=> s.alone /\ FALSE
        BY <4>3, ContinuedIsScan
      <4>. QED  BY <4>2, <4>3, <4>4 DEF Scanned
    <3>4. CASE r # Failed
      <4>1. Execute(db, fd, q) = NextKey(db, fd)
        BY <2>3, Zenon DEF Execute
      <4>2. r = NextKey(db, fd).reply /\ e = NextKey(db, fd).db
        BY <1>2, <1>3, <2>3, <3>4, <4>1 DEF Moves
      <4>. QED  BY <1>0, <1>4, <3>1, <3>2, <4>2, NextFollows
    <3>. QED  BY <3>3, <3>4
  <2>. QED  BY <2>1, <2>2, <2>3 DEF Moves
<1>7. \A d \in Clients : Scanned(scan'[d], db')
  BY <1>3, <1>5, <1>6
<1>. QED  BY <1>1, <1>7 DEF ScanInv

LEMMA ScanServed ==
  ASSUME ClientInv, ScanInv, NEW c \in Clients, Serve(c)
  PROVE  ScanInv'
<1>1. Reached(c)
  BY DEF Serve
<1>2. PICK q \in Calls(c) : q = Asked(c)
  BY <1>1, AskedIs
<1>3. PICK fd \in Fds : fd = me[c].sock
  BY <1>1, AskedIs
<1>4. q \in [op : Operations, key : Keys, value : Values, big : BOOLEAN] \cup {CloseRequest}
  BY ClientConstants DEF Calls
<1>5. PICK done \in Executed(Fds) : done = Execute(db, fd, q)
  BY <1>1, <1>2, <1>3, AskedIs
<1>6. db' = done.db /\ Answer(c, done.reply) /\ done.reply \in Replies /\ done.db \in Databases(Fds)
  BY <1>2, <1>3, <1>5 DEF Serve, Executed, GoodAnswers
<1>7. db \in Databases(Fds)
  BY Known DEF Sane
<1>8. q.op \notin Moves => Keeps(db, done.db, q)
  BY <1>4, <1>5, <1>7, OthersKeep
<1>. QED  BY <1>1, <1>2, <1>3, <1>5, <1>6, <1>8, ScanAnswered

LEMMA ScanFailed ==
  ASSUME ClientInv, ScanInv, NEW c \in Clients, ServeFails(c)
  PROVE  ScanInv'
<1>1. Reached(c) /\ Answer(c, Failed) /\ Failed \in Replies
  BY AnswersAreGood DEF ServeFails, GoodAnswers
<1>2. PICK fd \in Fds : fd = me[c].sock
  BY <1>1, AskedIs
<1>3. db \in Databases(Fds)
  BY Known DEF Sane
<1>4. PICK q \in Calls(c) : q = Asked(c)
  BY <1>1, AskedIs
<1>5. db' = IF q.op \in Moves THEN Used(db, fd) ELSE db
  BY <1>2, <1>4 DEF ServeFails
<1>6. db' \in Databases(Fds)
  BY <1>3, <1>5, UsedIsDatabase
<1>7. q.op \notin Moves => Keeps(db, db', q)
  BY <1>5 DEF Keeps
<1>. QED  BY <1>1, <1>4, <1>6, <1>7, ScanAnswered

LEMMA ScanUnsaved ==
  ASSUME ClientInv, ScanInv, NEW c \in Clients, ServeUnsaved(c)
  PROVE  ScanInv'
<1>1. Reached(c) /\ db' = db
  BY DEF ServeUnsaved
<1>2. PICK q \in Calls(c) : q = Asked(c)
  BY <1>1, AskedIs
<1>3. PICK done \in Executed(Fds) : done = Execute(db, me[c].sock, q)
  BY <1>1, <1>2, AskedIs
<1>4. Answer(c, done.reply) /\ done.reply \in Replies /\ q.op \notin Moves
  BY <1>2, <1>3 DEF ServeUnsaved, Executed, GoodAnswers, Moves
<1>5. Keeps(db, db', q) /\ db' \in Databases(Fds)
  BY <1>1, Known DEF Keeps, Sane
<1>. QED  BY <1>1, <1>2, <1>4, <1>5, ScanAnswered

(* A client that scans alone misses no key that was in the table all the     *)
(* time, whatever is stored, deleted, cleared, refused or lost meanwhile,    *)
(* and whatever other clients there are.                                     *)
THEOREM ScansAreComplete == Spec => []ScanIsComplete
<1>1. Init => ScanInv
  <2>. SUFFICES ASSUME Init PROVE ScanInv
    OBVIOUS
  <2>1. NoScan \in Scans /\ ~NoScan.alone
    BY DEF NoScan, Scans
  <2>. QED  BY <2>1 DEF Init, ScanInv, Scanned
<1>2. ClientInv /\ ScanInv /\ [Next]_vars => ScanInv'
  <2>. SUFFICES ASSUME ClientInv, ScanInv, [Next]_vars PROVE ScanInv'
    OBVIOUS
  <2>1. CASE UNCHANGED <<db, scan>>
    BY <2>1 DEF ScanInv
  <2>2. CASE \E c \in Clients : Serve(c) \/ ServeFails(c) \/ ServeUnsaved(c)
    BY <2>2, ScanServed, ScanFailed, ScanUnsaved
  <2>3. [Next]_vars => \/ UNCHANGED <<db, scan>>
                       \/ \E c \in Clients : Serve(c) \/ ServeFails(c) \/ ServeUnsaved(c)
    <3>1. ASSUME NEW c \in Clients,
                 \/ Connect(c) \/ Abort(c)
                 \/ \E q \in Requests[c] : Call(c, q)
                 \/ Send(c) \/ TooBig(c) \/ CutOff(c) \/ Skip(c) \/ Refuses(c)
                 \/ Receive(c) \/ Tear(c) \/ Noise(c)
                 \/ Reconnect(c) \/ ReconnectFails(c) \/ ReselectFails(c)
          PROVE  UNCHANGED <<db, scan>>
      <4>1. CASE Connect(c) \/ Abort(c) \/ \E q \in Requests[c] : Call(c, q)
        <5>1. CASE Connect(c)
          BY <5>1 DEF Connect, history
        <5>2. CASE Abort(c)
          BY <5>2 DEF Abort, history
        <5>3. ASSUME NEW q, Call(c, q)
              PROVE  db' = db /\ scan' = scan
          <6>1. UNCHANGED <<db, wire, faults, unsaved, given, scan>>
            BY <5>3, Zenon DEF Call
          <6>. QED  BY <6>1
        <5>. QED  BY <4>1, <5>1, <5>2, <5>3
      <4>2. CASE Send(c) \/ TooBig(c) \/ CutOff(c) \/ Skip(c) \/ Refuses(c)
        BY <4>2 DEF Send, TooBig, CutOff, Skip, Refuses, history
      <4>3. CASE Receive(c)
        BY <4>3 DEF Receive
      <4>4. CASE Tear(c)
        BY <4>4 DEF Tear, history
      <4>4a. CASE Noise(c)
        BY <4>4a DEF Noise
      <4>5. CASE Reconnect(c) \/ ReconnectFails(c) \/ ReselectFails(c)
        <5>1. UNCHANGED <<db, calls, faults, history>> \/ UNCHANGED <<db, calls, history>>
          BY <4>5, Zenon DEF Reconnect, ReconnectFails, ReselectFails
        <5>. QED  BY <5>1 DEF history
      <4>. QED  BY <3>1, <4>1, <4>2, <4>3, <4>4, <4>4a, <4>5
    <3>. QED  BY <3>1 DEF Next, vars
  <2>. QED  BY <2>1, <2>2, <2>3
<1>3. ScanInv => ScanIsComplete
  <2>. SUFFICES ASSUME ScanInv, NEW c \in Clients, scan[c].alone
                PROVE  SkipsNothing(scan[c])
    BY DEF ScanIsComplete
  <2>1. Follows(scan[c], db)
    BY DEF ScanInv, Scanned
  <2>. QED  BY <2>1 DEF Follows, Under, SkipsNothing
<1>. QED  BY <1>1, <1>2, <1>3, ClientInvariant, PTL DEF Spec

-----------------------------------------------------------------------------
(* Numbers.  Of a key that is only counted up, the numbers given away and    *)
(* those in the answers that clients are about to read differ from each      *)
(* other, and the row of the key is not below any of them.                   *)
GivenOf(k, g) == {g[i][2] : i \in {j \in 1 .. Len(g) : g[j][1] = k}}
GivenOnce(k, g) ==
  \A i, j \in 1 .. Len(g) : i # j /\ g[i][1] = k /\ g[j][1] = k => g[i][2] # g[j][2]

Counters == {k \in Keys : CountedUp(k)}
Past(d, k, v) == d.rows[k] \in Values /\ v \in Values /\ v <= d.rows[k]

(* of a key, with a database, what was given and what each client will read *)
Numbers(k, d, g, w) ==
  /\ GivenOnce(k, g)
  /\ \A v \in GivenOf(k, g) : Past(d, k, v)
  /\ \A c \in Clients : \A v \in w[c] : Past(d, k, v) /\ v \notin GivenOf(k, g)
  /\ \A b, c \in Clients : b # c => w[b] \cap w[c] = {}

Promised(c, k) ==
  /\ Whole(c) /\ me[c].selected /\ Pending(c)
  /\ IsIncrement(me[c].request) /\ me[c].request.key = k /\ answered[c].status = "found"
Promise(c, k) == IF Promised(c, k) THEN {answered[c].value} ELSE {}
Promises(k) == [c \in Clients |-> Promise(c, k)]

NumbersInv ==
  /\ given \in Seq(Keys \X (Values \cup {None}))
  /\ ~unsaved => \A k \in Counters : Numbers(k, db, given, Promises(k))

(* No counter has reached the largest number it can hold. *)
NoneFull == \A k \in Counters : db.rows[k] # Limit - 1

LEMMA GivenAppended ==
  ASSUME NEW S, NEW g \in Seq(S), NEW p \in S, NEW k
  PROVE  /\ GivenOf(k, Append(g, p)) = GivenOf(k, g) \cup (IF p[1] = k THEN {p[2]} ELSE {})
         /\ GivenOnce(k, g) /\ (p[1] = k => p[2] \notin GivenOf(k, g)) => GivenOnce(k, Append(g, p))
<1>. DEFINE s == Append(g, p)
<1>1. /\ Len(s) = Len(g) + 1 /\ Len(g) \in Nat
      /\ s[Len(g) + 1] = p /\ \A n \in 1 .. Len(g) : s[n] = g[n]
  OBVIOUS
<1>2. /\ \A n \in 1 .. Len(s) : n \in 1 .. Len(g) \/ n = Len(g) + 1
      /\ \A n \in 1 .. Len(g) : n \in 1 .. Len(s)
      /\ Len(g) + 1 \in 1 .. Len(s)
  BY <1>1
<1>3. GivenOf(k, s) = GivenOf(k, g) \cup (IF p[1] = k THEN {p[2]} ELSE {})
  <2>. HIDE DEF s
  <2>. QED  BY <1>1, <1>2 DEF GivenOf
<1>4. ASSUME GivenOnce(k, g), p[1] = k => p[2] \notin GivenOf(k, g)
      PROVE  GivenOnce(k, s)
  <2>. HIDE DEF s
  <2>1. \A n \in 1 .. Len(g) : g[n][1] = k => g[n][2] \in GivenOf(k, g)
    BY DEF GivenOf
  <2>. QED  BY <1>1, <1>2, <1>4, <2>1 DEF GivenOnce
<1>. QED  BY <1>3, <1>4

(* What an execution, an answer lost and an answer read do to the numbers of *)
(* a key.                                                                    *)
Rises(k, d, e) ==
  \/ e.rows[k] = d.rows[k]
  \/ d.rows[k] \in Values /\ e.rows[k] \in Values /\ e.rows[k] = d.rows[k] + 1

LEMMA NumbersFewer ==
  ASSUME NEW k, NEW d, NEW g, NEW w, Numbers(k, d, g, w),
         NEW v, \A c \in Clients : v[c] \subseteq w[c]
  PROVE  Numbers(k, d, g, v)
<1>1. \A c \in Clients : \A n \in v[c] : n \in w[c]
  OBVIOUS
<1>2. ASSUME NEW b \in Clients, NEW c \in Clients, b # c
      PROVE  v[b] \cap v[c] = {}
  <2>1. w[b] \cap w[c] = {}
    BY <1>2 DEF Numbers
  <2>. QED  BY <1>1, <2>1
<1>. QED  BY <1>1, <1>2 DEF Numbers

LEMMA NumbersServed ==
  ASSUME NEW k, NEW d, NEW e, NEW g, NEW w, Numbers(k, d, g, w), Rises(k, d, e),
         NEW c \in Clients, NEW v, \A b \in Clients \ {c} : v[b] = w[b],
         \/ v[c] = {}
         \/ /\ v[c] = {e.rows[k]} /\ d.rows[k] \in Values /\ e.rows[k] \in Values
            /\ e.rows[k] = d.rows[k] + 1
  PROVE  Numbers(k, e, g, v)
<1>0. \A n \in Values : n \in Int
  BY NoneIsApart
<1>1. \A n : Past(d, k, n) => Past(e, k, n)
  <2>1. \A i, j \in Values : i <= j => i <= j + 1
    BY <1>0
  <2>. QED  BY <2>1 DEF Past, Rises
<1>2. \A n \in v[c] : Past(e, k, n) /\ ~Past(d, k, n)
  <2>1. \A i \in Values : i + 1 <= i + 1 /\ ~(i + 1 <= i)
    BY <1>0
  <2>. QED  BY <1>0, <2>1 DEF Past
<1>3. ASSUME NEW b \in Clients, NEW n \in v[b]
      PROVE  Past(e, k, n) /\ n \notin GivenOf(k, g)
  <2>1. CASE b = c
    BY <1>2, <1>3, <2>1 DEF Numbers
  <2>2. CASE b # c
    BY <1>1, <1>3, <2>2 DEF Numbers
  <2>. QED  BY <2>1, <2>2
<1>4. ASSUME NEW b \in Clients, NEW f \in Clients, b # f
      PROVE  v[b] \cap v[f] = {}
  <2>1. \A a \in Clients \ {c} : \A n \in v[a] : Past(d, k, n)
    BY DEF Numbers
  <2>2. CASE b = c \/ f = c
    BY <1>2, <1>4, <2>1, <2>2
  <2>3. CASE b # c /\ f # c
    BY <1>4, <2>3 DEF Numbers
  <2>. QED  BY <2>2, <2>3
<1>5. GivenOnce(k, g) /\ \A n \in GivenOf(k, g) : Past(e, k, n)
  BY <1>1 DEF Numbers
<1>. QED  BY <1>3, <1>4, <1>5 DEF Numbers

LEMMA NumbersRead ==
  ASSUME NEW k, NEW d, NEW g \in Seq(Keys \X (Values \cup {None})), NEW w, Numbers(k, d, g, w),
         NEW c \in Clients, NEW p \in Keys \X (Values \cup {None}), p[1] = k => p[2] \in w[c],
         NEW v, \A b \in Clients \ {c} : v[b] = w[b], v[c] = {}
  PROVE  Numbers(k, d, Append(g, p), v)
<1>. DEFINE h == Append(g, p)
<1>2. Numbers(k, d, g, v)
  <2>1. \A b \in Clients : v[b] \subseteq w[b]
    OBVIOUS
  <2>. QED  BY <2>1, NumbersFewer
<1>3. /\ GivenOf(k, h) = GivenOf(k, g) \cup (IF p[1] = k THEN {p[2]} ELSE {})
      /\ GivenOnce(k, g) /\ (p[1] = k => p[2] \notin GivenOf(k, g)) => GivenOnce(k, h)
  BY GivenAppended
<1>. HIDE DEF h
<1>4. CASE p[1] # k
  <2>1. GivenOf(k, h) = GivenOf(k, g) /\ (GivenOnce(k, g) => GivenOnce(k, h))
    BY <1>3, <1>4
  <2>. QED  BY <1>2, <2>1 DEF Numbers, h
<1>5. CASE p[1] = k
  <2>1. p[2] \in w[c] /\ Past(d, k, p[2]) /\ p[2] \notin GivenOf(k, g)
    BY <1>5 DEF Numbers
  <2>2. GivenOnce(k, h) /\ GivenOf(k, h) = GivenOf(k, g) \cup {p[2]}
    BY <1>3, <1>5, <2>1 DEF Numbers
  <2>3. ASSUME NEW b \in Clients
        PROVE  p[2] \notin v[b]
    <3>1. b # c => w[b] \cap w[c] = {}
      BY DEF Numbers
    <3>. QED  BY <2>1, <3>1
  <2>4. \A n \in GivenOf(k, h) : Past(d, k, n)
    BY <2>1, <2>2 DEF Numbers
  <2>5. \A b \in Clients : \A n \in v[b] : Past(d, k, n) /\ n \notin GivenOf(k, h)
    BY <1>2, <2>2, <2>3 DEF Numbers
  <2>6. \A a, b \in Clients : a # b => v[a] \cap v[b] = {}
    BY <1>2 DEF Numbers
  <2>7. Numbers(k, d, h, v)
    BY <2>2, <2>4, <2>5, <2>6 DEF Numbers
  <2>. QED  BY <2>7 DEF h
<1>. QED  BY <1>4, <1>5

(* A request on a key that is only counted up adds one and answers the sum,  *)
(* or leaves it alone.                                                       *)
AddsOne(k, d, q, e) ==
  /\ IsIncrement(q) /\ q.key = k
  /\ d.rows[k] \in Values /\ e.db.rows[k] \in Values /\ e.db.rows[k] = d.rows[k] + 1
  /\ e.reply.value = e.db.rows[k]
LeavesIt(k, d, q, e) ==
  /\ e.db.rows[k] = d.rows[k]
  /\ IsIncrement(q) /\ q.key = k => e.reply.status # "found"

LEMMA CountAdds ==
  ASSUME NEW d \in Databases(Fds), NEW k \in Keys, NEW q, q.key \in Keys, NEW v,
         IsIncrement(q), d.rows[q.key] # None => v \in Values /\ (q.key = k => v = d.rows[k] + 1)
  PROVE  AddsOne(k, d, q, Count(d, q.key, v)) \/ LeavesIt(k, d, q, Count(d, q.key, v))
<1>0. d.rows \in [Keys -> Values \cup {None}] /\ d.rows[k] \in Values \cup {None}
  BY DEF Databases
<1>1. CASE d.rows[q.key] = None
  BY <1>1 DEF Count, Result, LeavesIt, NotFound
<1>2. CASE d.rows[q.key] # None
  <2>1. PICK e : e = Count(d, q.key, v)
    OBVIOUS
  <2>2. e.db = [d EXCEPT !.rows[q.key] = v] /\ e.reply.value = v
    BY <1>2, <2>1 DEF Count, Result, Put, Found
  <2>3. e.db.rows = [d.rows EXCEPT ![q.key] = v]
    BY <2>2 DEF Databases
  <2>4. CASE q.key = k
    BY <1>0, <1>2, <2>1, <2>2, <2>3, <2>4 DEF AddsOne
  <2>5. CASE q.key # k
    BY <1>0, <2>1, <2>3, <2>5 DEF LeavesIt
  <2>. QED  BY <2>4, <2>5
<1>. QED  BY <1>1, <1>2

LEMMA OthersLeave ==
  ASSUME NEW d \in Databases(Fds), NEW k \in Keys, NEW j \in Keys, j # k, NEW v
  PROVE  Put(d, j, v).rows[k] = d.rows[k] /\ Count(d, j, v).db.rows[k] = d.rows[k]
BY DEF Put, Count, Result, Databases

LEMMA AddsOrLeaves ==
  ASSUME NEW d \in Databases(Fds), NEW fd \in Fds, NEW q, NEW k \in Keys,
         q \in [op : Operations, key : Keys, value : Values, big : BOOLEAN] \cup {CloseRequest},
         q.op # "clear", q.key = k => q.op \notin {"store", "delete", "packdec", "dec"},
         d.rows[k] # Limit - 1
  PROVE  AddsOne(k, d, q, Execute(d, fd, q)) \/ LeavesIt(k, d, q, Execute(d, fd, q))
<1>1. CASE q = CloseRequest
  <2>1. q.op = "close"
    BY <1>1 DEF CloseRequest
  <2>2. Execute(d, fd, q) = Result(d, NotFound)
    BY <2>1, Zenon DEF Execute
  <2>. QED  BY <2>1, <2>2 DEF Result, LeavesIt, IsIncrement
<1>2. CASE q # CloseRequest
  <2>. q.op \in Operations /\ q.key \in Keys /\ q.value \in Values
    BY <1>2
  <2>0. d.rows[q.key] \in Values \cup {None} /\ Limit \in Nat \ {0}
    BY TableConstants DEF Databases
  <2>1. CASE q.op \in {"packinc", "inc"}
    <3>0. IsIncrement(q)
      BY <2>1 DEF IsIncrement
    <3>1. CASE q.op = "packinc"
      <4>1. Execute(d, fd, q) = PackInc(d, q.key)
        BY <3>1, Zenon DEF Execute
      <4>2. d.rows[q.key] # None => (d.rows[q.key] + 1) % Limit \in Values
        BY <2>0 DEF Values
      <4>3. d.rows[q.key] # None /\ q.key = k => (d.rows[q.key] + 1) % Limit = d.rows[k] + 1
        <5>1. \A i \in 0 .. Limit - 1 : i # Limit - 1 => (i + 1) % Limit = i + 1
          BY <2>0
        <5>. QED  BY <2>0, <5>1 DEF Values
      <4>. QED  BY <3>0, <4>1, <4>2, <4>3, CountAdds DEF PackInc
    <3>2. CASE q.op = "inc"
      <4>1. Execute(d, fd, q) = Inc(d, q.key)
        BY <3>2, Zenon DEF Execute
      <4>2. CASE d.rows[q.key] = Limit - 1
        BY <4>1, <4>2 DEF Inc, Result, LeavesIt
      <4>3. CASE d.rows[q.key] # Limit - 1
        <5>1. d.rows[q.key] # None => d.rows[q.key] + 1 \in Values
          BY <2>0, <4>3 DEF Values
        <5>. QED  BY <3>0, <4>1, <4>3, <5>1, CountAdds DEF Inc
      <4>. QED  BY <4>2, <4>3
    <3>. QED  BY <2>1, <3>1, <3>2
  <2>2. CASE q.op \notin {"packinc", "inc"}
    <3>1. SUFFICES Execute(d, fd, q).db.rows[k] = d.rows[k]
      BY <2>2 DEF LeavesIt, IsIncrement
    <3>2. CASE q.op \in {"fetch", "exists", "sync"}
      <4>1. Execute(d, fd, q) \in {Fetch(d, q.key), Exists(d, q.key), Sync(d)}
        BY <3>2, Zenon DEF Execute
      <4>. QED  BY <4>1 DEF Fetch, Exists, Sync, Result
    <3>3. CASE q.op \in {"first", "from"}
      <4>1. /\ Present(d) \in SUBSET Keys /\ From(d, q.key) \in SUBSET Keys
        BY DEF Present, From
      <4>2. Execute(d, fd, q) \in {Positioned(d, Present(d), fd), Positioned(d, From(d, q.key), fd)}
        BY <3>3, Zenon DEF Execute
      <4>. QED  BY <4>1, <4>2, PositionedKeepsRows
    <3>4. CASE q.op = "next"
      <4>1. Execute(d, fd, q) = NextKey(d, fd)
        BY <3>4, Zenon DEF Execute
      <4>. QED  BY <4>1, NextKeepsRows
    <3>5. CASE q.op = "store"
      <4>1. Execute(d, fd, q) = Store(d, q.key, q.value)
        BY <3>5, Zenon DEF Execute
      <4>. QED  BY <3>5, <4>1, OthersLeave DEF Store, Result
    <3>6. CASE q.op = "delete"
      <4>1. Execute(d, fd, q) = Delete(d, q.key)
        BY <3>6, Zenon DEF Execute
      <4>. QED  BY <3>6, <4>1, OthersLeave DEF Delete, Result
    <3>7. CASE q.op = "packdec"
      <4>1. Execute(d, fd, q) = PackDec(d, q.key)
        BY <3>7, Zenon DEF Execute
      <4>. QED  BY <3>7, <4>1, OthersLeave DEF PackDec
    <3>8. CASE q.op = "dec"
      <4>1. Execute(d, fd, q) = Dec(d, q.key)
        BY <3>8, Zenon DEF Execute
      <4>. QED  BY <3>8, <4>1, OthersLeave DEF Dec, Result
    <3>. QED  BY <2>2, <3>2, <3>3, <3>4, <3>5, <3>6, <3>7, <3>8 DEF Operations
  <2>. QED  BY <2>1, <2>2
<1>. QED  BY <1>1, <1>2

-----------------------------------------------------------------------------
(* A step of c after which it has no answer to read that it did not have.    *)
LEMMA NumbersRest ==
  ASSUME NumbersInv, NEW c \in Clients, db' = db, given' = given, unsaved' = unsaved,
         \A b \in Clients \ {c} : /\ me'[b] = me[b] /\ wire'[b] = wire[b]
                                  /\ answered'[b] = answered[b],
         me'[c].pc # "sent" \/ wire'[c].sent # <<>>
  PROVE  NumbersInv'
<1>1. PICK d, g : d = db /\ g = given
  OBVIOUS
<1>2. ASSUME NEW k \in Counters, Numbers(k, d, g, Promises(k))
      PROVE  Numbers(k, d, g, Promises(k)')
  <2>1. \A b \in Clients \ {c} : Promise(b, k)' = Promise(b, k)
    BY DEF Promise, Promised, Whole, Pending
  <2>2. Promise(c, k)' = {}
    BY DEF Promise, Promised, Pending
  <2>3. PICK w, v : w = Promises(k) /\ v = Promises(k)'
    OBVIOUS
  <2>4. \A b \in Clients : v[b] \subseteq w[b]
    BY <2>1, <2>2, <2>3 DEF Promises
  <2>. QED  BY <1>2, <2>3, <2>4, NumbersFewer
<1>. QED  BY <1>1, <1>2 DEF NumbersInv

(* An answer to q is put on the wire of c. *)
LEMMA NumbersAnswered ==
  ASSUME ClientInv, NumbersInv, NEW c \in Clients, Reached(c), NEW r \in GoodAnswers,
         Answer(c, r), given' = given, unsaved' = unsaved, me' = me,
         NEW q \in Calls(c), q = Asked(c),
         NEW e \in Databases(Fds), db' = e,
         \/ r = Failed /\ e.rows = db.rows
         \/ \A k \in Counters : \/ AddsOne(k, db, q, Result(e, r))
                                \/ LeavesIt(k, db, q, Result(e, r))
  PROVE  NumbersInv'
<1>1. Sane(c)
  BY Known
<1>2. \A b \in Clients \ {c} : wire'[b] = wire[b] /\ answered'[b] = answered[b]
  <2>1. answered' = [answered EXCEPT ![c] = r] \/ answered' = answered
    BY DEF Answer
  <2>. QED  BY <2>1 DEF Answer
<1>3. Whole(c) => me[c].request = q /\ answered'[c] = r
  BY <1>1, WholeAsked DEF Answer, Sane
<1>4. ASSUME NEW k \in Counters, Numbers(k, db, given, Promises(k))
      PROVE  Numbers(k, e, given, Promises(k)')
  <2>1. PICK d \in Databases(Fds) : d = db
    BY <1>1 DEF Sane
  <2>2. \/ r.status = "error" /\ e.rows = d.rows
        \/ AddsOne(k, d, q, Result(e, r)) \/ LeavesIt(k, d, q, Result(e, r))
    BY <2>1 DEF Failed
  <2>3. Rises(k, d, e)
    BY <2>2 DEF Rises, AddsOne, LeavesIt, Result
  <2>4. \A b \in Clients \ {c} : Promise(b, k)' = Promise(b, k)
    BY <1>2 DEF Promise, Promised, Whole, Pending
  <2>5. \/ Promise(c, k)' = {}
        \/ /\ Promise(c, k)' = {e.rows[k]} /\ d.rows[k] \in Values /\ e.rows[k] \in Values
           /\ e.rows[k] = d.rows[k] + 1
    <3>1. CASE Promised(c, k)'
      <4>1. /\ answered'[c] = r /\ IsIncrement(q) /\ q.key = k /\ r.status = "found"
        BY <1>3, <3>1 DEF Promised, Whole
      <4>2. AddsOne(k, d, q, Result(e, r))
        BY <2>2, <4>1 DEF LeavesIt, Result
      <4>3. Promise(c, k)' = {r.value}
        BY <3>1, <4>1 DEF Promise
      <4>. QED  BY <4>2, <4>3 DEF AddsOne, Result
    <3>2. CASE ~Promised(c, k)'
      BY <3>2 DEF Promise
    <3>. QED  BY <3>1, <3>2
  <2>6. PICK w, v, g : w = Promises(k) /\ v = Promises(k)' /\ g = given
    OBVIOUS
  <2>7. v[c] = Promise(c, k)' /\ \A b \in Clients \ {c} : v[b] = w[b]
    BY <2>4, <2>6 DEF Promises
  <2>8. Numbers(k, d, g, w)
    BY <1>4, <2>1, <2>6
  <2>. QED  BY <2>3, <2>5, <2>6, <2>7, <2>8, NumbersServed
<1>5. ~unsaved => \A k \in Counters : Numbers(k, e, given, Promises(k)')
  BY <1>4 DEF NumbersInv
<1>. QED  BY <1>5 DEF NumbersInv

LEMMA NumbersServe ==
  ASSUME ClientInv, NumbersInv, NoneFull, NEW c \in Clients, Serve(c)
  PROVE  NumbersInv'
<1>1. Reached(c) /\ db \in Databases(Fds)
  BY Known DEF Serve, Sane
<1>2. PICK q \in Calls(c) : q = Asked(c)
  BY <1>1, AskedIs
<1>3. PICK fd \in Fds : fd = me[c].sock
  BY <1>1, AskedIs
<1>4. PICK done \in Executed(Fds) : done = Execute(db, fd, q)
  BY <1>1, <1>2, <1>3, AskedIs
<1>5. done.reply \in GoodAnswers /\ done.db \in Databases(Fds)
  BY DEF Executed
<1>6. /\ db' = done.db /\ Answer(c, done.reply) /\ given' = given /\ unsaved' = unsaved
      /\ me' = me
  BY <1>2, <1>3, <1>4 DEF Serve
<1>7. done = Result(done.db, done.reply)
  BY DEF Executed, Result
<1>8. ASSUME NEW k \in Counters
      PROVE  AddsOne(k, db, q, done) \/ LeavesIt(k, db, q, done)
  <2>1. k \in Keys /\ k # None /\ db.rows[k] # Limit - 1
    BY NoneIsApart DEF Counters, NoneFull
  <2>2. q.op # "clear" /\ (q.key = k => q.op \notin {"store", "delete", "packdec", "dec"})
    BY <2>1 DEF Counters, CountedUp, Calls, CloseRequest
  <2>3. q \in [op : Operations, key : Keys, value : Values, big : BOOLEAN] \cup {CloseRequest}
    BY ClientConstants DEF Calls
  <2>. QED  BY <1>1, <1>4, <2>1, <2>2, <2>3, AddsOrLeaves
<1>9. \A k \in Counters : \/ AddsOne(k, db, q, Result(done.db, done.reply))
                          \/ LeavesIt(k, db, q, Result(done.db, done.reply))
  BY <1>7, <1>8
<1>. QED  BY <1>1, <1>2, <1>5, <1>6, <1>9, NumbersAnswered

LEMMA NumbersServeFails ==
  ASSUME ClientInv, NumbersInv, NEW c \in Clients, ServeFails(c)
  PROVE  NumbersInv'
<1>1. Reached(c) /\ db \in Databases(Fds)
  BY Known DEF ServeFails, Sane
<1>2. PICK q \in Calls(c) : q = Asked(c)
  BY <1>1, AskedIs
<1>3. me[c].sock \in Fds
  BY <1>1, AskedIs
<1>4. PICK e \in Databases(Fds) : e = db' /\ e.rows = db.rows
  BY <1>1, <1>3, UsedIsDatabase DEF ServeFails
<1>5. Answer(c, Failed) /\ given' = given /\ unsaved' = unsaved /\ me' = me /\ Failed \in GoodAnswers
  BY AnswersAreGood DEF ServeFails
<1>. QED  BY <1>1, <1>2, <1>4, <1>5, NumbersAnswered

-----------------------------------------------------------------------------
(* After a round c is not waiting for an answer. *)
Waitless(c) ==
  me'[c].pc # "sent" /\ \A b \in Clients \ {c} : me'[b] = me[b]

LEMMA ReturnIsWaitless ==
  ASSUME ClientInv, NEW c \in Clients, NEW m \in Types(c), Return(c, m)
  PROVE  Waitless(c)
<1>1. DOMAIN me = Clients
  BY DEF ClientInv, Shape
<1>2. CASE m.request = CloseRequest
  <2>1. me' = [me EXCEPT ![c] = Closed]
    BY <1>2 DEF Return
  <2>2. Closed.pc = "closed"
    BY DEF Closed, Fresh
  <2>. QED  BY <1>1, <2>1, <2>2 DEF Waitless
<1>3. CASE m.request # CloseRequest
  <2>1. me' = [me EXCEPT ![c] = [m EXCEPT !.pc = "idle"]]
    BY <1>3 DEF Return
  <2>. QED  BY <1>1, <2>1 DEF Waitless, Types
<1>. QED  BY <1>2, <1>3

LEMMA FailsIsWaitless ==
  ASSUME ClientInv, NEW c \in Clients, me[c].pc \in Busy, NEW err \in Errors, Fails(c, err)
  PROVE  Waitless(c)
BY FailsLeaves DEF Leaves, Waitless

LEMMA RoundIsWaitless ==
  ASSUME ClientInv, NEW c \in Clients, NEW m \in Types(c), Round(c, m)
  PROVE  Waitless(c)
<1>1. DOMAIN me = Clients
  BY DEF ClientInv, Shape
<1>2. CASE me[c].errs + 1 = MaxTries
  <2>1. Return(c, [m EXCEPT !.errs = MaxTries])
    BY <1>2 DEF Round
  <2>2. [m EXCEPT !.errs = MaxTries] \in Types(c)
    BY ClientConstants DEF Types
  <2>. QED  BY <2>1, <2>2, ReturnIsWaitless
<1>3. CASE me[c].errs + 1 # MaxTries
  <2>1. me' = [me EXCEPT ![c] = [m EXCEPT !.pc = "try", !.errs = m.errs + 1]]
    BY <1>3 DEF Round
  <2>. QED  BY <1>1, <2>1 DEF Waitless, Types
<1>. QED  BY <1>2, <1>3

(* An answer that is handed on, or taken for one. *)
LEMMA HandedOn ==
  ASSUME ClientInv, NEW c \in Clients, NEW r \in Replies, r.status # "error",
         Return(c, [me[c] EXCEPT !.err = "none", !.retval = Status(r), !.reply = r])
  PROVE  Waitless(c)
<1>1. ASSUME NEW m \in Types(c)
      PROVE  [m EXCEPT !.err = "none", !.retval = Status(r), !.reply = r] \in Types(c)
  BY DEF Types, Errors, Status
<1>2. me[c] \in Types(c)
  BY Known DEF Sane
<1>. QED  BY <1>1, <1>2, ReturnIsWaitless

LEMMA ReceiveIsWaitless ==
  ASSUME ClientInv, NEW c \in Clients, Receive(c)
  PROVE  Waitless(c)
<1>1. Reading(c) /\ me[c].pc \in Busy /\ Read(c) \in GoodAnswers
  BY FirstAnswer DEF Receive, Reading, Busy
<1>2. CASE Fails(c, "proto") \/ Fails(c, "error")
  BY <1>1, <1>2, FailsIsWaitless DEF Errors
<1>3. CASE /\ Read(c) # Failed
           /\ Return(c, [me[c] EXCEPT !.err = "none", !.retval = Status(Read(c)), !.reply = Read(c)])
  <2>1. Read(c) \in Replies /\ Read(c).status # "error"
    BY <1>1, <1>3 DEF GoodAnswers
  <2>. QED  BY <1>3, <2>1, HandedOn
<1>. QED  BY <1>2, <1>3 DEF Receive

LEMMA TearIsWaitless ==
  ASSUME ClientInv, NEW c \in Clients, Tear(c)
  PROVE  Waitless(c)
<1>1. ASSUME NEW m \in Types(c)
      PROVE  /\ [m EXCEPT !.err = "error", !.torn = TRUE] \in Types(c)
             /\ [m EXCEPT !.err = "error", !.lost = TRUE] \in Types(c)
  BY DEF Types, Errors
<1>2. me[c] \in Types(c)
  BY Known DEF Sane
<1>. QED  BY <1>1, <1>2, ReturnIsWaitless DEF Tear

LEMMA NoiseIsWaitless ==
  ASSUME ClientInv, NEW c \in Clients, Noise(c)
  PROVE  Waitless(c)
<1>1. me[c].pc \in Busy
  BY DEF Noise, Busy
<1>2. CASE Fails(c, "proto") \/ Fails(c, "error")
  BY <1>1, <1>2, FailsIsWaitless DEF Errors
<1>3. ASSUME NEW r \in {Found(None, None), NotFound},
             Return(c, [me[c] EXCEPT !.err = "none", !.retval = Status(r), !.reply = r])
      PROVE  Waitless(c)
  <2>1. r \in Replies /\ r.status # "error"
    <3>1. r \in GoodAnswers
      BY AnswersAreGood
    <3>2. Found(None, None).status = "found" /\ NotFound.status = "notfound"
      BY DEF Found, NotFound
    <3>. QED  BY <3>1, <3>2 DEF GoodAnswers
  <2>. QED  BY <1>3, <2>1, HandedOn
<1>. QED  BY <1>2, <1>3 DEF Noise

(* dbms_comms hands out the number that its client was promised. *)
LEMMA NumbersReceive ==
  ASSUME ClientInv, NumbersInv, NEW c \in Clients, Receive(c)
  PROVE  NumbersInv'
<1>1. Sane(c) /\ Reading(c) /\ wire[c].replies # <<>>
  BY Known DEF Receive, Reading
<1>2. /\ \A b \in Clients \ {c} : wire'[b] = wire[b] /\ answered'[b] = answered[b] /\ me'[b] = me[b]
      /\ me'[c].pc # "sent" /\ db' = db /\ unsaved' = unsaved
  <2>1. Waitless(c) /\ DOMAIN wire = Clients
    BY <1>1, ReceiveIsWaitless DEF Sane
  <2>2. Rest(c) /\ db' = db /\ unsaved' = unsaved /\ answered' = answered
    BY DEF Receive
  <2>. QED  BY <2>1, <2>2 DEF Rest, Waitless
<1>3. CASE given' = given
  BY <1>2, <1>3, NumbersRest
<1>4. CASE given' # given
  <2>1. PICK q \in Calls(c) : q = me[c].request
    BY <1>1 DEF Sane, Types
  <2>2. /\ ~OutOfStep(c) /\ Read(c).status = "found" /\ IsIncrement(q)
        /\ given' = Append(given, <<q.key, Read(c).value>>)
    BY <1>4, <2>1, Zenon DEF Receive, Accepted
  <2>3. Read(c) \in GoodAnswers /\ Read(c) # Failed
    BY <1>1, <2>2, FirstAnswer DEF Failed
  <2>4. me[c].selected /\ wire[c].sent = <<>> /\ Read(c) = answered[c]
    BY <1>1, <2>2, <2>3, FirstAnswer
  <2>5. Whole(c) /\ Pending(c)
    BY <1>1, <2>4 DEF Reading, Torn, Whole, Pending, Sane, Linked
  <2>6. q.key \in Keys
    BY <2>2, ClientConstants DEF Calls, CloseRequest, IsIncrement
  <2>7. PICK p \in Keys \X (Values \cup {None}) :
          p = <<q.key, answered[c].value>> /\ given' = Append(given, p)
    <3>1. Read(c).value \in Values \cup {None}
      BY <2>3 DEF GoodAnswers, Replies
    <3>. QED  BY <2>2, <2>4, <2>6, <3>1
  <2>8. PICK d, g : d = db /\ g = given
    OBVIOUS
  <2>9. g \in Seq(Keys \X (Values \cup {None}))
    BY <2>8 DEF NumbersInv
  <2>10. ASSUME NEW k \in Counters, Numbers(k, d, g, Promises(k))
         PROVE  Numbers(k, d, Append(g, p), Promises(k)')
    <3>1. \A b \in Clients \ {c} : Promise(b, k)' = Promise(b, k)
      BY <1>2 DEF Promise, Promised, Whole, Pending
    <3>2. Promise(c, k)' = {}
      BY <1>2 DEF Promise, Promised, Pending
    <3>3. p[1] = k => p[2] \in Promise(c, k)
      BY <2>1, <2>2, <2>4, <2>5, <2>7 DEF Promise, Promised
    <3>4. PICK w, v : w = Promises(k) /\ v = Promises(k)'
      OBVIOUS
    <3>5. w[c] = Promise(c, k) /\ v[c] = {} /\ \A b \in Clients \ {c} : v[b] = w[b]
      BY <3>1, <3>2, <3>4 DEF Promises
    <3>6. Numbers(k, d, g, w) /\ (p[1] = k => p[2] \in w[c])
      BY <2>10, <3>3, <3>4, <3>5
    <3>7. Numbers(k, d, Append(g, p), v)
      BY <2>9, <3>5, <3>6, NumbersRead
    <3>. QED  BY <3>4, <3>7
  <2>11. ~unsaved' => \A k \in Counters : Numbers(k, db', given', Promises(k)')
    BY <1>2, <2>7, <2>8, <2>10 DEF NumbersInv
  <2>12. given' \in Seq(Keys \X (Values \cup {None}))
    BY <2>7, <2>8, <2>9
  <2>. QED  BY <2>11, <2>12 DEF NumbersInv
<1>. QED  BY <1>3, <1>4

LEMMA NumbersStep ==
  ASSUME ClientInv, NumbersInv, NoneFull, [Next]_vars
  PROVE  NumbersInv'
<1>0. DOMAIN me = Clients /\ DOMAIN wire = Clients
  BY DEF ClientInv, Shape
<1>1. CASE UNCHANGED vars
  BY <1>1 DEF vars, NumbersInv, Promises, Promise, Promised, Whole, Pending
<1>2. ASSUME NEW c \in Clients, Connect(c) \/ Abort(c)
      PROVE  NumbersInv'
  <2>1. me' = [me EXCEPT ![c] = Closed] \/ \E fd \in Free(c) : me' = [me EXCEPT ![c] = Connected(fd)]
    BY <1>2, Zenon DEF Connect, Abort
  <2>2. Closed.pc = "closed" /\ \A fd : Connected(fd).pc = "idle"
    BY DEF Closed, Connected, Fresh
  <2>3. me'[c].pc # "sent" /\ \A b \in Clients \ {c} : me'[b] = me[b]
    BY <1>0, <2>1, <2>2
  <2>4. wire' = [wire EXCEPT ![c] = Quiet] \/ wire' = wire
    BY <1>2, Zenon DEF Connect, Abort
  <2>5. UNCHANGED <<db, calls, faults, history>>
    BY <1>2, Zenon DEF Connect, Abort
  <2>6. db' = db /\ given' = given /\ unsaved' = unsaved /\ answered' = answered
    BY <2>5 DEF history
  <2>7. \A b \in Clients \ {c} : wire'[b] = wire[b]
    BY <1>0, <2>4
  <2>. QED  BY <2>3, <2>6, <2>7, NumbersRest
<1>3. ASSUME NEW c \in Clients, NEW q \in Requests[c], Call(c, q)
      PROVE  NumbersInv'
  <2>1. me'[c].pc = "try" /\ \A b \in Clients \ {c} : me'[b] = me[b]
    BY <1>0, <1>3, Known DEF Call, Sane, Types
  <2>2. UNCHANGED <<db, wire, faults, unsaved, given, scan>>
    BY <1>3, Zenon DEF Call
  <2>3. \A b \in Clients \ {c} : answered'[b] = answered[b]
    BY <1>3 DEF Call
  <2>. QED  BY <2>1, <2>2, <2>3, NumbersRest
<1>4. ASSUME NEW c \in Clients, Send(c)
      PROVE  NumbersInv'
  <2>1. Sane(c)
    BY Known
  <2>2. wire'[c].sent = Append(wire[c].sent, me[c].request)
    BY <1>0, <1>4, <2>1 DEF Send, Sane, Wires
  <2>3. wire'[c].sent # <<>>
    BY <2>1, <2>2, Appended DEF Sane, Types
  <2>4. \A b \in Clients \ {c} : me'[b] = me[b] /\ wire'[b] = wire[b]
    BY <1>4 DEF Send
  <2>5. UNCHANGED <<db, calls, faults, history>>
    BY <1>4, Zenon DEF Send
  <2>. QED  BY <2>3, <2>4, <2>5, NumbersRest DEF history
<1>5. ASSUME NEW c \in Clients, TooBig(c) \/ CutOff(c) \/ Skip(c) \/ Refuses(c)
      PROVE  NumbersInv'
  <2>1. me[c].pc \in Busy /\ me[c].err \in Errors
    BY <1>5, Known DEF TooBig, CutOff, Skip, Refuses, Attempting, Busy, Sane, Types
  <2>2. \E err \in Errors : Fails(c, err)
    BY <1>5, <2>1 DEF TooBig, CutOff, Skip, Refuses, Errors
  <2>3. Waitless(c)
    BY <2>1, <2>2, FailsIsWaitless
  <2>4. db' = db /\ wire' = wire /\ given' = given /\ unsaved' = unsaved /\ answered' = answered
    BY <1>5 DEF TooBig, CutOff, Skip, Refuses, history
  <2>. QED  BY <2>3, <2>4, NumbersRest DEF Waitless
<1>6. ASSUME NEW c \in Clients, Tear(c) \/ Noise(c)
      PROVE  NumbersInv'
  <2>1. Waitless(c)
    BY <1>6, TearIsWaitless, NoiseIsWaitless
  <2>2. Rest(c) \/ wire' = wire
    BY <1>6 DEF Tear, Noise
  <2>3. \A b \in Clients \ {c} : wire'[b] = wire[b]
    BY <1>0, <2>2 DEF Rest
  <2>4. db' = db /\ given' = given /\ unsaved' = unsaved /\ answered' = answered
    BY <1>6 DEF Tear, Noise, history
  <2>. QED  BY <2>1, <2>3, <2>4, NumbersRest DEF Waitless
<1>7. ASSUME NEW c \in Clients, Reconnect(c) \/ ReconnectFails(c) \/ ReselectFails(c)
      PROVE  NumbersInv'
  <2>1. Waitless(c)
    <3>1. me[c] \in Types(c) /\ Free(c) \subseteq Fds
      BY Known DEF Sane
    <3>2. ASSUME NEW m \in Types(c), NEW err \in Errors, NEW sock \in Fds \cup {None},
                 NEW selected \in BOOLEAN, NEW lost \in BOOLEAN, NEW torn \in BOOLEAN
          PROVE  [m EXCEPT !.err = err, !.sock = sock, !.selected = selected,
                           !.lost = lost, !.torn = torn] \in Types(c)
      BY DEF Types
    <3>3. CASE Reconnect(c)
      <4>1. PICK fd \in Free(c) :
              Round(c, [me[c] EXCEPT !.err = "none", !.sock = fd, !.selected = TRUE,
                                     !.lost = FALSE, !.torn = FALSE])
        BY <3>3 DEF Reconnect
      <4>2. [me[c] EXCEPT !.err = "none", !.sock = fd, !.selected = TRUE,
                          !.lost = FALSE, !.torn = FALSE] \in Types(c)
        BY <3>1, <3>2 DEF Errors
      <4>. QED  BY <4>1, <4>2, RoundIsWaitless
    <3>4. CASE ReconnectFails(c)
      <4>1. [me[c] EXCEPT !.err = "error", !.sock = None, !.selected = FALSE,
                          !.lost = FALSE, !.torn = FALSE] \in Types(c)
        BY <3>1, <3>2 DEF Errors
      <4>. QED  BY <3>4, <4>1, RoundIsWaitless DEF ReconnectFails
    <3>5. CASE ReselectFails(c)
      <4>1. PICK fd \in Free(c), o \in Outcomes :
              Round(c, [me[c] EXCEPT !.err = o.err, !.sock = fd, !.selected = o.selected,
                                     !.lost = o.lost, !.torn = o.torn])
        BY <3>5 DEF ReselectFails
      <4>2. o.err \in Errors /\ o.selected \in BOOLEAN /\ o.lost \in BOOLEAN /\ o.torn \in BOOLEAN
        BY OutcomesAre
      <4>3. [me[c] EXCEPT !.err = o.err, !.sock = fd, !.selected = o.selected,
                          !.lost = o.lost, !.torn = o.torn] \in Types(c)
        BY <3>1, <3>2, <4>2
      <4>. QED  BY <4>1, <4>3, RoundIsWaitless
    <3>. QED  BY <1>7, <3>3, <3>4, <3>5
  <2>2. UNCHANGED <<db, calls, history>>
    BY <1>7, Zenon DEF Reconnect, ReconnectFails, ReselectFails
  <2>3. \A b \in Clients \ {c} : wire'[b] = wire[b]
    <3>1. \E x : wire' = [wire EXCEPT ![c] = x]
      BY <1>7, Zenon DEF Reconnect, ReconnectFails, ReselectFails
    <3>. QED  BY <1>0, <3>1
  <2>. QED  BY <2>1, <2>2, <2>3, NumbersRest DEF Waitless, history
<1>8. ASSUME NEW c \in Clients, ServeUnsaved(c)
      PROVE  NumbersInv'
  <2>1. unsaved' = TRUE /\ given' = given
    BY <1>8, Zenon DEF ServeUnsaved
  <2>. QED  BY <2>1 DEF NumbersInv
<1>. QED  BY <1>1, <1>2, <1>3, <1>4, <1>5, <1>6, <1>7, <1>8, NumbersServe, NumbersServeFails,
             NumbersReceive DEF Next

(* No two increments of a key are answered with the same number, whatever    *)
(* breaks and however often a request is repeated: as long as BerkeleyDB     *)
(* saves what dbmsd says it saved, the key is only counted up, and it stays  *)
(* below the number at which it wraps.                                       *)
THEOREM NumbersAreNew == Spec /\ []NoneFull => []NumbersDiffer
<1>1. Init => NumbersInv
  <2>. SUFFICES ASSUME Init PROVE NumbersInv
    OBVIOUS
  <2>1. given = <<>>
    BY DEF Init
  <2>2. ASSUME NEW k
        PROVE  GivenOf(k, <<>>) = {} /\ GivenOnce(k, <<>>)
    BY DEF GivenOf, GivenOnce
  <2>3. \A c \in Clients : me[c].pc # "sent"
    <3>1. Closed.pc = "closed" /\ \A fd : Connected(fd).pc = "idle"
      BY DEF Closed, Connected, Fresh
    <3>. QED  BY <3>1 DEF Init
  <2>4. ASSUME NEW k \in Counters
        PROVE  Numbers(k, db, given, Promises(k))
    <3>1. \A c \in Clients : Promises(k)[c] = {}
      BY <2>3 DEF Promises, Promise, Promised, Pending
    <3>. QED  BY <2>1, <2>2, <3>1 DEF Numbers
  <2>. QED  BY <2>1, <2>4 DEF NumbersInv
<1>2. ClientInv /\ NumbersInv /\ NoneFull /\ [Next]_vars => NumbersInv'
  BY NumbersStep
<1>3. NumbersInv => NumbersDiffer
  <2>. SUFFICES ASSUME NumbersInv, ~unsaved, NEW k \in Counters
                PROVE  NewNumbers(k)
    BY DEF NumbersDiffer, Counters
  <2>1. GivenOnce(k, given) /\ DOMAIN given = 1 .. Len(given)
    BY DEF NumbersInv, Numbers
  <2>. QED  BY <2>1 DEF GivenOnce, NewNumbers
<1>. QED  BY <1>1, <1>2, <1>3, ClientInvariant, PTL DEF Spec
=============================================================================
