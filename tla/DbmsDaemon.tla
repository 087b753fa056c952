----------------------------- MODULE DbmsDaemon -----------------------------
(* dbmsd: a mother process that accepts connections and reads their first    *)
(* request, child processes that own the databases, and the hand-off of a    *)
(* connection from the one to the other. Each process runs select_loop: it   *)
(* takes what is ready, serves it in the order of its list of connections,   *)
(* newest first, and then cleans up what was marked.                         *)
EXTENDS Integers, Sequences, FiniteSets, Functions

CONSTANTS
  None,
  Conns,        \* connections of clients, each used once
  Databases,
  Forbidden,    \* the databases that the rules refuse
  MaxForks,     \* bound of the model: children ever created
  MaxProcesses, \* max_processes
  MaxClients,   \* max_clients
  MaxDbs,       \* database records a child ever needs at a time
  MaxFaults,    \* bound of the model: processes that die, opens that fail
  Cuts          \* clients may leave in the middle of an answer, or drop a database

Mother   == 0
Children == 1 .. MaxForks
Procs    == Mother .. MaxForks
Recs     == 1 .. MaxForks
Slots    == 1 .. MaxDbs

ASSUME DaemonConstants ==
  /\ Forbidden \subseteq Databases
  /\ MaxForks \in Nat /\ MaxProcesses \in Nat \ {0} /\ MaxClients \in Nat /\ MaxDbs \in Nat
  /\ MaxFaults \in Nat /\ Cuts \in BOOLEAN
  /\ Conns \cap Procs = {} /\ None \notin Databases

VARIABLES
  link,         \* a client's connection, as both ends see it
  queue,        \* connections not yet accepted
  phase,        \* where a process is in select_loop
  list,         \* client_list of a process: connections, and the sockets to other processes
  todo,         \* what remains of that list in this round, of what was ready
  closing,      \* the members of the list that are marked close
  channel,      \* connections handed to a child that it has not taken
  dbp,          \* the database record a connection points to in its child, or 0
  slot,         \* the database records of a child
  handler,      \* in the mother: the record of the child that handles a database, or 0
  rec,          \* in the mother: child records; r is the socket, by the child at its end
  children,     \* in the mother: the child records that she counts
  stray,        \* in the mother: the child whose freed record is her list of children, or 0
  unhandled,    \* in the mother: databases with a record that names no child
  faults,
  cut           \* history: a connection or a database was dropped in the middle of a round

vars == <<link, queue, phase, list, todo, closing, channel, dbp, slot, handler, rec,
          children, stray, unhandled, faults, cut>>
mothers == <<handler, rec, children, stray, unhandled>>
childs  == <<dbp, slot, cut>>

Unused  == [want |-> None, input |-> "none", waiting |-> FALSE, selected |-> FALSE,
            out |-> FALSE, gone |-> FALSE, shut |-> FALSE]
NoDbase == [name |-> None, clients |-> 0, close |-> FALSE]
NoRec   == [r |-> Mother, close |-> FALSE, dbs |-> 0]

Init ==
  /\ link = [x \in Conns |-> Unused]
  /\ queue = <<>>
  /\ phase = [p \in Procs |-> IF p = Mother THEN "select" ELSE "none"]
  /\ list = [p \in Procs |-> <<>>] /\ todo = [p \in Procs |-> <<>>]
  /\ closing = [p \in Procs |-> {}] /\ channel = [p \in Procs |-> <<>>]
  /\ dbp = [x \in Conns |-> 0]
  /\ slot = [p \in Procs |-> [s \in Slots |-> NoDbase]]
  /\ handler = [d \in Databases |-> 0]
  /\ rec = [k \in Recs |-> NoRec] /\ children = <<>>
  /\ stray = 0 /\ unhandled = {}
  /\ faults = 0 /\ cut = FALSE

HandingOff == {"handoff", "sent", "passed"}
Running(p) == phase[p] \in {"select", "serve"} \cup HandingOff
OneFault == faults < MaxFaults /\ faults' = faults + 1
Set(f, S, v) == [x \in DOMAIN f |-> IF x \in S THEN v ELSE f[x]]

(* The members of a list that are, or are not, in a set, in their order.     *)
Picked(s, I) == [n \in 1 .. Cardinality(I) |->
                   s[CHOOSE i \in I : Cardinality({j \in I : j < i}) = n - 1]]
Only(s, S)    == Picked(s, {i \in DOMAIN s : s[i] \in S})
Without(s, S) == Picked(s, {i \in DOMAIN s : s[i] \notin S})

-----------------------------------------------------------------------------
(* Clients: any program that follows the protocol. A client connects (which  *)
(* does not matter: the next one) and asks for a database at once; selected, *)
(* it makes requests one by one; it may leave at any time.                   *)
Open(x, d) ==
  /\ link[x] = Unused /\ x = CHOOSE y \in Conns : link[y] = Unused
  /\ phase[Mother] # "dead"
  /\ link' = [link EXCEPT ![x].want = d, ![x].input = "init", ![x].waiting = TRUE]
  /\ queue' = Append(queue, x)
  /\ UNCHANGED <<phase, list, todo, closing, channel, childs, mothers, faults>>

Present(x) == link[x].want # None /\ ~link[x].gone /\ ~link[x].shut

Ask(x, what) ==
  /\ Present(x) /\ link[x].selected /\ ~link[x].waiting
  /\ what = "drop" => Cuts
  /\ link' = [link EXCEPT ![x].input = what, ![x].waiting = TRUE]
  /\ UNCHANGED <<queue, phase, list, todo, closing, channel, childs, mothers, faults>>

(* What a client that leaves has sent may still be read.                     *)
Leave(x) ==
  /\ Present(x) /\ (link[x].out => Cuts)
  /\ \E i \in {link[x].input, "none"} :
       link' = [link EXCEPT ![x].gone = TRUE, ![x].waiting = FALSE, ![x].input = i]
  /\ UNCHANGED <<queue, phase, list, todo, closing, channel, childs, mothers, faults>>

-----------------------------------------------------------------------------
(* A hand-off: the connection, and the child that handles its database.      *)
InHand   == Head(todo[Mother])
Receiver == rec[handler[link[InHand].want]].r

(* The sockets at which something can be read or written without waiting.    *)
Readable(p, e) ==
  IF e \in Conns THEN link[e].input # "none" \/ link[e].gone
  ELSE IF p = Mother THEN phase[e] = "dead"
  ELSE \/ channel[p] # <<>> \/ phase[Mother] = "dead"
       \/ phase[Mother] = "sent" /\ Receiver = p
Writable(e) == e \in Conns /\ link[e].out
Ready(p) == Only(list[p], {e \in Range(list[p]) : Readable(p, e) \/ Writable(e)})

(* mutant: a connection too many is left open. *)
Mut_LeftOpen ==
  IF queue = <<>> THEN UNCHANGED <<link, queue, list>>
  ELSE /\ queue' = Tail(queue)
       /\ IF Len(list[Mother]) >= MaxClients THEN UNCHANGED <<link, list>>
          ELSE list' = [list EXCEPT ![Mother] = <<Head(queue)>> \o @] /\ UNCHANGED link

(* accept: a connection too many is told so and closed *)
Accept ==
  IF queue = <<>> THEN UNCHANGED <<link, queue, list>>
  ELSE /\ queue' = Tail(queue)
       /\ IF Len(list[Mother]) >= MaxClients
          THEN /\ link' = [link EXCEPT ![Head(queue)].shut = TRUE, ![Head(queue)].waiting = FALSE]
               /\ UNCHANGED list
          ELSE list' = [list EXCEPT ![Mother] = <<Head(queue)>> \o @] /\ UNCHANGED link

Select(p) ==
  /\ phase[p] = "select"
  /\ Ready(p) # <<>> \/ (p = Mother /\ queue # <<>>)
  /\ phase' = [phase EXCEPT ![p] = "serve"]
  /\ todo' = [todo EXCEPT ![p] = Ready(p)]
  /\ IF p = Mother THEN Accept ELSE UNCHANGED <<link, queue, list>>
  /\ UNCHANGED <<closing, channel, childs, mothers, faults>>

(* A process that ends: the kernel closes its sockets, and the connections   *)
(* on their way to it. A connection closes with its last descriptor.         *)
Held(p) == (Range(list[p]) \cup Range(channel[p])
              \cup (IF p = Mother THEN Range(queue) ELSE {})) \cap Conns
OnlyIn(p, S) == S \ UNION {Held(q) : q \in Procs \ {p}}
Gone(l, S) == [x \in Conns |-> IF x \in S THEN [l[x] EXCEPT !.shut = TRUE, !.waiting = FALSE,
                                                              !.out = FALSE, !.input = "none"]
                                           ELSE l[x]]
Ends(p) ==
  /\ phase' = [phase EXCEPT ![p] = "dead"]
  /\ link' = Gone(link, OnlyIn(p, Held(p)))
  /\ list' = [list EXCEPT ![p] = <<>>] /\ todo' = [todo EXCEPT ![p] = <<>>]
  /\ closing' = [closing EXCEPT ![p] = {}] /\ channel' = [channel EXCEPT ![p] = <<>>]
  /\ slot' = [slot EXCEPT ![p] = [s \in Slots |-> NoDbase]]
  /\ dbp' = Set(dbp, IF p = Mother THEN {} ELSE Held(p), 0)

(* Nothing for ten minutes: a child without a database, or with nobody but   *)
(* its mother, stops; another one makes a round without work.                *)
Idle(p) == {s \in Slots : slot[p][s].name # None} = {} \/ Len(list[p]) < 2

TimeOut(p) ==
  /\ p # Mother /\ phase[p] = "select" /\ Ready(p) = <<>> /\ ~Idle(p)
  /\ phase' = [phase EXCEPT ![p] = "serve"]
  /\ UNCHANGED <<link, queue, list, todo, closing, channel, childs, mothers, faults>>

Stop(p) ==
  /\ p # Mother /\ phase[p] = "select" /\ Ready(p) = <<>> /\ Idle(p)
  /\ OneFault /\ Ends(p)
  /\ UNCHANGED <<queue, mothers, cut>>

Die(p) ==
  /\ Running(p)
  /\ OneFault /\ Ends(p)
  /\ queue' = IF p = Mother THEN <<>> ELSE queue
  /\ UNCHANGED <<mothers, cut>>

(* SIGCHLD: childied marks the record of the child, if it is on the list.    *)
Childied(k) ==
  /\ stray = 0 /\ k \in Range(children) /\ phase[rec[k].r] = "dead" /\ ~rec[k].close
  /\ rec' = [rec EXCEPT ![k].close = TRUE]
  /\ UNCHANGED <<link, queue, phase, list, todo, closing, channel, childs, handler,
                 children, stray, unhandled, faults>>

-----------------------------------------------------------------------------
(* One connection of a round.                                                *)
Turn(p, e) == phase[p] = "serve" /\ todo[p] # <<>> /\ e = Head(todo[p])
Skipped(p, e) == e \in closing[p] \/ e \notin Range(list[p])
Done(p) == todo' = [todo EXCEPT ![p] = Tail(@)]
Answer(l, x) == [l EXCEPT ![x].input = "none", ![x].waiting = FALSE]
Mark(p, S) == closing' = [closing EXCEPT ![p] = @ \cup (S \cap Range(list[p]))]

Skip(p) ==
  /\ phase[p] = "serve" /\ todo[p] # <<>> /\ Skipped(p, Head(todo[p]))
  /\ Done(p)
  /\ UNCHANGED <<link, queue, phase, list, closing, channel, childs, mothers, faults>>

(* mutant: an end of file is taken for a socket that is not ready. *)
Mut_EofIgnored(p, e) ==
  /\ Turn(p, e) /\ ~Skipped(p, e)
  /\ IF e \in Conns THEN link[e].gone /\ link[e].input = "none" /\ ~link[e].out
     ELSE p = Mother
  /\ Done(p)
  /\ UNCHANGED <<link, queue, phase, list, closing, channel, childs, mothers, faults>>

(* The other end was closed: initial_read marks the connection. A client     *)
(* that left with a request in its socket is read first.                     *)
Eof(p, e) ==
  /\ Turn(p, e) /\ ~Skipped(p, e)
  /\ IF e \in Conns THEN link[e].gone /\ link[e].input = "none" /\ ~link[e].out
     ELSE p = Mother
  /\ Mark(p, {e}) /\ Done(p)
  /\ UNCHANGED <<link, queue, phase, list, channel, childs, mothers, faults>>

(* The mother died: free_connection ends the child.                          *)
MumLost(p) ==
  /\ Turn(p, Mother) /\ channel[p] = <<>> /\ phase[Mother] = "dead"
  /\ Ends(p)
  /\ UNCHANGED <<queue, mothers, cut, faults>>

-----------------------------------------------------------------------------
(* do_init, in the mother.                                                   *)
Asked(x) == /\ Turn(Mother, x) /\ ~Skipped(Mother, x) /\ x \in Conns
            /\ link[x].input = "init"
Allowed(x) == Asked(x) /\ link[x].want \notin Forbidden
(* get_dbp: no record of the database *)
Unknown(x) == Allowed(x) /\ handler[link[x].want] = 0 /\ link[x].want \notin unhandled

Unborn == {p \in Children : phase[p] = "none"}
AtLimit == Len(list[Mother]) >= MaxClients

(* An error is answered, and the connection stays: the rules refuse the      *)
(* database, or no child can be created.                                     *)
Refuse(x) ==
  /\ \/ Asked(x) /\ link[x].want \in Forbidden /\ UNCHANGED faults
     \/ Unknown(x) /\ Len(children) < MaxProcesses /\ OneFault
     \/ Unknown(x) /\ Len(children) < MaxProcesses /\ Unborn = {} /\ UNCHANGED faults
  /\ link' = Answer(link, x) /\ Done(Mother)
  /\ UNCHANGED <<queue, phase, list, closing, channel, childs, mothers>>

(* handoff_fd begins: the request has been read.                             *)
Begin(x) == link' = [link EXCEPT ![x].input = "none"]

(* get_dbp: the database is known, and so is its child *)
PassOn(x) ==
  /\ Allowed(x) /\ handler[link[x].want] # 0
  /\ Begin(x) /\ phase' = [phase EXCEPT ![Mother] = "handoff"]
  /\ UNCHANGED <<queue, list, todo, closing, channel, childs, mothers, faults>>

(* get_dbp: a new child, to which the database is given *)
Fork(x, p, k) ==
  /\ Unknown(x) /\ Len(children) < MaxProcesses /\ stray = 0 /\ ~AtLimit
  /\ p \in Children /\ phase[p] = "none" /\ k \notin Range(children)
  /\ rec' = [rec EXCEPT ![k] = [r |-> p, close |-> FALSE, dbs |-> 1]]
  /\ children' = <<k>> \o children
  /\ handler' = [handler EXCEPT ![link[x].want] = k]
  /\ Begin(x) /\ phase' = [phase EXCEPT ![p] = "select", ![Mother] = "handoff"]
  /\ list' = [list EXCEPT ![Mother] = <<p>> \o @, ![p] = <<Mother>>]
  /\ UNCHANGED <<queue, todo, closing, channel, childs, stray, unhandled, faults>>

(* get_dbp: the socket to the new child is one too many, in both processes.  *)
(* The child has no mother. The mother frees its record and leaves it on her *)
(* list, in the place of all the others; an error is answered. errno decides *)
(* whether she forgets the database or takes herself for the child.          *)
ForkRefused(x, p) ==
  /\ Unknown(x) /\ Len(children) < MaxProcesses /\ AtLimit
  /\ p \in Children /\ phase[p] = "none"
  /\ phase' = [phase EXCEPT ![p] = "select"] /\ stray' = p
  /\ unhandled' \in {unhandled, unhandled \cup {link[x].want}}
  /\ link' = Answer(link, x) /\ Done(Mother)
  /\ UNCHANGED <<queue, list, closing, channel, childs, handler, rec, children, faults>>

(* get_dbp: no more children; the loop takes the one with the fewest         *)
(* databases, but forgets one that has none                                  *)
Load(i) == rec[children[i]].dbs
Remembered == {i \in DOMAIN children :
                 \A j \in i .. Len(children) : Load(j) = 0 => i = Len(children)}
LeastLoaded == children[CHOOSE i \in Remembered : \A j \in Remembered :
                          Load(i) < Load(j) \/ (Load(i) = Load(j) /\ i <= j)]

Assign(x) ==
  /\ Unknown(x) /\ Len(children) >= MaxProcesses
  /\ rec' = [rec EXCEPT ![LeastLoaded].dbs = @ + 1]
  /\ handler' = [handler EXCEPT ![link[x].want] = LeastLoaded]
  /\ Begin(x) /\ phase' = [phase EXCEPT ![Mother] = "handoff"]
  /\ UNCHANGED <<queue, list, todo, closing, channel, childs, children, stray, unhandled,
                 faults>>

(* The end of the mother after a refused fork: the record of the database    *)
(* names no child; or the next fork takes the freed record again and ties    *)
(* the list to itself, which an assertion finds at the end of the round      *)
(* (brought forward to the fork).                                            *)
Wreck(x) ==
  /\ \/ Allowed(x) /\ link[x].want \in unhandled
     \/ Unknown(x) /\ stray # 0 /\ ~AtLimit
  /\ Ends(Mother) /\ queue' = <<>>
  /\ UNCHANGED <<mothers, cut, faults>>

-----------------------------------------------------------------------------
(* handoff_fd: a first message tells the child, a second one carries the     *)
(* socket, and the mother forgets the connection. atomic_send to a child     *)
(* that is no more never ends, since it takes every error for EAGAIN.        *)
NeverSent == phase[Receiver] = "dead"

SendNotice ==
  /\ phase[Mother] = "handoff"
  /\ phase' = [phase EXCEPT ![Mother] = IF NeverSent THEN "spin" ELSE "sent"]
  /\ UNCHANGED <<link, queue, list, todo, closing, channel, childs, mothers, faults>>

SendSocket ==
  /\ phase[Mother] = "sent"
  /\ phase' = [phase EXCEPT ![Mother] = IF NeverSent THEN "spin" ELSE "passed"]
  /\ channel' = IF NeverSent THEN channel ELSE [channel EXCEPT ![Receiver] = Append(@, InHand)]
  /\ UNCHANGED <<link, queue, list, todo, closing, childs, mothers, faults>>

(* mutant: the mother keeps the connection that she handed off. *)
Mut_ForgetsNot ==
  /\ phase[Mother] = "passed"
  /\ phase' = [phase EXCEPT ![Mother] = "serve"]
  /\ Done(Mother)
  /\ UNCHANGED <<link, queue, list, closing, channel, childs, mothers, faults>>

Forget ==
  /\ phase[Mother] = "passed"
  /\ phase' = [phase EXCEPT ![Mother] = "serve"]
  /\ list' = [list EXCEPT ![Mother] = Without(@, {InHand})]
  /\ link' = Gone(link, OnlyIn(Mother, {InHand}))
  /\ Done(Mother)
  /\ UNCHANGED <<queue, closing, channel, childs, mothers, faults>>

-----------------------------------------------------------------------------
(* do_pass, in a child: takeon_fd, which waits for the second message;       *)
(* handle_new_connection, get_dbp.                                           *)
(* mutant: takeon_fd looks at the message and leaves it in the socket. *)
Mut_PassedAgain(p, x) ==
  /\ Turn(p, Mother) /\ p # Mother /\ channel[p] # <<>> /\ x = Head(channel[p])
  /\ UNCHANGED channel
  /\ Done(p)
Passed(p, x) ==
  /\ Turn(p, Mother) /\ p # Mother /\ channel[p] # <<>> /\ x = Head(channel[p])
  /\ channel' = [channel EXCEPT ![p] = Tail(@)]
  /\ Done(p)
TakeOn(p, x) ==
  /\ Passed(p, x) /\ Len(list[p]) < MaxClients
  /\ list' = [list EXCEPT ![p] = <<x>> \o @]
  /\ UNCHANGED <<queue, phase, mothers, cut>>

Full(p, x) ==
  /\ Passed(p, x) /\ Len(list[p]) >= MaxClients
  /\ link' = Gone(link, OnlyIn(p, {x}))
  /\ UNCHANGED <<queue, phase, list, closing, childs, mothers, faults>>

(* The file is gone, and the connection is marked, or cannot be opened.      *)
OpenFails(p, x) ==
  /\ TakeOn(p, x) /\ OneFault
  /\ link' = Answer(link, x)
  /\ closing' \in {closing, [closing EXCEPT ![p] = @ \cup {x}]}
  /\ UNCHANGED <<dbp, slot>>

(* get_dbp, in a child: the record of the database, or a free one; whether   *)
(* the record is marked close is not looked at                               *)
Matching(p, d) ==
  IF \E s \in Slots : slot[p][s].name = d
  THEN {s \in Slots : slot[p][s].name = d} ELSE {s \in Slots : slot[p][s].name = None}
(* mutant: the second connection to a database is not counted. *)
Mut_AttachedOnce(p, s, d) == [slot[p][s] EXCEPT !.name = d, !.clients = 1]
Attached(p, s, d) ==
  [slot[p][s] EXCEPT !.name = d, !.clients = @ + 1]

Pass(p, x) ==
  /\ TakeOn(p, x)
  /\ \E s \in Matching(p, link[x].want) :
       /\ slot' = [slot EXCEPT ![p][s] = Attached(p, s, link[x].want)]
       /\ dbp' = [dbp EXCEPT ![x] = s]
  /\ link' = [link EXCEPT ![x].input = "none", ![x].waiting = FALSE, ![x].selected = TRUE]
  /\ UNCHANGED <<closing, faults>>

-----------------------------------------------------------------------------
(* A request, in a child; an answer may not go out whole.                    *)
Requested(p, x, what) ==
  /\ Turn(p, x) /\ ~Skipped(p, x) /\ x \in Conns /\ ~link[x].out
  /\ link[x].input = what
  /\ Done(p)
  /\ UNCHANGED <<queue, phase, list, channel, mothers, faults>>

Serve(p, x) ==
  /\ Requested(p, x, "request")
  /\ \/ link' = Answer(link, x)
     \/ link' = [link EXCEPT ![x].input = "none", ![x].out = TRUE]
  /\ UNCHANGED <<closing, childs>>

Close(p, x) ==
  /\ Requested(p, x, "close")
  /\ link' = Answer(link, x) /\ Mark(p, {x})
  /\ UNCHANGED childs

(* do_drop: zap_dbs marks every connection to the database, and frees its    *)
(* record at once                                                            *)
Drop(p, x) ==
  /\ Requested(p, x, "drop")
  /\ link' = Answer(link, x)
  /\ Mark(p, {y \in Conns : dbp[y] = dbp[x]})
  /\ slot' = [slot EXCEPT ![p][dbp[x]] = NoDbase]
  /\ cut' = TRUE
  /\ UNCHANGED dbp

(* continue_send *)
SendMore(p, x) ==
  /\ Turn(p, x) /\ ~Skipped(p, x) /\ x \in Conns /\ link[x].out /\ ~link[x].gone
  /\ link' = [link EXCEPT ![x].out = FALSE, ![x].waiting = FALSE]
  /\ Done(p)
  /\ UNCHANGED <<queue, phase, list, closing, channel, childs, mothers, faults>>

(* free_connection: the last connection to a database marks it close *)
Released(sl, S) ==
  [s \in Slots |->
     LET n == sl[s].clients - Cardinality({x \in S : dbp[x] = s})
     IN  IF sl[s].name = None \/ n = sl[s].clients THEN sl[s]
         ELSE [sl[s] EXCEPT !.clients = n, !.close = @ \/ n <= 0]]

(* Something to read while an answer is not out: the connection is zapped    *)
(* there and then.                                                           *)
CutOff(p, x) ==
  /\ Turn(p, x) /\ ~Skipped(p, x) /\ x \in Conns /\ link[x].out /\ link[x].gone
  /\ slot' = [slot EXCEPT ![p] = Released(slot[p], {x})]
  /\ dbp' = [dbp EXCEPT ![x] = 0]
  /\ link' = Gone(link, OnlyIn(p, {x}))
  /\ list' = [list EXCEPT ![p] = Without(@, {x})]
  /\ cut' = TRUE
  /\ Done(p)
  /\ UNCHANGED <<queue, phase, closing, channel, mothers, faults>>

-----------------------------------------------------------------------------
(* The end of a round: connections, then children, then databases.           *)
Finished(p) == phase[p] = "serve" /\ todo[p] = <<>>
Zapped(p) == closing[p] \cap Range(list[p])
Kept(p) == [list EXCEPT ![p] = Without(@, closing[p])]

CleanChild(p) ==
  LET left == Released(slot[p], Zapped(p) \cap Conns)
      dead == {s \in Slots : left[s].close}
  IN  /\ Finished(p) /\ p # Mother
      /\ phase' = [phase EXCEPT ![p] = "select"]
      /\ list' = Kept(p)
      /\ link' = Gone(link, OnlyIn(p, Zapped(p) \cap Conns))
      /\ dbp' = Set(dbp, Zapped(p) \cap Conns, 0)
      /\ slot' = [slot EXCEPT ![p] = Set(left, dead, NoDbase)]
      /\ closing' = [closing EXCEPT ![p] =
                       {x \in Range(list'[p]) \cap Conns : dbp[x] \in dead}]
      /\ UNCHANGED <<queue, todo, channel, mothers, faults, cut>>

(* free_connection of a child's socket marks its databases and its record;   *)
(* a record on the list that is marked goes, and its socket is marked        *)
(* mutant: the end of a client in the mother is taken for that of the child. *)
Mut_LostWithClient == {d \in Databases : \E x \in Zapped(Mother) \cap Conns :
                         handler[d] # 0 /\ link[x].want = d}
Lost == {d \in Databases : handler[d] # 0 /\ rec[handler[d]].r \in Zapped(Mother)}
Losers == {handler[d] : d \in Lost}
MarkedChildren ==
  IF stray # 0 THEN {} ELSE {k \in Range(children) : rec[k].close} \cup Losers
(* It reads the child of every database.                                     *)
Astray == Zapped(Mother) \cap Children # {} /\ unhandled # {}

CleanMother ==
  /\ Finished(Mother) /\ ~Astray
  /\ phase' = [phase EXCEPT ![Mother] = "select"]
  /\ list' = Kept(Mother)
  /\ link' = Gone(link, Zapped(Mother) \cap Conns)
  /\ handler' = Set(handler, Lost, 0)
  /\ children' = Without(children, MarkedChildren)
  /\ rec' = [k \in Recs |->
               IF k \in MarkedChildren \cup Losers THEN [rec[k] EXCEPT !.close = TRUE]
               ELSE rec[k]]
  /\ closing' = [closing EXCEPT ![Mother] =
                   {rec[k].r : k \in MarkedChildren} \cap Range(list'[Mother])]
  /\ UNCHANGED <<queue, todo, channel, childs, stray, unhandled, faults>>

(* The freed record, marked by childied, is freed again, which an assertion  *)
(* refuses; or a database has no child.                                      *)
Abort ==
  /\ Finished(Mother)
  /\ Astray \/ (stray # 0 /\ phase[stray] = "dead")
  /\ Ends(Mother) /\ queue' = <<>>
  /\ UNCHANGED <<mothers, cut, faults>>

-----------------------------------------------------------------------------
Round(p) ==
  \/ Select(p) \/ TimeOut(p) \/ Skip(p) \/ MumLost(p)
  \/ \E e \in Conns \cup Children : Eof(p, e)
  \/ \E x \in Conns : \/ Full(p, x) \/ Pass(p, x)
                      \/ Serve(p, x) \/ Close(p, x) \/ Drop(p, x)
                      \/ SendMore(p, x) \/ CutOff(p, x)
  \/ CleanChild(p)
MotherRound ==
  \/ Round(Mother)
  \/ \E x \in Conns : \/ Refuse(x) \/ PassOn(x) \/ Assign(x) \/ Wreck(x)
                      \/ \E p \in Children : ForkRefused(x, p) \/ \E k \in Recs : Fork(x, p, k)
  \/ SendNotice \/ SendSocket \/ Forget
  \/ CleanMother \/ Abort

Next ==
  \/ \E x \in Conns : \/ \E d \in Databases : Open(x, d)
                      \/ \E what \in {"request", "close", "drop"} : Ask(x, what)
                      \/ Leave(x)
  \/ MotherRound
  \/ \E p \in Children : Round(p) \/ \E x \in Conns : OpenFails(p, x)
  \/ \E p \in Procs : Stop(p) \/ Die(p)
  \/ \E k \in Recs : Childied(k)

(* Each process goes on with its loop. *)
Fairness == WF_vars(MotherRound) /\ \A p \in Children : WF_vars(Round(p))
Spec == Init /\ [][Next]_vars /\ Fairness

-----------------------------------------------------------------------------
Entries == Conns \cup Procs
Phases  == {"none", "select", "serve", "spin", "dead"} \cup HandingOff
Inputs  == {"none", "init", "request", "close", "drop"}
Links   == [want : Databases \cup {None}, input : Inputs, waiting : BOOLEAN,
            selected : BOOLEAN, out : BOOLEAN, gone : BOOLEAN, shut : BOOLEAN]
Dbases  == [name : Databases \cup {None}, clients : Int, close : BOOLEAN]
Records == [r : Procs, close : BOOLEAN, dbs : Nat]

(* The types of the variables; a process lists nothing twice.                *)
TypeOK ==
  /\ link \in [Conns -> Links] /\ queue \in Seq(Conns)
  /\ phase \in [Procs -> Phases]
  /\ list \in [Procs -> Seq(Entries)] /\ \A p \in Procs : IsInjective(list[p])
  /\ todo \in [Procs -> Seq(Entries)] /\ closing \in [Procs -> SUBSET Entries]
  /\ channel \in [Procs -> Seq(Conns)]
  /\ dbp \in [Conns -> Slots \cup {0}] /\ slot \in [Procs -> [Slots -> Dbases]]
  /\ handler \in [Databases -> Recs \cup {0}] /\ rec \in [Recs -> Records]
  /\ children \in Seq(Recs) /\ IsInjective(children)
  /\ stray \in Procs /\ unhandled \subseteq Databases
  /\ faults \in 0 .. MaxFaults /\ cut \in BOOLEAN

(* A connection is in one place: on its way to the mother, with her, on its  *)
(* way to a child, or with one. The hand-off neither loses one nor leaves it *)
(* with two processes that would both read from it, whoever dies between its *)
(* messages: the mother has what she has sent until she forgets it, which is *)
(* all that she does with it; the child may have closed it by then.          *)
Sent == IF phase[Mother] = "passed" THEN {InHand} ELSE {}
Reads(p) == (Range(list[p]) \cap Conns) \ (IF p = Mother THEN Sent ELSE {})
Places(x) == (IF x \in Range(queue) THEN {<<"queue">>} ELSE {})
             \cup {<<"list", p>> : p \in {q \in Procs : x \in Reads(q)}}
             \cup {<<"channel", p>> : p \in {q \in Procs : x \in Range(channel[q])}}
InOnePlace == \A x \in Conns :
  IF x \in Sent THEN Cardinality(Places(x)) <= 1
  ELSE Cardinality(Places(x)) = IF link[x].want # None /\ ~link[x].shut THEN 1 ELSE 0

(* A database is open in at most one process, once, the one the mother      *)
(* remembers for it, whatever was forked, handed off or lost: two would not  *)
(* see each other's writes.                                                  *)
Opened(d) == {o \in Procs \X Slots : slot[o[1]][o[2]].name = d}
OpenOnce == \A d \in Databases :
  /\ Cardinality(Opened(d)) <= 1
  /\ Running(Mother) => \A o \in Opened(d) : handler[d] # 0 /\ rec[handler[d]].r = o[1]

(* The number a database record keeps is that of the connections to it, and  *)
(* none is freed under a connection that is not being closed too: as long as *)
(* nothing was zapped in the middle of a round.                              *)
Users(p, s) == {x \in Range(list[p]) \cap Conns : dbp[x] = s}
Counted(p) == \A s \in Slots : slot[p][s].name # None =>
                 slot[p][s].clients = Cardinality(Users(p, s)) /\ Users(p, s) # {}
NoneFreed(p) == \A x \in (Range(list[p]) \cap Conns) \ closing[p] :
                  dbp[x] # 0 => slot[p][dbp[x]].name = link[x].want
CountsAgree == ~cut => \A p \in Children : Counted(p) /\ NoneFreed(p)

(* Only the child bails out of get_dbp without a child record and without an *)
(* error: "null, errno = 0 we are the child" is what create_new_child says.  *)
OnlyChildBailsOut == unhandled = {}

(* The mother never waits for ever in a hand-off: "Could not atomically send *)
(* msg" is an error of atomic_send, of which do_init tells the client.       *)
HandOffEnds == phase[Mother] # "spin"

(* Every request is answered or its connection closed, unless the mother is  *)
(* stuck or gone.                                                            *)
Served == \A x \in Conns : link[x].waiting ~> ~link[x].waiting \/ ~Running(Mother)

(* The connection of a client that left is closed.                           *)
GoneIsClosed == \A x \in Conns : link[x].gone ~> link[x].shut \/ ~Running(Mother)
=============================================================================
