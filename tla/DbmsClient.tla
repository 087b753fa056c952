----------------------------- MODULE DbmsClient -----------------------------
(* The client side of dbmsd: libdbms.c and, above it, backend_dbms_store.c.  *)
(* Several clients use one database through connections that break, or are   *)
(* given up when a signal interrupts them, before or after their request was *)
(* executed; dbms_comms then reconnects, selects the database again and      *)
(* repeats the request.                                                      *)
EXTENDS DbmsTable, FiniteSets, Sequences

CONSTANTS
  Clients,
  Fds,          \* the numbers dbmsd has for the descriptors of its connections
  Requests,     \* the requests each client makes: [op, key, value, big]
  Initial,      \* the databases to begin with
  Start,        \* the descriptors clients begin with, or None
  MaxTries,     \* the rounds of dbms_comms: 10
  MaxCalls,     \* bounds of the model: calls,
  MaxFaults     \* and exchanges that go wrong

CloseRequest == [op |-> "close", key |-> None, value |-> None, big |-> FALSE]

ASSUME ClientConstants ==
  /\ \A c \in Clients : Requests[c] \subseteq
       [op : Operations, key : Keys, value : Values, big : BOOLEAN] \cup {CloseRequest}
  /\ Initial \subseteq Databases(Fds)
  /\ Start \in [Clients -> Fds \cup {None}]
  /\ \A c, d \in Clients : c # d /\ Start[c] # None => Start[c] # Start[d]
  /\ MaxTries \in Nat \ {0} /\ MaxCalls \in Nat /\ MaxFaults \in Nat
  /\ None \notin Fds

VARIABLES
  db,           \* the database
  me,           \* dbms *me and the locals of dbms_comms
  wire,         \* the requests and the answers under way on its connection
  calls, faults,
  unsaved,      \* history: BerkeleyDB refused a write and dbmsd said it was done
  executed,     \* history: executions of the request of the call
  cut,          \* history: exchanges of the call that failed on their way
  answered,     \* history: the reply to its last execution
  given,        \* history: the counter values that increments were answered with
  scan          \* history: the scan of a client

vars == <<db, me, wire, calls, faults, unsaved, executed, cut, answered, given, scan>>
history == <<unsaved, executed, cut, answered, given, scan>>

Errors  == {"none", "error", "close", "proto", "toobig", "nope"}

Fresh(pc, fd) == [pc |-> pc, request |-> CloseRequest, errs |-> 0, err |-> "none",
                  retval |-> -1, reply |-> Failed, sock |-> fd, selected |-> fd # None,
                  lost |-> FALSE, torn |-> FALSE]
Closed == Fresh("closed", None)
Connected(fd) == Fresh("idle", fd)
Moves == {"first", "from", "next"}
Quiet  == [sent |-> <<>>, replies |-> <<>>]

NoScan == [alone |-> FALSE, fd |-> None, keys |-> {}, last |-> None, ended |-> FALSE,
           there |-> {}]

Init ==
  /\ db \in Initial
  /\ me = [c \in Clients |-> IF Start[c] = None THEN Closed ELSE Connected(Start[c])]
  /\ wire = [c \in Clients |-> Quiet]
  /\ calls = 0 /\ faults = 0 /\ unsaved = FALSE
  /\ executed = [c \in Clients |-> 0]
  /\ cut = [c \in Clients |-> 0]
  /\ answered = [c \in Clients |-> None]
  /\ given = <<>>
  /\ scan = [c \in Clients |-> NoScan]

-----------------------------------------------------------------------------
(* The descriptor of a new connection is one that no open connection has.    *)
Free(c) == Fds \ {me[d].sock : d \in Clients \ {c}}
OneFault == faults < MaxFaults /\ faults' = faults + 1

(* dbms_connect: one attempt to connect and to select the database. When it  *)
(* fails the structure is freed, with whatever socket it had.                *)
Connect(c) ==
  /\ me[c].pc = "closed"
  /\ \E fd \in Free(c) : me' = [me EXCEPT ![c] = Connected(fd)]
  /\ wire' = [wire EXCEPT ![c] = Quiet]
  /\ UNCHANGED <<db, calls, faults, history>>

(* A call of the backend is one dbms_comms; dbms_disconnect asserts a socket *)
(* and makes one too.                                                        *)
Call(c, q) ==
  /\ me[c].pc = "idle" /\ calls < MaxCalls
  /\ q = CloseRequest => me[c].sock # None
  /\ calls' = calls + 1
  /\ me' = [me EXCEPT ![c].pc = "try", ![c].request = q, ![c].errs = 0,
                      ![c].err = "none", ![c].retval = -1, ![c].reply = Failed]
  /\ executed' = [executed EXCEPT ![c] = 0]
  /\ cut' = [cut EXCEPT ![c] = 0]
  /\ answered' = [answered EXCEPT ![c] = None]
  /\ UNCHANGED <<db, wire, faults, unsaved, given, scan>>

(* dbms_disconnect after a reconnection failed: its assertion ends the       *)
(* process.                                                                  *)
Abort(c) ==
  /\ me[c].pc = "idle" /\ me[c].sock = None
  /\ me' = [me EXCEPT ![c] = Closed]
  /\ UNCHANGED <<db, wire, calls, faults, history>>

-----------------------------------------------------------------------------
(* dbms_comms returns err; what the caller then sees is in retval and reply. *)
Return(c, m) ==
  me' = [me EXCEPT ![c] =
           IF m.request = CloseRequest THEN Closed ELSE [m EXCEPT !.pc = "idle"]]

(* What the loop does with the result of i_comms: an error is the other      *)
(* side's and ends it, anything else leads to a reconnection.                *)
Fails(c, err) ==
  IF err = "error" THEN Return(c, [me[c] EXCEPT !.err = err])
                   ELSE me' = [me EXCEPT ![c].pc = "failed", ![c].err = err]

(* i_comms sends no request above MAX_CS_PAYLOAD *)
TooBig(c) ==
  /\ me[c].pc = "try" /\ me[c].sock # None /\ me[c].request.big
  /\ Fails(c, "toobig")
  /\ UNCHANGED <<db, wire, calls, faults, history>>

Attempting(c) == me[c].pc = "try" /\ me[c].sock # None /\ ~me[c].request.big

Send(c) ==
  /\ Attempting(c) /\ ~me[c].lost
  /\ me' = [me EXCEPT ![c].pc = "sent"]
  /\ wire' = [wire EXCEPT ![c].sent = Append(@, me[c].request)]
  /\ UNCHANGED <<db, calls, faults, history>>

IsCut(c) == cut' = [cut EXCEPT ![c] = @ + 1]

(* The connection breaks, or a signal interrupts sendmsg or the recv of the  *)
(* header: s is a size_t, so that -1 is the wrong number of bytes and not an *)
(* error. What was sent may still be executed. *)
CutOff(c) ==
  /\ (Attempting(c) /\ ~me[c].lost) \/ me[c].pc = "sent"
  /\ OneFault
  /\ Fails(c, "close")
  /\ IsCut(c)
  /\ UNCHANGED <<db, wire, calls, unsaved, executed, answered, given, scan>>

(* Without a socket there is no attempt. *)
Skip(c) ==
  /\ me[c].pc = "try" /\ me[c].sock = None
  /\ Fails(c, me[c].err)
  /\ UNCHANGED <<db, wire, calls, faults, history>>

(* A connection that was lost takes no request. *)
Refuses(c) ==
  /\ Attempting(c) /\ me[c].lost
  /\ Fails(c, "close")
  /\ IsCut(c)
  /\ UNCHANGED <<db, wire, calls, faults, unsaved, executed, answered, given, scan>>

-----------------------------------------------------------------------------
(* An answer was cut off in its middle: what follows it, and all that the     *)
(* connection brings from then on, is noise.                                 *)
Torn(c) == me[c].torn

(* History of scans. A client scans alone from its first or from request     *)
(* until it uses another connection or another client moves the cursor;      *)
(* there are the keys that were in the table all the time.                   *)
Started(c, q, r) ==
  [alone |-> r # Failed /\ ~Torn(c), fd |-> me[c].sock, keys |-> {r.key} \ {None}, last |-> r.key,
   ended |-> r = NotFound, there |-> IF q.op = "first" THEN Present(db) ELSE From(db, q.key)]
Continued(c, r) ==
  [scan[c] EXCEPT !.alone = @ /\ r # Failed /\ cut[c] = 0 /\ ~Torn(c) /\ scan[c].fd = me[c].sock,
                  !.keys = (@ \cup {r.key}) \ {None}, !.last = r.key, !.ended = r = NotFound]
Without(s, q) ==
  [s EXCEPT !.there = CASE q.op = "clear" -> {} [] q.op = "delete" -> @ \ {q.key} [] OTHER -> @]
Scanning(c, q, r) ==
  [d \in Clients |->
     IF d # c THEN Without([scan[d] EXCEPT !.alone = @ /\ q.op \notin Moves], q)
     ELSE CASE q.op \in {"first", "from"} -> Started(c, q, r)
            [] q.op = "next"              -> Continued(c, r)
            [] OTHER                      -> Without(scan[c], q)]

(* dbmsd executes a request whose connection selected the database; it may   *)
(* be one that its client no longer waits for.                               *)
Reached(c) == wire[c].sent # <<>> /\ me[c].selected
Asked(c)   == Head(wire[c].sent)
Awaited(c) ==
  me[c].pc \in {"sent", "failed"} /\ ~me[c].request.big /\ Len(wire[c].sent) = 1

Answer(c, r) ==
  /\ wire' = [wire EXCEPT ![c] = [sent |-> Tail(@.sent),
                                  replies |-> IF Torn(c) THEN @.replies
                                              ELSE Append(@.replies, <<Asked(c).op, r>>)]]
  /\ executed' = IF Awaited(c) THEN [executed EXCEPT ![c] = @ + 1] ELSE executed
  /\ answered' = IF Awaited(c) THEN [answered EXCEPT ![c] = r] ELSE answered
  /\ scan' = Scanning(c, Asked(c), r)

Serve(c) ==
  /\ Reached(c)
  /\ LET done == Execute(db, me[c].sock, Asked(c))
     IN  db' = done.db /\ Answer(c, done.reply)
  /\ UNCHANGED <<me, calls, faults, unsaved, cut, given>>

(* BerkeleyDB fails and dbmsd says so; the cursor has its new user.          *)
ServeFails(c) ==
  /\ Reached(c) /\ OneFault /\ Asked(c).op # "close"
  /\ Answer(c, Failed)
  /\ db' = IF Asked(c).op \in Moves THEN Used(db, me[c].sock) ELSE db
  /\ UNCHANGED <<me, calls, unsaved, cut, given>>

(* The codes of BerkeleyDB's own errors are negative; after a write dbmsd    *)
(* takes them for success.                                                   *)
ServeUnsaved(c) ==
  /\ Reached(c) /\ OneFault
  /\ Asked(c).op \in {"store", "packinc", "packdec", "inc", "dec"}
  /\ LET done == Execute(db, me[c].sock, Asked(c))
     IN  done.db # db /\ Answer(c, done.reply)
  /\ unsaved' = TRUE
  /\ UNCHANGED <<db, me, calls, cut, given>>

-----------------------------------------------------------------------------
(* i_comms reads an answer, the first there is.                              *)
Status(r) == IF r.status = "found" THEN 0 ELSE 1

IsIncrement(q) == q.op \in {"packinc", "inc"}

Token(c) == Head(wire[c].replies)[1]
Read(c)  == Head(wire[c].replies)[2]
Rest(c) == wire' = [wire EXCEPT ![c].replies = Tail(@)]
Reading(c) == me[c].pc = "sent" /\ ~Torn(c) /\ wire[c].replies # <<>>

(* the token of the answer is neither the request's nor TOKEN_ERROR *)
OutOfStep(c) == Read(c) # Failed /\ Token(c) # me[c].request.op

(* mutant: the token of the answer is not compared with the request's *)
Mut_AnyToken(c) == TRUE

(* mutant: a request that found nothing is repeated *)
Mut_RetryNotFound(c) == ~OutOfStep(c) /\ Read(c) # NotFound

Accepted(c) == ~OutOfStep(c)

Receive(c) ==
  LET r == Read(c)
  IN  /\ Reading(c)
      /\ Rest(c)
      /\ \/ ~Accepted(c) /\ Fails(c, "proto")
         \/ Accepted(c) /\ r = Failed /\ Fails(c, "error")
         \/ /\ Accepted(c) /\ r # Failed
            /\ Return(c, [me[c] EXCEPT !.err = "none", !.retval = Status(r), !.reply = r])
      /\ IF OutOfStep(c) THEN IsCut(c) ELSE UNCHANGED cut
      /\ given' = IF Accepted(c) /\ r.status = "found" /\ IsIncrement(me[c].request)
                  THEN Append(given, <<me[c].request.key, r.value>>) ELSE given
      /\ UNCHANGED <<db, calls, faults, unsaved, executed, answered, scan>>

(* In the middle of an answer getpack takes a signal, or the reset of the    *)
(* connection, for an error of the other side: the call ends, the socket     *)
(* stays, and with a signal so does the rest of the answer.                  *)
HasData(c) ==
  \/ Token(c) = "init" \/ Read(c).status = "error"
  \/ Read(c).key # None \/ Read(c).value # None

Tear(c) ==
  /\ Reading(c) /\ OneFault
  /\ HasData(c)
  /\ Rest(c)
  /\ \/ Return(c, [me[c] EXCEPT !.err = "error", !.torn = TRUE])
     \/ Return(c, [me[c] EXCEPT !.err = "error", !.lost = TRUE])
  /\ UNCHANGED <<db, calls, history>>

(* On a torn connection any bytes may be taken for the header of an answer:  *)
(* too few of them, one with a wrong token or with TOKEN_ERROR, or one that  *)
(* passes for an answer; or they promise more than will ever come.           *)
Noise(c) ==
  /\ me[c].pc = "sent" /\ Torn(c)
  /\ \/ Fails(c, "proto") /\ IsCut(c)
     \/ Fails(c, "error") /\ UNCHANGED cut
     \/ /\ \E r \in {Found(None, None), NotFound} :
             Return(c, [me[c] EXCEPT !.err = "none", !.retval = Status(r), !.reply = r])
        /\ UNCHANGED cut
  /\ UNCHANGED <<db, wire, calls, faults, unsaved, executed, answered, given, scan>>

-----------------------------------------------------------------------------
(* The rest of a round: close, reconnect, reselect. What was sent on the old *)
(* connection is executed before the new one is open, or never.              *)

(* mutant: one round more *)
Mut_OneMore(c, m) ==
  IF me[c].errs = MaxTries THEN Return(c, [m EXCEPT !.errs = MaxTries])
  ELSE me' = [me EXCEPT ![c] = [m EXCEPT !.pc = "try", !.errs = @ + 1]]

(* mutant: rounds are not counted *)
Mut_ForEver(c, m) == me' = [me EXCEPT ![c] = [m EXCEPT !.pc = "try"]]

Round(c, m) ==
  IF me[c].errs + 1 = MaxTries THEN Return(c, [m EXCEPT !.errs = MaxTries])
  ELSE me' = [me EXCEPT ![c] = [m EXCEPT !.pc = "try", !.errs = @ + 1]]

Reconnect(c) ==
  /\ me[c].pc = "failed"
  /\ \E fd \in Free(c) :
       Round(c, [me[c] EXCEPT !.err = "none", !.sock = fd, !.selected = TRUE,
                              !.lost = FALSE, !.torn = FALSE])
  /\ wire' = [wire EXCEPT ![c] = Quiet]
  /\ UNCHANGED <<db, calls, faults, history>>

ReconnectFails(c) ==
  /\ me[c].pc = "failed" /\ OneFault
  /\ Round(c, [me[c] EXCEPT !.err = "error", !.sock = None, !.selected = FALSE,
                            !.lost = FALSE, !.torn = FALSE])
  /\ wire' = [wire EXCEPT ![c] = Quiet]
  /\ UNCHANGED <<db, calls, history>>

(* reselect is an exchange like another, and what goes wrong with it leaves  *)
(* the connection: the database is refused, or was never asked for; a signal *)
(* leaves the answer, or the rest of it, to the next exchange; or the        *)
(* connection is lost again.                                                 *)
InitDone == Found(None, 0)

Outcome(err, selected, lost, torn, late) ==
  [err |-> err, selected |-> selected, lost |-> lost, torn |-> torn, late |-> late]

Outcomes ==
  {Outcome(e, FALSE, FALSE, FALSE, <<>>) : e \in {"nope", "error", "close"}}
  \cup {Outcome("close", r = InitDone, FALSE, FALSE, << <<"init", r>> >>) :
          r \in {InitDone, NotFound, Failed}}
  \cup {Outcome("error", s, FALSE, TRUE, <<>>) : s \in BOOLEAN}
  \cup {Outcome("close", s, FALSE, TRUE, <<>>) : s \in BOOLEAN}
  \cup {Outcome(e, TRUE, TRUE, FALSE, <<>>) : e \in {"error", "close"}}

ReselectFails(c) ==
  /\ me[c].pc = "failed" /\ OneFault
  /\ \E fd \in Free(c), o \in Outcomes :
       /\ Round(c, [me[c] EXCEPT !.err = o.err, !.sock = fd, !.selected = o.selected,
                                 !.lost = o.lost, !.torn = o.torn])
       /\ wire' = [wire EXCEPT ![c] = [sent |-> <<>>, replies |-> o.late]]
  /\ UNCHANGED <<db, calls, history>>

-----------------------------------------------------------------------------
(* backend_dbms_store.c: what the caller of a table gets back.               *)
BackendResult(m) ==
  CASE m.err # "none"   -> "dbms"
    [] m.retval = 0     -> "ok"
    [] m.retval = 1     -> CASE m.request.op = "store" -> "keyexist"
                             [] m.request.op \in {"clear", "sync"} -> "1"
                             [] OTHER -> "notfound"
    [] m.retval = -1    -> IF m.request.op \in {"store", "delete"} THEN "notfound" ELSE "-1"

ClientStep(c) ==
  Send(c) \/ TooBig(c) \/ Skip(c) \/ Refuses(c) \/ Receive(c) \/ Reconnect(c)

Next == \E c \in Clients :
  \/ Connect(c) \/ Abort(c)
  \/ \E q \in Requests[c] : Call(c, q)
  \/ Send(c) \/ TooBig(c) \/ CutOff(c) \/ Skip(c) \/ Refuses(c)
  \/ Serve(c) \/ ServeFails(c) \/ ServeUnsaved(c)
  \/ Receive(c) \/ Tear(c) \/ Noise(c)
  \/ Reconnect(c) \/ ReconnectFails(c) \/ ReselectFails(c)

(* The client runs, and so does dbmsd; what noise brings is left open. *)
Fairness == \A c \in Clients : WF_vars(ClientStep(c)) /\ WF_vars(Serve(c))
Spec == Init /\ [][Next]_vars /\ Fairness
-----------------------------------------------------------------------------
Calls(c) == Requests[c] \cup {CloseRequest}
Types(c) ==
  [pc : {"closed", "idle", "try", "sent", "failed"}, request : Calls(c),
   errs : 0 .. MaxTries, err : Errors, retval : {-1, 0, 1}, reply : Replies,
   sock : Fds \cup {None}, selected : BOOLEAN, lost : BOOLEAN, torn : BOOLEAN]
Tokens == Operations \cup {"close", "init"}

(* The types of the variables; a descriptor belongs to one connection, and a *)
(* call makes no more than MaxTries rounds.                                  *)
TypeOK ==
  /\ db \in Databases(Fds)
  /\ \A c \in Clients : me[c] \in Types(c)
  /\ DOMAIN me = Clients
  /\ \A c \in Clients : /\ wire[c].sent \in Seq(Calls(c))
                         /\ wire[c].replies \in Seq(Tokens \X Replies)
  /\ calls \in 0 .. MaxCalls /\ faults \in 0 .. MaxFaults /\ unsaved \in BOOLEAN
  /\ executed \in [Clients -> Nat] /\ cut \in [Clients -> Nat]
  /\ \A c, d \in Clients : c # d /\ me[c].sock # None => me[c].sock # me[d].sock
  /\ \A c \in Clients : me[c].pc \in {"try", "sent", "failed"} => me[c].errs < MaxTries

(* A request is executed at most once more than an exchange of its call was  *)
(* cut off on its way, by a connection that broke or by a signal: the loop   *)
(* of dbms_comms sends it only on a connection it has just opened, or for    *)
(* the first time.                                                           *)
ExecutedPerConnection == \A c \in Clients : executed[c] <= 1 + cut[c]

(* What dbms_comms hands to its caller is the answer to the last execution   *)
(* of that very request, never one to an earlier request, and not an error,  *)
(* whatever broke before; and the call of the table succeeds when that       *)
(* execution found what it was asked for, and not otherwise.                 *)
IsOwn(c) ==
  /\ me[c].retval >= 0 =>
       executed[c] > 0 /\ me[c].reply = answered[c] /\ answered[c].status # "error"
  /\ BackendResult(me[c]) = "ok" <=> me[c].retval >= 0 /\ answered[c].status = "found"
AlwaysOwn == \A c \in Clients : me[c].pc = "idle" => IsOwn(c)

(* That much is true as long as no signal cut off an answer of this          *)
(* connection in its middle.                                                 *)
AnswerIsOwn == \A c \in Clients : me[c].pc = "idle" /\ ~Torn(c) => IsOwn(c)

(* "If the DB on the other end reported an error - then it obviously is not  *)
(* a comms problem": a call that was not cut off and ends with E_ERROR ends  *)
(* with an error that dbmsd reported.                                        *)
ErrorIsReported ==
  \A c \in Clients :
    me[c].pc = "idle" /\ me[c].err = "error" /\ cut[c] = 0 => answered[c] = Failed

(* Increments are never answered twice with the same number, on a key that   *)
(* is only counted up: rdfstore_insert takes its statement numbers so. It    *)
(* needs every answered increment to be in the table, every repeated one to  *)
(* count again, and no answer to be taken for that of another key, which it  *)
(* does not name. What noise is taken for is not an answer.                  *)
CountedUp(k) ==
  \A c \in Clients : \A q \in Requests[c] :
    q.op # "clear" /\ (q.key = k => q.op \notin {"store", "delete", "packdec", "dec"})

NewNumbers(k) ==
  \A i, j \in DOMAIN given : i # j /\ given[i][1] = k /\ given[j][1] = k => given[i][2] # given[j][2]
NumbersDiffer == ~unsaved => \A k \in Keys : CountedUp(k) => NewNumbers(k)

(* A client that scans alone misses no key that was there all the time,      *)
(* whatever is stored and deleted meanwhile: the cursor survives the         *)
(* deletion of its key, and do_next moves it once.                           *)
SkipsNothing(s) == \A k \in s.there : s.ended \/ (s.last # None /\ k <= s.last) => k \in s.keys
ScanIsComplete == \A c \in Clients : scan[c].alone => SkipsNothing(scan[c])

(* The same of a client that shares the cursor with others, as "We need to   *)
(* set the cursor first, if we where not the last using it" has it.          *)
SharedScanIsComplete == \A c \in Clients : SkipsNothing(scan[c])

(* A request is never executed twice: "there is no automagic retry should    *)
(* you loose the connection".                                                *)
NoRetry == \A c \in Clients : executed[c] <= 1

(* A call returns, whatever breaks: the rounds are counted. Two things keep  *)
(* it for ever: a request sent after the database was refused, which dbmsd   *)
(* does not answer, and noise that promises more than will come.             *)
CallsReturn == \A c \in Clients :
  me[c].pc = "try" ~> me[c].pc \in {"idle", "closed"} \/ ~me[c].selected \/ Torn(c)
=============================================================================
