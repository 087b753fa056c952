# RDFStore in TLA+

RDFStore keeps RDF statements (subject, predicate, object, and optionally a
context) in flat key/value tables and indexes them by bitmap: under every term
there is a bit vector with one bit per statement. The tables live in files, in
memory, or behind `dbmsd`, a server that several programs share. This directory
holds TLA+ models of that code, the TLC runs that check them and the theorems
that TLAPS proves about them.

## The system

| Component | Source | State | Operations |
|---|---|---|---|
| kernel: statements | `rdfstore_kernel.c` | tables `model` (counters, settings), `nodes`, `statements`, ten posting tables; per handle the default context | `insert`, `remove`, `contains`, `size`, `is_empty`, `set_context`, `reset_context` |
| kernel: connect | `rdfstore_kernel.c` 113-859 | settings in `model`; `me->freetext`, codec, flags | `connect`, `disconnect` |
| kernel: search | `rdfstore_kernel.c` 7357-9323 | none of its own; a result bit vector | `search`, `fetch_object` |
| iterators | `rdfstore_iterator.c` | a bit vector, a position, `store->attached`, `store->tobeclosed` | first, next, current, each, set operations, `close` |
| bit vectors | `rdfstore_bits.c` | none | mask, and, or, not, exor, shorten, next set bit |
| posting compression | `rdfstore_compress.c`, `sflcomp.c`, `my_compress.c`, `fraenkel_compress.c` | the codec of a handle | encode, decode |
| flat store | `rdfstore_flat_store.c` | the chosen backend | dispatch |
| BerkeleyDB backend | `backend_bdb_store.c` | a file | fetch, store, exists, delete, inc, dec, first, next, from, sync |
| caching backend | `backend_caching_store.c` | an array of cached entries over another backend | the same, with write-back |
| dbms backend, client | `backend_dbms_store.c`, `libdbms.c` | a TCP connection | the same, as requests; reconnection and retry |
| daemon | `dbms/deamon/` | a mother process, children, connections with their buffers, open databases | accept, hand-off, read, parse, execute, write, close, sync |
| daemon configuration | `conf.c` | rules | which address may do what on which database |
| proxy | `dbms/dbmsproxy/` | none | one request per HTTP call |
| digests | `rdfstore_digest.c` | `statement->hashcode` | hash codes of nodes and statements |
| Perl layer, parsers, RDQL, DBI | `RDFStore.xs`, `lib/` | objects around a handle | translate to kernel calls |

The kernel calls the flat store for each table; the flat store calls a backend
through a table of function pointers; the dbms backend sends the call to a
daemon. The daemon gives each database to one child process, which executes the
requests for it one by one. There is no transaction and no lock above a single
request: everything the kernel does with several requests is interleaved with
what other handles do, and stays half done when one of them fails.

### What is hard, and what must hold

* **Many requests per call.** An insertion writes up to five fixed tables, one
  posting per word and stem, and one per language, datatype and typed value; a
  removal must undo all of it through separate code. Between calls the tables
  must agree; during a call, or after one that failed, a statement that can be
  found must be found through all its terms.
* **Interleaving.** Postings are read, changed in memory and written back;
  duplicates are looked for long before the statement is stored; the size is the
  difference of two counters read one after the other. Ids must be unique and
  postings sound in every interleaving. Some of the code's own claims do not
  survive it, see Findings.
* **The capacity.** At `RDFSTORE_MAXRECORDS` a number already taken is handed
  back, by several handles at once.
* **Contexts and cached hash codes.** A statement's identity depends on a
  context taken from the call, the structure or the handle, and on a hash code
  the structure may carry from an earlier call.
* **Settings.** Connecting reads and writes the settings of a new store with a
  dozen requests, each of which another handle may see half done.
* **The cache.** The caching backend writes back late, forgets failed write-backs,
  and is bypassed by compressed reads and writes. Nothing older than the last sync
  may come back, and the cache must not be seen otherwise.
* **Retries.** The client repeats requests whose exchange was cut off, by a broken
  connection or a signal, on a new connection. It must not take a late answer, or
  the rest of one that was torn, for its own, statement numbers must stay different,
  and the call must return.
* **Processes.** The mother hands connections to children that may be dying, with
  two messages, and forks children when connections may have run out. A connection must be in one place, a database open in one process, the record of a
  database must outlive its connections, and every client must be served or
  disconnected.
* **Bits at the boundary.** Vectors of different lengths are combined, extended,
  shortened and written as runs; iterators walk them while statements come and go.
  A bit one byte off is another statement.

`PROJECT.json` lists the hazards one by one, each with its line and the
properties about it.

## Modules

### TripleStore

What the kernel promises: a set of statements, each with its context or none.
A call is a request and, later, an answer; at one instant in between the set
changes. `Refuse` is an insertion the store has no room for or cannot index.

### RdfStore

The kernel, for any set `Procs` of handles on the same tables.

| TLA+ | C |
|---|---|
| `counter`, `counter_removed` | the two counters in the `model` table |
| `nodes[id]` | the serialized statement, as its statement and context |
| `index[<<table, key>>]` | the posting tables: the ids whose bit is set; absent and empty are the same, as no table ever holds an empty bitmap |
| `statements[hash]` | the `statements` table, from hash code to id |
| `context[p]` | `me->context` |
| `hashcode[p][o]` | `statement->hashcode` of a structure the caller keeps |
| `call[p]` | where a handle is in a call, with its locals; or what the last call returned |
| `asserted[id]` | history: the statement an id was allocated to |
| `faults` | requests that failed, at most `MaxFaults` |

A statement is reduced to the keys it is filed under: its nodes, the sequence of
word and stem keys of its literal, its language, datatype, and what the XML
Schema parsers make of it. `InsertEntries` and `RemoveEntries` list the postings
in the order each function goes through them.

One action is one request and the local work up to the next. `InsertCall` and
`RemoveCall` are the part of a call before its first request (choice of context,
hash code, caching of the hash code). Then, for an insertion: `InsertExists`,
`InsertIncrement` (and `InsertDecrement` past the capacity), `InsertNode`,
`FetchEntry` and `InsertEntry` for each posting, `InsertStatement`, `Touch`. For a
removal: `RemoveFind`, `RemoveNode`, `FetchEntry` and `RemoveEntry` or
`RemoveWord` for each posting, `RemoveCount`, `RemoveStatement`, `Touch`. The
word index has its own removal because the code there deletes a key with a single
bit without looking at the bit. `Fail` ends a call at any request; a failing
duplicate check is different, as it reads as "not there". `Contains` is one
request; `SizeCall`, `SizeRemoved` and `SizeCounter` are `rdfstore_size` and
`rdfstore_is_empty`.

`Init` is a store just created, every handle being connected with the same
`Freetext`: `RdfConnect` says when that is so. Locks, sync, last-modified dates and log messages are not modelled. The
connection tables (`RDFSTORE_CONNECTIONS`) are compiled in by no build option and
are left out.

### MCRdfStore

The instances: statements that share words, subjects and values in all the ways
that matter, hash codes that are injective, sets of handles and contexts.

### RdfConnect

The life of the handles on one named store: `rdfstore_connect`, use,
`rdfstore_disconnect`.

| TLA+ | C |
|---|---|
| `model[key]` | the `model` table: four settings, two counters |
| `tables` | which of the other tables exist: those of every store (`core`), and `windex` |
| `conn[h]` | `rdfstore *me`: where `rdfstore_connect` is (`pc`, `at`), `me->flag`, the settings `me->version`, `name`, `freetext` and the codec, `me->attached`, `me->tobeclosed`; `None` before the handle exists and after it was freed. `lost` is history: how many of `attached` a failed `rdfstore_elements` left |
| `iterator[x]` | the store an iterator points to |
| `numbered`, `stored` | history: how often each statement number was given out; how many statements there are |
| `faults`, `crashes` | at most `MaxFaults`, `MaxCrashes` |

`rdfstore_connect` treats its keys alike: one request looks the key up (`Fetch`;
`exists` for the counters), and if that yields nothing, for whatever reason
(`IfMissing`, `FetchFails`), a second request stores the handle's own value
(`Store`). A read-only handle stores nothing and gives up, except for the codec,
which it does without. A key that is found replaces the caller's argument
(`IfFound`, `Adopt`), unless it is a version or a name the handle cannot accept.
`Number` and `Remove` are the one request of an insertion and of a removal that
changes a counter; `Open`, `Derive` and `Close` are what iterators do to their
handle. `OpenFails` is `rdfstore_elements` when one of the statements it scans cannot
be fetched: it has counted its iterator by then (9632), frees it, and leaves the
count (9655-9661). A request that is executed and whose answer is lost is, for the tables,
the same as one after which the process dies. Tables are durable: a process that
dies loses no write (a local BerkeleyDB file that was not synced may).

Not modelled: stores without a name, which live in the memory of one process; the
parsing of `rdfstore://` names; a caller that disconnects a handle twice, which
the Perl layer, the only caller of that kind, does not.

### MCRdfConnect

The instances: a new store, or complete stores with every combination of
settings that matters, an older version among them; names with and without a
slash at the end; handles built with different codecs.

### FlatStore

What a table promises its caller, whichever backend is below: a call is answered
from what the calls before it wrote, and changes at most its own key. A process
that dies may lose what was written after the last sync or close, nothing older.
Its counters are those of the cache, which wrap. BerkeleyDB used directly is
narrower: `backend_bdb_dec` asserts that a counter is positive before it takes one
off (`backend_bdb_store.c` 1030), where the cache goes on to the largest number.

### CachingStore

`backend_caching_store.c`, which `rdfstore_flat_store.c` puts over another backend
when `RDFSTORE_CACHE` is set: the cache of one table in one process.

| TLA+ | C |
|---|---|
| `backend[k]` | the table below, through `me->store` |
| `cache[k]` | the `data_t` of a key in `me->idx`: its state and value |
| `lru` | the circular list from `me->head` to `me->tail` |
| `call`, `answer` | the call under way; what the last one returned |
| `running` | the table is open in a living process |
| `usage` | which keys callers use plain, and which with `fetch_compressed` and `store_compressed`, which go around the cache |
| `recent[k]` | history: the values of a key since the last sync or close |
| `faults` | requests that failed, at most `MaxFaults` |

One action is one request to the backend. A hit needs none (`ReadHit`,
`StoreHit`). A miss first evicts the least recently used key if the cache is full
(`Evict`, which writes a changed value back), then fetches (`ReadMiss`,
`ReadFails`) or not (`StoreMiss`). `Delete` writes through. `first`, `from`, `next`,
`sync` and `close` write every changed value back and empty the cache (`Purge`)
before the backend sees them (`Scan`, `Settle`). The result of a write-back is
never looked at (409, 500), so that a failing one is forgotten (`Drop`). An entry
whose fetch failed stays in the cache without a value (479); `fetch` then returns
NULL with success, and `inc` and `dec` dereference it, which is `Die` in the model.
Writes of the backend are durable; the order of a scan is left to the backend;
allocation failures are not modelled, and neither is a second client of the same
table, about which a write-back cache promises nothing.

### MCCachingStore

The instances: tables of plain keys, with one key that is used compressed, and
with one key that is used both ways.

### DbmsTable

One database of the daemon: its rows, its one cursor, and `lastfd`, the descriptor
that used the cursor last. `Execute` is one request, as the `do_*` functions of
`handler.c` execute it: `Fetch`, `Store`, `Delete`, the two kinds of counters
(packed ones wrap at `Limit`, textual ones refuse the largest number), and the
scan: `From`, `NextKey`, with the cursor put back when another descriptor used it
in between (`Positioned`).

### DbmsClient

`libdbms.c`, `backend_dbms_store.c` and the daemon's end of the wire, for any set
`Clients` of one database.

| TLA+ | C |
|---|---|
| `db` | the database, a `DbmsTable` |
| `me[c]` | `dbms *me` and the locals of `dbms_comms`: the round (`errs`), `err`, `retval`, the socket, whether the server knows the database on it (`selected`), whether it was reset (`lost`), whether the rest of an answer is on it (`torn`) |
| `wire[c]` | requests and answers under way on the connection |
| `executed`, `cut`, `answered` | history of the call under way: how often its request was executed, how many of its exchanges were cut off, what the last execution said |
| `given`, `scan`, `unsaved` | history: the numbers given to increments; what a scan must see; writes BerkeleyDB refused and the daemon called done |
| `calls`, `faults` | at most `MaxCalls`, `MaxFaults` |

A call sends (`Send`, `TooBig`), the daemon executes and answers (`Serve`,
`ServeFails`, `ServeUnsaved`), the client reads (`Receive`). In between the exchange can
be cut off on either side of the execution (`CutOff`), by the connection or by a
signal, which `i_comms` does not tell apart: `s` is a `size_t` (579), so that its tests
for `s < 0` (619, 633) are never true and a failing `sendmsg` or `recv` of the header is
the wrong number of bytes. A socket that was reset takes no request (`Refuses`), a
call without one makes no attempt (`Skip`). All this leads to a new connection and to
a repetition.

It is different in the middle of an answer. There `getpack` (545) calls the error of
`recv` one of the other side: the call ends, the socket is kept, reset or with the rest
of the answer on it (`Tear`). What the next calls read on a torn connection is `Noise`:
anything that a client can make of bytes that are no header, or nothing for ever.

A failed round reconnects and selects the database again (`Reconnect`,
`ReconnectFails`, `ReselectFails`), and the loop counts rounds to `MaxTries`. `reselect`
is an exchange like another, and fails like one (`Outcomes`): the database is refused or
was never asked for, the answer comes late or is torn, the connection is lost again.
`BackendResult` is what `backend_dbms_store.c` makes of the outcome.

Kept as the code has it: a failed reconnection sets an error with which the next
round gives up at once; after a failed reselection the next round sends on a
connection for which the daemon has no database, and which it does not answer;
`do_sync` and `do_clear` answer without F_FOUND, so that the backend's `sync` and
`clear` return 1 when they worked. Not modelled: a `CLEAR` that fails, `do_list`,
`errno` left over from earlier calls, name resolution, and the time-outs of
`connect`.

### DbmsDaemon

`main.c`, `loop.c`, `children.c`, `deamon.c` and the connection part of `handler.c`.

| TLA+ | C |
|---|---|
| `link[x]` | a client's connection: what it wants, what has arrived, whether it waits, whether the daemon still has output for it, whether either side closed it |
| `phase[p]`, `list[p]`, `todo[p]`, `closing[p]` | a process in `select_loop`: selecting, serving what was ready in the order of `client_list`, at one of the three points of a hand-off, or stuck in a send; what is marked `close` |
| `channel[p]` | connections sent over the socket pair and not yet taken |
| `dbp[x]`, `slot[p]` | in a child: the `dbase` of a connection; the records, with their count of connections |
| `handler[d]`, `rec`, `children` | in the mother: the child record that handles a database; the records and their list |
| `stray`, `unhandled` | in the mother, after a refused fork: the freed record that her list begins with; the databases whose record names no child |
| `faults`, `cut` | processes that died and opens that failed, at most `MaxFaults`; history: something was dropped in the middle of a round |

A round is `Select`, then one action for each member of the list that was ready,
newest first, then `CleanChild` or `CleanMother`. The mother accepts, reads the
first request and refuses it (`Refuse`), or decides for the child that has the
database (`PassOn`), a new child (`Fork`) or the one with the fewest databases
(`Assign`). `handoff_fd` then has three steps, and processes die between them: a message
tells the child (`SendNotice`), which from then on waits in `takeon_fd`; a second one
carries the socket (`SendSocket`); and the mother forgets the connection (`Forget`).
While it is in both processes it closes with the last of its descriptors (`OnlyIn`). The
child takes it (`Pass`), opens the database if need be,
and serves requests (`Serve`, `Close`, `Drop`, `SendMore`, `CutOff`). Any process may
die (`Die`) or be told to stop (`Stop`), and the mother is told of a dead child by
SIGCHLD or by the end of its socket, in either order. `Forbidden` stands for the
verdict of the access rules. What a process takes from its list or leaves in it is
`Only` and `Without`, which keep the order (`Picked`); the child that `get_dbp` takes
is the first with the fewest databases among those whose record still stands
(`LeastLoaded`, `Remembered`).

The socket pair of a new child counts against `max_clients`. At the limit
(`AtLimit`) the fork succeeds and the pair is refused in both processes
(`ForkRefused`): the child has no mother; the mother frees the child's record, which
stays the head of her list of children and hides the others, and answers with an error
and forgets the database, or takes herself for the child and keeps its record
(`unhandled`), as `errno` has it. That ends her later: at the next init of such a database
or the next fork (`Wreck`), at the loss of a child, or when the child without a mother
ends (`Abort`). This is the build that Makefile.PL makes (443, `STATIC_BUFF`), where
freed records are kept for the next one. Two simplifications: the assertion that a
reused record fails at the end of the round is brought forward to the fork, and only one
freed record is followed, as a second one is the same list with another head.

Kept as the code has it: `atomic_send` repeats every error (`(errno=EAGAIN)`);
connections marked during clean-up stay until the next event; a refused connection
stays and counts towards `max_clients`; a CLOSE on a connection without a database
is never answered; a child with no databases never wins against one with some.
Not modelled: messages that arrive in pieces, buffers and their limits, the access
check by address when a connection is accepted, `do_list`, `ping`, signals other
than SIGCHLD, the descriptors a fresh child inherits of its mother's other connections, and
the recycling of a child record that a database still points to.

### BitVector

`rdfstore_bits.c` byte by byte: vectors as the sets of bits of their bytes, with
their length, which the code gets wrong most easily. `getfirstsetafter` reads the
byte at its argument even if it lies behind the vector, so that it is a set of
possible results.

### RdfSearch

`rdfstore_search` and `rdfstore_fetch_object`, over vectors built as insertion
builds them. Each part of a pattern combines the postings of its keys in the order
given (`PartBits`, `RangeBits`), and the parts are joined in the order of the code
(`Join`). Kept as the code has it: within a part, a key that is nowhere, or an empty
intermediate result, is passed over, so that AND finds more than it should; OR is
exact; NOT "is not implemented yet", and words alone find nothing in a store without
a free-text index. Integers, doubles and dates, whose tables are scanned by the same
code three times, are one table. `FetchObject` follows anonymous objects up to
`MaxLevels`: `Visit` gives, level by level from the deepest, what the recursive
function of the code adds to what is out already, for every node and every vector
that fits into a buffer of `MaxBytes`; `Around` is its loop over the statements of a
node.

### RdfIterator

`rdfstore_iterator.c`: `iter[x]` is an iterator, with `ids`, `pos`, `st_counter` and
`size` as in the structure; `stored` the statements there are; `walk[x]` what its
caller has seen. One action per call: `OpenElements`, `OpenSearch`, `OpenObject`,
`Close`, `First`, `Next_`, `Each`, `RemoveHere`, `Duplicate`, and the five set
operations.

Kept as the code has it, and visible in the conditions of the properties: subtract
drops the members beyond the bytes of its second argument; complement reaches only
the bytes its argument has; removing in a loop of first and next ends the loop half
way (as `t/01_rdfstore.t` 345-371 does without looking); remove after each clears
the bit after the statement returned; each ends at a statement that was removed from
the store, and `each_context` at one without a context; current on an iterator just
opened is the statement numbered 0, member or not.

`SearchExact` compares searches with the keys of statements: what is found lies between
what has all keys asked for and what has one of each part. `FetchExact` compares
descriptions with the closure over anonymous objects.

### MCDbmsClient, MCDbmsDaemon, MCRdfIterator

The instances: a client that counts and scans beside one that counts, deletes and
sends something too big; connections and databases; stores of four statements that
share keys, about sixty patterns, and a store with a cycle of anonymous nodes.

### Codec, Posting, MCPosting

`Codec` is `sflcomp.c` as `rdfstore_compress.c` uses it: the codecs `nulls` (the
default), `bits` and `rle`. What they write for one run (`NullsRun`, ...) and what
they read at a position (`NullsRead`, ...) follow the C line by line; `Encode` cuts
a vector into runs, single bits and strings where the code does. `Posting` is what
happens to one posting: `Insert` and `Remove` fetch it, decode it, set or clear a
bit, shorten it (only `rdfstore_remove` does), encode and store it, or delete its
key. `data` is what is stored, `holders` what should be. `RdfStore` takes a posting
for the set of its statements; this is what justifies it, up to the length at which
it stops being true (Findings). The instances have bytes of three bits, in which
every boundary of the codes exists: 128, 256 and 2^16 become 4, 8 and 2^6.

A vector of one byte that is followed in the buffer by three equal bytes is
written as a run of one byte (`sflcomp.c` 724, where `src_size - 2` wraps); it reads
the same and is left out.

### RdfStore_proofs, RdfConnect_proofs, CachingStore_proofs, BitVector_proofs, RdfIterator_proofs, Posting_proofs, DbmsClient_proofs, DbmsDaemon_proofs

The theorems, see Proofs.

## Runs

| Run | Instance | Shows |
|---|---|---|
| `seq` | one handle, four statements (a text, a date, an integer, a float), with and without context, capacity 3 | between calls every posting, the statements table and the size are exact, and no statement is stored twice (`TablesExact`); words of others are kept, no word being twice in a literal; the kernel implements `TripleStore` |
| `pair` | two handles, two statements, capacity 2 | ids unique and never reused, postings sound, the counter back at the capacity and the size not negative (`CounterSettles`) |
| `contexts` | one handle, own, given and default contexts, a malformed literal, two failing requests | a statement that can be found has all its postings; hash codes lead to the statement they stand for, and duplicates are in the same context |
| `return` | one handle that writes and one that only reads, a new store or a complete one with other settings, version or name; one failing request, two deaths, two iterators | who is connected has a complete store; without failures, handles work with the store's settings and numbers and size survive reconnections (`StoreAgrees`); a half created store is completed with the settings it has; a handle is freed with its last iterator, unless a failed one is counted, and not before |
| `cached` | three keys, a cache of two, values 0 and 1, one failing request, any number of deaths | list and index of the cache agree; clean entries are what the backend holds; nothing older than the last sync comes back; the cache implements `FlatStore` |
| `client` | two clients, three keys, three calls, two exchanges that go wrong | a request is executed at most once more than an exchange of its call was cut off; unless a signal tore an answer of the connection, what a call returns is the answer to the last execution; numbers differ; a client that scans alone misses nothing; a call returns |
| `daemon` | two clients, two databases and a refused one, one child at a time and two in all, one death or failed open, also between the messages of a hand-off, clients that leave in the middle of an answer | a connection is in one place, a database in one process, and its record counts its connections |
| `served` | three clients of one database where two are allowed, so that the only fork may be refused its socket, one death | every request is answered or its connection closed, and who leaves is closed |
| `iterator` | three iterators, four statements, bytes of two bits, four calls | walks come to every statement once and in order; combinations are those of sets; searches and descriptions find what they should |
| `posting` | four codecs, five postings to begin with, seven statements | a posting decodes to the statements with the term, and is absent when there are none |
| `spin`, `gap` | the smallest instance for each | the findings |

Bounds: in `seq`, `pair` and `contexts`, a posting distinguishes no, one and several
bits, so three ids suffice for one handle; the capacity is exceeded in `seq` and
`pair` (two insertions at once past it in `pair`). Four statements cover every
posting table, with each shared key shared by two of them: `Text` and `Day` share a
word, `Text` and `Number` another, `Day` and `Ratio` a third. Two handles suffice
for the races between two requests, which is all the code has. One failing request
shows every point where a call can be abandoned, and the calls after it find what it
left; the second one of `contexts` can fall on those calls. `pair` uses the
symmetry of the handles, which no definition tells apart.

In `return`, a death or a failure can fall at any point and be followed by a full
connection; two statements are enough to number one twice, two iterators to count
wrong. One of its handles only reads: two that create a store together can each
store a setting or a counter after the other's lookup of it (322, 592), so the code
promises `StoreAgrees` only to one creator at a time; for stores that exist, it is
proved for any number of handles. It is promised only without failures, too, see
`RdfConnectLost.cfg` below.

In `cached` the third key is what an eviction needs; with a cache of two, a key is
moved to the head from the head and from elsewhere, and evicted while another
stays. Two values make counters wrap and tell an old value from a new one.

In `client` two rounds stand for ten: the first and the last are the ones the loop
tells apart. Three descriptors let one be reused by the other client, and the
second fault can fall on the repetition of what the first one broke. Three keys let
a scan pass over, stay before and be behind a key that is deleted.

In `daemon` a second child can only come after the first is gone, which is when the
mother's records must agree with what is left of it; two databases let one child
have two and a connection be assigned to a child that has another. Two children are
never alive together there (`MaxProcesses` is 1), so that the choice among several is
left to the theorems. In `served` the third client is refused, the fork is refused its
socket when two clients came before it, and both limits and a death come before,
between and after the steps of a hand-off. `Cuts` is false there: a client whose connection is cut off in the
middle of a round leaves its record behind, which `daemon` has.

In `iterator` bytes of two bits make four statements two bytes, so that vectors of
different lengths, a bit behind the vector and growth occur; four calls are enough
to open, walk or cut down, duplicate and combine. Symmetry is that of the iterators.

In `posting` the statements are chosen so that runs of zero and of other bytes of 1 to
34 bytes, strings of every length and single bits occur, among them runs one short
of, at and one past every boundary below 2^6.

`CHECK_DEADLOCK` is off in `return`, `client`, `daemon`, `served`, `iterator`, `posting`
and the runs with findings: calls, connections and numbers are bounded there, and
after the last one nothing is left to do; in `return` a handle that `rdfstore_elements`
left a count on waits for ever. In the other runs deadlock is checked.

### Fairness

`client`: `WF` on the steps of each client inside a call and on the daemon's
execution of its requests: both are sequential programs that nothing in the model
blocks. Nothing obliges a caller to call, a connection to break or a
reconnection to fail. `Noise` is not fair either: what is left of an answer may promise
more than will come. `CallsReturn` excludes that, and a request sent on a connection
whose database was refused, which the daemon ignores for ever.

`served`: `WF` on the round of each process. `select_loop` takes every ready
descriptor in each round, and a ready descriptor stays ready, which is why weak
fairness of the process, and not of each connection, is enough. Nothing obliges a
client to ask or a process to die. Both properties hold as long as the mother is
there and not stuck in a send.

The kernel, connecting and the cache have no liveness property: a call ends after a
bounded number of requests, each of which is answered or fails, and nothing waits
for another handle.

## Findings

Two are runs, which end in a violation of what the code says of itself:

* **`spin`**: `atomic_send` tests `(errno=EAGAIN)` (`children.c` 110), so that a
  hand-off to a child that has just died never ends, and the mother serves nobody
  any more.
* **`gap`**: the codecs write the length of a run in two bytes (`sflcomp.c` 495,
  313, 700), so that a run of 2^16 equal bytes is written with length 0. It exists
  when a term is first used 524288 statements or more after the store was created,
  or is common to as many consecutive ones; its posting then decodes to statements
  524288 lower. A store holds 2097152 by default.

Further configurations are kept to be run by hand. Each of the following ends
in a violation of the property named, and shows what the code does instead of what
is written about it:

| Configuration | Property | What it shows |
|---|---|---|
| `RdfStoreEcho.cfg` | `WordsRemovedAreOwn` | `rdfstore_remove` expects that removing a word a second time, because it is twice in the literal, finds no key (`rdfstore_kernel.c` 6678): it finds the one of the only other statement with that word, and deletes it without a look at its bit (6677; the same for stems, 6806) |
| `RdfStoreDefault.cfg` | `ContainsAgrees` | after `set_context`, `insert` and `remove` "use default context" (1167, 4332) and `contains` does not (9356), which "tests if the model contains a given statement" (`lib/RDFStore/Model.pm` 329): it denies the one just added |
| `RdfStoreKept.cfg` | `DuplicateIsStored` | a hash code cached in a structure is used for any context (`rdfstore_digest.c` 349), so that a statement is refused as a duplicate in a context it is not in |
| `RdfStoreRace.cfg` | `NoDuplicates` | two handles can store the same statement twice (1242) |
| `RdfConnectLost.cfg` | `NumbersUnique` | a lookup that fails while a handle connects reads as an absent key, and sets the counter of the store back to zero (592) |
| `RdfConnectLeak.cfg` | `CursorsCallBack` | `rdfstore_elements` counts its iterator before it scans the statements (9632), and leaves the count when the scan fails (9655): a handle that is disconnected then waits for "the cursors to call me back" (776), and there is none. It is never freed, its tables neither synced nor closed |
| `CachingStoreDelete.cfg` | `DeleteSucceeds` | deleting a key the cache has not yet written reports that it was not there (`backend_caching_store.c` 517); `rdfstore_remove` then returns with the node deleted and nothing else removed (4450) |
| `DbmsClientRetry.cfg` | `NoRetry` | a request whose answer was lost is repeated and executed twice, though `lib/DBMS.pm` 85 says that "there is no automagic retry" |
| `DbmsClientCursor.cfg` | `SharedScanIsComplete` | two clients scan one database: the cursor is put back before the key, not after it, so that one misses keys |
| `DbmsClientTorn.cfg` | `ErrorIsReported` | `getpack` (`libdbms.c` 545) takes a signal or a reset of the connection for an error of the database, of which `dbms_comms` says that it "obviously is not a comms problem" (845): the call ends with an error nobody reported, for a request that was executed |
| `DbmsClientNoise.cfg` | `AlwaysOwn` | after a signal in the middle of an answer the rest of it is read as the header of the next (`libdbms.c` 628), and what passes for one is returned |
| `DbmsDaemonRefused.cfg` | `OnlyChildBailsOut` | with `max_clients` connections open, a fork that is refused its socket pair returns NULL without an `errno` (`children.c` 309), which means "we are the child" (188) to `get_dbp`: the mother, who is not, keeps a database record that names no child |
| `RdfIteratorFetch.cfg` | `FetchComplete` | a description that reaches a node first through a cycle, just above the limit of depth, loses what hangs on that node (9081) |

`RdfConnectCreate.cfg` holds: two handles create a store together while a request
fails and a process dies, and `OpenIsComplete` is true of both.

Two more were met and have no configuration. An insertion refused for its parse type has
already been counted (1321), so that `is_empty`, which counts it as a statement,
never says yes again. And the kernel reads and writes the same postings plain in
one function (insertion, 1736) and compressed in the other (removal, 6859), so that
with `RDFSTORE_CACHE` set a removal can miss what an insertion left in the cache;
in the model this is a key that is both in `usage.plain` and `usage.packed`. What
the cache promises about values is stated for the other keys (`Apart`).

## Proofs

`RdfStore_proofs` proves, for every value of the constants that satisfies the
assumptions of `RdfStore` (finitely many handles, at least one id, keys and hash
codes of the right types, `None` different from everything):

* `TypeCorrect`: `TypeOK` always holds;
* `UniqueIds`: `IdsUnique` always holds;
* `IdsStay`: `IdsNeverReused`;
* `SoundPostings`: `IndexSound` always holds;
* `CountersSettle`: `CounterSettles` always holds.

And under hypotheses on the constants, each of which the code needs:

* `NamesAreSound`: `StatementsSound` always holds, if callers build a structure for
  every call (`BuiltEachTime`);
* `VisibleAreIndexed`: `VisibleIsIndexed`, for a single handle, distinct hash codes
  and literals in which no word comes twice (`Single`), whatever requests fail;
* `TablesAreExact`: `TablesExact`, if moreover no request fails and no literal is
  malformed (`Calm`);
* `StoreIsSet`: `RefinesTripleStore`, if moreover there are no default contexts.

The instances of `seq` satisfy all of these. Where a hypothesis is dropped there is a
configuration in which the property fails: a kept structure (`RdfStoreKept.cfg`), a
default context (`RdfStoreDefault.cfg`), a repeated word (`RdfStoreEcho.cfg`), a second
handle, which can write its copy of a posting over another's entry, or store a
statement twice (`RdfStoreRace.cfg`). Equal hash codes of two quads are one quad to
the code. A failed request leaves a number, a name or postings behind, and a
malformed literal its number (1321).

The inductive invariant has layers. `Inv1` is the types, what a call knows
at each request (`CallOK`), and `Overrun`: while some handles are about to hand
back a number, the counter is at least the capacity plus their number. Without
`Overrun` a decrement could take the counter below the capacity and an id could
be given out twice. `Inv2` adds that ids from the counter up were never given
(`Fresh`), that a call inserts under an id given to its own statement (`Owned`),
and that the statements table names only ids that were given (`Named`). `Inv3`
adds that what a call holds in memory between reading and writing a posting is
sound (`BuffersSound`), and that the entries an insertion still has to write are
entries of its statement (`TodoSound`): since an id never changes its statement,
a posting written late, over another handle's, is still sound. `TypeOK` needs
`Overrun` too, as an id past the capacity would be out of range.

`Inv4`, on `Inv3`, is about names. Nothing is cached, so that a call works with the
hash code of its own statement and context (`Hashed`), and what is stored under an
id is the quad it was given for (`NodesRight`); so a name written late is still the
name of that quad.

`CountInv`, on `Inv2`, is about counters. The two counters are changed by different
requests than the tables are, so that neither says at any time how many statements
there are. What does hold is an inequality: every removal that was counted, or is
about to be (`Uncounted`), and every id that is stored or is about to be (`Held`), had
its own increment (`Allocated`). `rdfstore_size` reads removals first, and never more
than there are increments when it reads those (`Reads`). The counter exceeds the
capacity by the calls about to hand a number back (`Capacity`).

`VisInv`, on `Inv4`, is about one handle: an insertion has filed its id but for the
entries left (`Filed`), a removal has taken its id out of entries it will not see
again only (`Unfiled`), the number it found is still what its hash code names
(`Found`), and the posting it holds is the one in the table (`Current`), which is what
a second handle would break. It needs that a list of entries contains none twice, and
that taking an entry off its head leaves the others (`Members`, `Once`).

`ExactInv` is `VisInv`, `CountInv` and what may differ between the tables while the
call is at each request (`ExactAt`), and no more: a node without a name, a name
without a node, a number not yet counted as removed. When no call is under way the
tables agree. `SetInv` adds that a result is only there when the call has ended.

`StoreIsSet` maps the store to the set of quads whose hash code is named. An
insertion takes effect in the abstract store when its name is written
(`InsertStatement`), a removal when its name goes (`RemoveStatement`), and a membership
test, a size and a refusal where they read; every other step leaves the set as it is.
That `rdfstore_size` is the number of quads is a bijection between stored ids and quads.
Setting a default context is no operation of `TripleStore`, hence `Defaults = {}`.

`RdfConnect_proofs` proves, for any handles, iterators, stores, failures and
deaths:

* `ConnectTypeCorrect`, `ConnectedToComplete`, `HandleOutlivesIterators`,
  `LastIteratorFrees`: `TypeOK`, `OpenIsComplete`, `NoneFreedInUse`,
  `NoneLeftOpen` always hold, the last one of handles on which `rdfstore_elements` did
  not fail;
* `ExistingStoreIsKept`: `StoreAgrees` (settings, numbers and size) always holds,
  if no request may fail and no store is new (`Calm`).

`IInv` says that the keys in the model table are always the first ones in the
order of `rdfstore_connect` (`Prefix`), and what a handle knows at each key
(`Progress`): so the last counter, which a read-only handle insists on, vouches
for the codec it may have missed. It also says that `attached` is the number of
iterators of a handle and of those it lost (`AllCounted`), without which the close that frees the
handle could not be known to be the last; types depend on it, since an iterator
dereferences its handle. `CalmInv` adds that no handle is about to store a key,
that the settings before the current key are those of the store (`Settled`), and
that numbers and sizes match the counters (`Balanced`).

`CachingStore_proofs` proves, for any keys, usages, cache sizes, widths of values
and numbers of failures:

* `TypeCorrect`, `LruIsExact`, `CleanEntriesAreBacked`, `LossIsBounded`: `TypeOK`,
  `LruExact`, `CleanIsBackend`, `NothingOlder` always hold;
* `Implements`: `Spec => KeepsPromise`, by `PromiseStep`, in which every action is
  a step of `FlatStore` or changes nothing its caller sees.

The only assumption is `CacheConstants`. `IInv` adds to `TypeOK`, `LruExact` and
`NothingOlder` what is known during a call (`CallOK`): that its key is not in the
cache and that there is room for it, which is what keeps the list free of
repetitions and short enough; and what each state of an entry says of its value
(`EntriesOK`): a changed entry has one, a clean one has the backend's, one marked
NOTFOUND has none below either unless a request failed. The last part is what makes dropping an
entry invisible. The lemmas about the list say what putting a key at its head and
taking one off either end do to its elements.

`BitVector_proofs` proves what the functions of `rdfstore_bits.c` do to the sets of
numbers their vectors stand for, for bytes of any width and vectors of any lengths:
`OrIsUnion`, `AndIsIntersection`, `ExorIsDifference` (despite its name, and also when
the second vector is the shorter), `NotIsComplement` (within the bytes there are),
`SetmaskSets` (with growth), `ShortenKeeps` and `NextMember`. A position is its byte
and its bit (`Position`, `AtByte`); the last byte that is not zero exists because
`>` is well-founded on the bytes of a vector, for which `WFMin` of the library is
used. These are the facts that the next two modules rest on, with `Upwards`, the
induction over numbers up to a bound that is an argument by the least exception, as
no installed prover takes the library's induction theorems.

`RdfIterator_proofs` proves everything `iterator` checks, for any statements,
patterns, resources, contexts, iterators, bytes and depths that satisfy
`BitConstants`, `SearchConstants` and `IteratorConstants`: statements are numbered
from 0 and their numbers have room in the buffers, patterns are lists of keys with an
operator, and there are finitely many anonymous nodes:

* `TypesCorrect`, `WalksExact`, `CombinationsHold`: `TypeOK`, `WalkExact` and
  `CombinationsExact` always hold;
* `SearchesExact`: `SearchExact` always holds;
* `FetchesExact`: `FetchExact` always holds.

The last two are about the statements stored in any reachable state and hold for
every set of them. A posting is a fold over its set, a part of a pattern a fold over
its keys, and a search a fold over its parts: each is shown to be the last of a run
of intermediate results (`FoldsIn`, `PartRun`, `JoinRun`, `SearchRun`), and what is
known of a result is carried along the run. Of a search (`SoFar`): it is
ended only if no statement matches the parts so far, and otherwise lies between the
statements that match all their keys and those that match one key of each. Of a
description, `Visit` is a run over the levels; a visit never adds a statement outside
the description (`Sound`), and adds all of it when nothing below the node is cyclic
and fewer anonymous nodes are below it than levels are left (`Complete`). What is out
already matters there: a statement that is out is not followed again, which loses
nothing only if what hangs on it is out, too (`Full`). With a cycle it need not be,
which is how `FetchComplete` fails.

The invariant `IInv`, which TLC found to hold in `iterator` before it was proved,
says of each iterator by itself (`Good`) that its counters fit its vector, that its members were
stored once, and, as long as they all still are and the calls were not mixed, how far
the walk over it is (`WalkRight`): what was seen is the first `st_counter` members in
their order, one more in a loop of first and next, and the position is behind
exactly those (`Passed`). An iterator of which a member was removed never becomes
whole again, because numbers are not used twice; without that clause (members below
`next`) the invariant would not be inductive. `First`, `Next_` and `Each` move the position to the next member
by `NextMember`; a set operation begins a fresh walk over a vector that the theorems
of `BitVector_proofs` describe.

`Posting_proofs` proves, for bytes of three bits or more (`CodecConstants`), that the codecs lose nothing, and
then that postings do not:

* `NullsRunIsRead`, `BitsRunIsRead`, `RleRunIsRead`: each codec reads back the run it
  wrote, of any byte and any length below `Base * Base` (2^16), and goes on behind it;
  one case for each kind of code. `TwoBytes` says that two bytes hold such a length,
  and is what fails beyond it;
* `CodeIsRead`: whatever was encoded is decoded, for every sequence of fewer than
  `Base * Base` bytes;
* `TypesCorrect`, `PostingsExact`: `TypeOK` and `PostingExact` always hold, if every
  number is below `Width * (Base * Base - STEP)` (`Short`): for bytes of 8 bits and
  steps of 16, below 524160, up to which no vector has 2^16 bytes. The first number at
  which the code is wrong is 524288 (`gap`).

A code is written from its end and read from its beginning. Both recursions exist
because they go forward only (`Backwards`); the round trip is shown for each tail of
the code, from the shortest on, wherever in the code it stands (`Remains`): its first
piece, a single bit, a run or a string (`PieceIsRead`), is read for what was written,
and reading goes on where the next begins. A byte is the sum of the powers of its
bits, and they are read from it by division (`ByteIsRead`). The invariant `IInv` says
that the vector that is fetched stands for the statements with the term, is empty
only for none, and is no longer than its greatest number needs, in steps of `STEP`
(`Stands`), and that what is stored is what encoding it gives. The length is what
keeps the runs short; it holds because `setmask` grows a vector by no more than it
needs (`InsertedStands`) and because removal, the only one to shorten, cuts every zero byte
at the end off (`RemovedStands`), so that an empty posting has no code.

`DbmsClient_proofs` proves, for any clients, keys, descriptors, requests, rounds,
calls and faults:

* `ClientTypes`: `TypeOK`, with the bound on the rounds of a call;
* `RequestsAreCounted`: `ExecutedPerConnection`;
* `AnswersAreOwn`: `AnswerIsOwn`;
* `ScansAreComplete`: `ScanIsComplete`;
* `NumbersAreNew`: `NumbersDiffer`, as long as no such counter has come to the last
  value before it wraps (`[]NoneFull`); the kernel refuses numbers far below it.

The assumptions are `TableConstants` and `ClientConstants`. `ClientInv` is a property of
each client by itself (`Local`) and a few facts about all of them (`Shape`), so that
`OneClient` reduces a step to the client that makes it. `Local` says that the
executions of a request, and the request while it is still on the wire, do not exceed
the exchanges cut off, by one while an answer is awaited (`Counted`), which is where the
code's order of close, reconnect and send matters; and that on a connection that is
whole, neither reset nor torn (`Whole`), there is nothing but the request of the call or
the answer to its last execution, and before that at most the answer that `reselect` did
not read, whose token is that of no request (`InStep`). So the first answer that is
accepted is the call's own (`Own`), even if it was cut off before. That every request of
dbmsd leaves a database behind is `ExecuteExecutes`.

`ScanInv` says of a client that scans alone that every key it must see is in the
table, and that either it has seen them all, or the cursor is where its last answer
was, its descriptor is the last user, and it has seen those up to the cursor
(`Under`). The first part is why a scan that ended, or whose table was cleared, stays
complete wherever the cursor goes. `NumbersInv` is about a counter key and its numbers:
those given away, those promised, in an answer that its client will read on a whole
connection (`Promise`), and the row. They all differ, and the row is not below any
(`Numbers`); so the next one is new, and an answer that is lost or torn leaves a gap. An
answer does not name its key, and none is taken for that of another one, because a call
reads no answer of an earlier call (`InStep`): the kernel may count statements and
removals in one table.

`DbmsDaemon_proofs` proves, for any clients, databases, children, limits, refused
databases and numbers of deaths:

* `DaemonTypes`: `TypeOK`;
* `OneProcess`: `InOnePlace`;
* `MotherKnows`: whatever a process has to do with a database, the mother has noted;
* `OneOwner`: `OpenOnce`;
* `CountsExact`: `CountsAgree`.

The only assumption is `DaemonConstants`. The invariant `Inv` has seven layers, each
proved from those before it. `Typed` is the types. `Placed` says that an open connection
is in one place, once (the queue, one list or one channel), also in the middle of a
round, when `todo` and `closing` name connections of a list that changes under
them. Between the second message of a hand-off and `Forget` the mother still lists the
connection and reads it no more (`Sent`, `Reads`): it is in at most one place besides,
none if the child has closed it or died. `Holding` says that a process that has not
begun, or has ended, holds nothing; that a process lists only forked ones; and that what
the mother is about to drop of her children is dead. `Handing` says that what is handed
off is still the connection that was found ready, and that its database has a child, at
each of the three steps. `Recorded` is about child records: the process of a record was
forked, a marked one is dead, and a record that still handles a database is in the
list or belongs to a dead child; without it a record that `Fork` uses again could hand
one child's database to another. `Known` then says that whatever a process has to do
with a database, an open record or a connection on its way (`Concerned`), the mother's
note names that process, from which `OneOwner` follows: two processes cannot both be
noted. `Points` says that only a connection that a child lists points to a record, the
record of its database, and that the count of the record is the number of such
connections, unless something was dropped in the middle of a round (`cut`): then
the code's count is off and the property says nothing. The lemmas about lists say that
what `Picked` takes from a list is in the same order and what it does to its elements
(`RankIsBijection`).

Only model-checked:

* `StoreAgrees` of a store that is new, or recovered after the death of its creator
  (`return`): the theorem is about complete stores, as with several creators at once it
  is false;
* `WordsRemovedAreOwn`: it needs that no word is twice in a literal, and where that is so
  it says no more than what `VisibleAreIndexed` rests on (`RemovedIsOwn`);
* liveness (`CallsReturn`, the properties of `served`), and the findings.

## Plan

All the modules of the plan are written, and every safety property that a passing run
checks but `WordsRemovedAreOwn` is stated by a theorem, some of them under the hypotheses
above. What is left, in order of importance:

1. The codecs `block`, `original` and `fraenkel`.
2. The rules of `conf.c` and their matching, as a pure function.

## Not modelled

* **Codecs** `block`, `original` and `fraenkel`: rewritten bit by bit from hash
  tables or codebooks; a handle uses them only when
  `RDFSTORE_COMPRESSION` in its environment says so.
* **Node serialization, constructors, XML Schema values, UTF-8 case folding**: pure
  conversions of text, whose results are what `RdfStore` takes as the keys of a
  statement.
* **Daemon configuration**: its verdict is `Forbidden`.
* **Proxy**: one request per process, no state.
* **Perl layer, parsers, serializers, RDQL, DBI driver, utilities**: callers of the
  modelled interfaces.
* **Files, pages, locks of BerkeleyDB**: an atomic, durable table. The increment of
  `backend_bdb_store.c` (962) is a get and a put, so that two processes on one file can be
  given the same number, as its comment says; `RdfStore` has the daemon's, one step.
