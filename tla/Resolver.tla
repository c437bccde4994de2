------------------------------ MODULE Resolver ------------------------------
(***************************************************************************)
(* Resolver.Resolve (internal/resolver/resolver.go) as the concurrent      *)
(* requests of one server call it: the LRU of answers, whose entries are   *)
(* tested for their age after the Get that copied them and removed after   *)
(* that test, the lookup with its timeout, and the list of DNS servers,    *)
(* whose next index all dials read and increment without a lock.  Which    *)
(* entry the LRU drops is left open: the hosts are some of the ten         *)
(* thousand it holds.                                                      *)
(*                                                                         *)
(* A lookup of net.Resolver is two queries at once, for IPv4 and for IPv6  *)
(* addresses, with dials of their own; it has the addresses of those that  *)
(* succeed.  A list of no servers, the system's resolver, is a list of one *)
(* here: the index is always that of the same server.                      *)
(***************************************************************************)
EXTENDS Integers

CONSTANTS
  Requests,    \* requests that run at once
  Hosts,
  Answers,     \* what DNS may say of a host
  NoAnswer,    \* and that it has no such host
  Families,    \* Families[h]: the families of h's addresses
  TTL,         \* ticks an entry is valid
  MaxLag,      \* ticks a lookup can take: the resolver's timeout
  NumServers,  \* length of `servers`
  Outages,     \* the sets of servers that may be down
  Attempts,    \* dials of a query before net.Resolver gives up
  MaxEvents    \* bound: changes of what DNS says, lost packets, expired contexts

ASSUME ResolverAssumption ==
  /\ NoAnswer \notin Answers
  /\ Families \in [Hosts -> SUBSET {"v4", "v6"}]
  /\ {TTL, MaxLag, MaxEvents} \subseteq Nat
  /\ {NumServers, Attempts} \subseteq Nat \ {0}

VARIABLES
  zone,        \* what DNS says of each host now
  up,          \* the servers that answer
  entry,       \* entry[h]: the LRU's entry of h
  req,         \* req[r]: where r is in Resolve, or what its last call returned
  idx,         \* `idx`, modulo NumServers
  query,       \* query[r]: the queries of r's lookup
  said,        \* history: ticks since DNS gave this answer for this host
  tried,       \* history: the servers that r's lookup has dialled
  crowded,     \* history: other dials came within or between its own
  events       \* how many of those so far

vars == <<zone, up, entry, req, idx, query, said, tried, crowded, events>>

world == <<zone, up, events>>
cache == <<entry, said>>
dials == <<idx, query, tried, crowded>>

----------------------------------------------------------------------------
Ages == 0..TTL                      \* TTL: expired
Never == TTL + MaxLag + 1           \* not in this long, or never
Servers == 0..NumServers - 1
Queries == {"v4", "v6"}

\* Addresses are the answers that they come from; none: ErrUnresolvable.
Entry == [ans : SUBSET Answers, age : Ages]
NoEntry == [ans |-> {}, age |-> TTL]

\* host: the key; ans, age: the entry that Get copied, or the lookup's answer;
\* lag: ticks since DNS gave it.
Request == [pc : {"idle", "test", "lookup", "put"},
            host : Hosts, ans : SUBSET Answers, age : Ages, lag : 0..MaxLag]

Call(pc, h, ans) == [pc |-> pc, host |-> h, ans |-> ans, age |-> TTL, lag |-> 0]

\* srv: the server of a dial; tries: the dials before it.
Query == [pc : {"off", "pick", "store", "wait", "done", "failed"},
          srv : Servers, tries : 0..Attempts]

Off == [pc |-> "off", srv |-> 0, tries |-> 0]
First == [pc |-> "pick", srv |-> 0, tries |-> 0]

Init ==
  /\ zone \in [Hosts -> Answers \cup {NoAnswer}]
  /\ up \in {Servers \ down : down \in Outages}
  /\ entry = [h \in Hosts |-> NoEntry]
  /\ req \in [Requests -> {Call("idle", h, {}) : h \in Hosts}]
  /\ idx = 0
  /\ query = [r \in Requests |-> [f \in Queries |-> Off]]
  /\ said = [h \in Hosts |-> [a \in Answers |-> Never]]
  /\ tried = [r \in Requests |-> {}]
  /\ crowded = [r \in Requests |-> FALSE]
  /\ events = 0

SetCall(r, call) == req' = [req EXCEPT ![r] = call]

----------------------------------------------------------------------------
(* Resolve: the cache.                                                     *)

Cached(h) == entry[h].ans # {}

Return(r, ans) == SetCall(r, Call("idle", req[r].host, ans))

\* LookupNetIP starts its queries.
LookUp(r, h) ==
  /\ SetCall(r, Call("lookup", h, {}))
  /\ query' = [query EXCEPT ![r] = [f \in Queries |-> First]]
  /\ UNCHANGED <<idx, tried, crowded>>

\* cache.Get copies the entry.
Get(r, h) ==
  /\ req[r].pc = "idle"
  /\ \/ /\ Cached(h)
        /\ SetCall(r, [Call("test", h, entry[h].ans) EXCEPT !.age = entry[h].age])
        /\ UNCHANGED dials
     \/ ~ Cached(h) /\ LookUp(r, h)
  /\ UNCHANGED <<world, cache>>

\* Faulty variant: the copy's age is not looked at.
ReturnAnyHit(r) ==
  /\ req[r].pc = "test"
  /\ Return(r, req[r].ans)
  /\ UNCHANGED <<world, cache, dials>>

\* Faulty variant: a hit makes the entry new again.
ReturnHitTouching(r) ==
  /\ req[r].pc = "test"
  /\ req[r].age < TTL
  /\ Return(r, req[r].ans)
  /\ entry' = [entry EXCEPT ![req[r].host].age = 0]
  /\ UNCHANGED <<world, said, dials>>

\* The copy has not expired: it is the answer.
ReturnHit(r) ==
  /\ req[r].pc = "test"
  /\ req[r].age < TTL
  /\ Return(r, req[r].ans)
  /\ UNCHANGED <<world, cache, dials>>

\* It has: the host's entry goes, which may be another than the one tested.
Expire(r) ==
  /\ req[r].pc = "test"
  /\ req[r].age = TTL
  /\ entry' = [entry EXCEPT ![req[r].host] = NoEntry]
  /\ LookUp(r, req[r].host)
  /\ UNCHANGED <<world, said>>

\* cache.Add with a whole TTL, and the answer is returned.
Add(r) ==
  /\ req[r].pc = "put"
  /\ entry' = [entry EXCEPT ![req[r].host] = [ans |-> req[r].ans, age |-> 0]]
  /\ Return(r, req[r].ans)
  /\ UNCHANGED <<world, said, dials>>

\* The LRU drops an entry for one of another host.
Evict(h) ==
  /\ Cached(h)
  /\ entry' = [entry EXCEPT ![h] = NoEntry]
  /\ UNCHANGED <<world, req, said, dials>>

----------------------------------------------------------------------------
(* Resolve: the lookup.  Dial is called for each try of each query, by all *)
(* requests.                                                               *)

SetQuery(r, f, q) == query' = [query EXCEPT ![r] = [query[r] EXCEPT ![f] = q]]

Storing(r, f) == query[r][f].pc = "store"

\* A dial of r comes between those of every other request that looks up now.
Crowd(r, also) ==
  crowded' = [q \in Requests |->
    crowded[q] \/ IF q = r THEN also ELSE req[q].pc = "lookup"]

\* srv := servers[idx%len(servers)]
Pick(r, f) ==
  LET q == query[r][f] IN
  /\ q.pc = "pick"
  /\ SetQuery(r, f, [pc |-> "store", srv |-> idx, tries |-> q.tries])
  /\ tried' = [tried EXCEPT ![r] = tried[r] \cup {idx}]
  /\ Crowd(r, \E o \in Requests, g \in Queries : Storing(o, g))
  /\ UNCHANGED <<world, cache, req, idx>>

\* Faulty variant: the index is used as it is, without the modulo.
StoreIdxBeyond(r, f) ==
  LET q == query[r][f] IN
  /\ q.pc = "store"
  /\ idx' = idx + 1
  /\ SetQuery(r, f, [pc |-> "wait", srv |-> q.srv, tries |-> q.tries])
  /\ Crowd(r, FALSE)
  /\ UNCHANGED <<world, cache, req, tried>>

\* Faulty variant: each query has an index of its own.
StoreIdxLocal(r, f) ==
  LET q == query[r][f] IN
  /\ q.pc = "store"
  /\ SetQuery(r, f, [pc |-> "wait", srv |-> q.srv, tries |-> q.tries])
  /\ UNCHANGED <<world, cache, req, idx, tried, crowded>>

\* idx++ adds one to what Pick has read, if the build reads it once, or to what
\* others have made of it: a dial can be lost from the count.
StoreIdx(r, f) ==
  LET q == query[r][f] IN
  /\ q.pc = "store"
  /\ \E seen \in {q.srv, idx} : idx' = (seen + 1) % NumServers
  /\ SetQuery(r, f, [pc |-> "wait", srv |-> q.srv, tries |-> q.tries])
  /\ Crowd(r, FALSE)
  /\ UNCHANGED <<world, cache, req, tried>>

\* A server that is up says what the zone has: addresses of this family, or none.
Answer(r, f) ==
  LET q == query[r][f]
      h == req[r].host
      new == IF f \in Families[h] THEN {zone[h]} \cap Answers ELSE {}
  IN
  /\ q.pc = "wait" /\ q.srv \in up
  /\ SetQuery(r, f, [pc |-> "done", srv |-> 0, tries |-> q.tries])
  /\ SetCall(r, [req[r] EXCEPT !.ans = req[r].ans \cup new])
  /\ said' = [said EXCEPT ![h] = [a \in Answers |-> IF a \in new THEN 0 ELSE said[h][a]]]
  /\ UNCHANGED <<world, entry, idx, tried, crowded>>

\* A server is down, or a packet is lost: net.Resolver dials again, until it
\* has done so often enough.
Retry(r, f) ==
  LET q == query[r][f] IN
  /\ q.pc = "wait"
  /\ \/ q.srv \notin up /\ UNCHANGED events
     \/ q.srv \in up /\ events < MaxEvents /\ events' = events + 1
  /\ SetQuery(r, f, [pc |-> IF q.tries + 1 < Attempts THEN "pick" ELSE "failed",
                     srv |-> 0, tries |-> q.tries + 1])
  /\ UNCHANGED <<zone, up, cache, req, idx, tried, crowded>>

\* What LookupNetIP returns: the addresses there are, or ErrUnresolvable, which
\* is not cached.
Conclude(r, ans) ==
  /\ IF ans = {} THEN Return(r, {})
     ELSE SetCall(r, [Call("put", req[r].host, ans) EXCEPT !.lag = req[r].lag])
  /\ query' = [query EXCEPT ![r] = [f \in Queries |-> Off]]
  /\ tried' = [tried EXCEPT ![r] = {}]
  /\ crowded' = [crowded EXCEPT ![r] = FALSE]
  /\ UNCHANGED <<cache, idx>>

\* Both queries are over.
Gather(r) ==
  /\ req[r].pc = "lookup"
  /\ \A f \in Queries : query[r][f].pc \in {"done", "failed"}
  /\ Conclude(r, req[r].ans)
  /\ UNCHANGED world

\* The context's deadline, or a client that has gone: an error, or what there is
\* of addresses.
Cancel(r) ==
  /\ req[r].pc = "lookup"
  /\ events < MaxEvents
  /\ events' = events + 1
  /\ \E ans \in {{}, req[r].ans} : Conclude(r, ans)
  /\ UNCHANGED <<zone, up>>

----------------------------------------------------------------------------
(* The world.                                                              *)

Older(age, limit) == IF age < limit THEN age + 1 ELSE limit

\* The lookup has addresses, which grow old.
Waits(r) == req[r].ans # {} /\ req[r].pc \in {"lookup", "put"}

\* Time passes; an answer that the lookup waits with is not older than its
\* timeout.
Tick ==
  /\ \A r \in Requests : Waits(r) => req[r].lag < MaxLag
  /\ entry' = [h \in Hosts |-> [entry[h] EXCEPT !.age = Older(entry[h].age, TTL)]]
  /\ req' = [r \in Requests |->
       IF req[r].pc = "test" THEN [req[r] EXCEPT !.age = Older(req[r].age, TTL)]
       ELSE IF Waits(r) THEN [req[r] EXCEPT !.lag = req[r].lag + 1]
       ELSE req[r]]
  /\ said' = [h \in Hosts |-> [a \in Answers |-> Older(said[h][a], Never)]]
  /\ UNCHANGED <<world, dials>>

\* The host moves, or goes.
Change ==
  /\ events < MaxEvents
  /\ \E h \in Hosts, a \in Answers \cup {NoAnswer} : zone' = [zone EXCEPT ![h] = a]
  /\ events' = events + 1
  /\ UNCHANGED <<up, cache, req, dials>>

----------------------------------------------------------------------------
Dial(r, f) == Pick(r, f) \/ StoreIdx(r, f) \/ Answer(r, f) \/ Retry(r, f)

Resolve(r) ==
  \/ \E h \in Hosts : Get(r, h)
  \/ ReturnHit(r) \/ Expire(r) \/ Add(r) \/ Gather(r)
  \/ \E f \in Queries : Dial(r, f)

Next ==
  \/ \E r \in Requests : Resolve(r) \/ Cancel(r)
  \/ \E h \in Hosts : Evict(h)
  \/ Tick
  \/ Change

Spec == Init /\ [][Next]_vars

\* Hosts are asked for again and again, every step of a call is taken, and time
\* passes.
FairSpec ==
  /\ Spec
  /\ WF_vars(Tick)
  /\ \A r \in Requests : WF_vars(Resolve(r))

----------------------------------------------------------------------------
(* Properties.                                                             *)

TypeOK ==
  /\ zone \in [Hosts -> Answers \cup {NoAnswer}]
  /\ up \in SUBSET Servers
  /\ entry \in [Hosts -> Entry]
  /\ req \in [Requests -> Request]
  /\ idx \in Servers
  /\ query \in [Requests -> [Queries -> Query]]
  /\ said \in [Hosts -> [Answers -> 0..Never]]
  /\ tried \in [Requests -> SUBSET Servers]
  /\ crowded \in [Requests -> BOOLEAN]
  /\ events \in Nat

\* What a hit has are answers that DNS gave for this host, not longer ago than
\* the entry's age and the time a lookup takes; errors are never hits.  Whatever
\* order the Gets, removals and Adds of several requests came in.
WereSaid(h, e) ==
  e.age < TTL =>
    /\ e.ans # {}
    /\ \A a \in e.ans : said[h][a] <= e.age + MaxLag

HitsAreRecent ==
  /\ \A h \in Hosts : WereSaid(h, entry[h])
  /\ \A r \in Requests : req[r].pc = "test" => WereSaid(req[r].host, req[r])

\* A lookup whose queries both give up, and whose dials no others came between,
\* has dialled every server there is, if the two dial that often.
AloneDialsAll ==
  \A r \in Requests :
    /\ \A f \in Queries : query[r][f].pc = "failed"
    /\ ~ crowded[r] /\ 2 * Attempts >= NumServers
    => tried[r] = Servers

\* When DNS stops changing and failing, and every server is up, every request
\* comes to get what DNS says: no entry stays for ever.
AnswersCatchUp ==
  up = Servers =>
    \A r \in Requests :
      <>[](req[r].pc = "idle" =>
             req[r].ans = IF Families[req[r].host] = {} THEN {}
                          ELSE {zone[req[r].host]} \cap Answers)
=============================================================================
