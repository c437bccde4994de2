--------------------------- MODULE ResolverProofs ---------------------------
(***************************************************************************)
(* For any number of requests, hosts, DNS servers and attempts, and any    *)
(* TTL of the cache: a hit is an answer that DNS gave recently, and a      *)
(* lookup that gives up with nobody else dialling has dialled every        *)
(* server.                                                                 *)
(*                                                                         *)
(* For the first, an answer is carried from DNS to the entry and from the  *)
(* entry to the caller with its age (Carried).  For the second, the        *)
(* servers that a lookup has dialled are those just behind the shared      *)
(* index, as many as its two queries have made dials (Covers): that is so  *)
(* only while no other request moves the index, and no two dials read it   *)
(* before one has moved it.                                                *)
(***************************************************************************)
EXTENDS Resolver, TLAPS

----------------------------------------------------------------------------
(* The invariant.                                                          *)

\* What a call holds while it looks up was said since.
Held(r) ==
  /\ req[r].pc \in {"lookup", "put"} =>
       \A a \in req[r].ans : said[req[r].host][a] <= req[r].lag
  /\ req[r].pc = "put" => req[r].ans # {}

Carried ==
  /\ \A h \in Hosts : WereSaid(h, entry[h])
  /\ \A r \in Requests : req[r].pc = "test" => WereSaid(req[r].host, req[r])
  /\ \A r \in Requests : Held(r)

\* How many dials ago the index i has passed server x: 1 for the last one.
Gap(x, i) == IF x < i THEN i - x ELSE i - x + NumServers

\* The dials of a query that have moved the index.
Made(q) == q.tries + IF q.pc \in {"wait", "done"} THEN 1 ELSE 0

\* A query has tries left until it gives up.
Counted(q) ==
  /\ q.pc \in {"pick", "store", "wait", "done"} => q.tries < Attempts
  /\ q.pc = "failed" => q.tries = Attempts
  /\ q.pc = "off" => q.tries = 0

\* A lookup that nobody crowds has dialled the servers behind the index, and is
\* the only one that moves it.
Covers(r) ==
  ~ crowded[r] =>
    /\ \A x \in Servers :
         Gap(x, idx) <= Made(query[r]["v4"]) + Made(query[r]["v6"]) => x \in tried[r]
    /\ \A f \in Queries : Storing(r, f) => query[r][f].srv = idx /\ idx \in tried[r]
    /\ ~ (Storing(r, "v4") /\ Storing(r, "v6"))

Dialled ==
  \A r \in Requests :
    /\ req[r].pc # "lookup" => \A f \in Queries : query[r][f] = Off
    /\ \A f \in Queries : Counted(query[r][f])
    /\ Covers(r)

----------------------------------------------------------------------------
(* Numbers and records.                                                    *)

\* What the assumption says of the constants.
LEMMA Numbers ==
  /\ TTL \in Nat /\ MaxLag \in Nat /\ MaxEvents \in Nat
  /\ NumServers \in Nat \ {0} /\ Attempts \in Nat \ {0}
  /\ 0 \in Servers /\ 0 \in 0..Attempts /\ 0 \in 0..MaxLag /\ TTL \in Ages /\ 0 \in Ages
  /\ Never \in Nat
BY ResolverAssumption DEF Servers, Ages, Never

\* The index comes to the first server after the last.
LEMMA NextServer ==
  ASSUME NEW x \in Servers
  PROVE  /\ (x + 1) % NumServers = IF x + 1 = NumServers THEN 0 ELSE x + 1
         /\ (x + 1) % NumServers \in Servers
<1>1. (x + 1) % NumServers = IF x + 1 = NumServers THEN 0 ELSE x + 1
  BY Numbers, SMTT(30) DEF Servers
<1> QED
  BY <1>1, Numbers DEF Servers

\* When it does, the server that it has passed is one dial behind, and every
\* other one is one more dial behind than it was.
LEMMA GapGrows ==
  ASSUME NEW i \in Servers, NEW x \in Servers, NEW n \in Nat,
         Gap(x, (i + 1) % NumServers) <= n + 1
  PROVE  x = i \/ Gap(x, i) <= n
<1>1. i \in 0..NumServers - 1 /\ x \in 0..NumServers - 1 /\ NumServers \in Nat \ {0}
  BY Numbers DEF Servers
<1> DEFINE j == (i + 1) % NumServers
<1>2. j = IF i + 1 = NumServers THEN 0 ELSE i + 1
  BY NextServer
<1>3. Gap(x, j) <= n + 1
  OBVIOUS
<1> HIDE DEF j
<1> QED
  BY <1>1, <1>2, <1>3 DEF Gap

\* No server is further behind than there are servers.
LEMMA GapBounded ==
  ASSUME NEW i \in Servers, NEW x \in Servers
  PROVE  Gap(x, i) \in 1..NumServers
BY Numbers DEF Gap, Servers

\* The fields of a call, and of a query.
LEMMA Fields ==
  ASSUME TypeOK, NEW r \in Requests
  PROVE  /\ req[r] \in Request /\ req[r].host \in Hosts /\ req[r].ans \in SUBSET Answers
         /\ req[r].age \in 0..TTL /\ req[r].lag \in 0..MaxLag
         /\ req[r].pc \in {"idle", "test", "lookup", "put"}
         /\ \A f \in Queries :
              /\ query[r][f] \in Query /\ query[r][f].srv \in Servers
              /\ query[r][f].tries \in 0..Attempts
BY DEF TypeOK, Request, Query, Ages

\* A call as it is made.
LEMMA CallFields ==
  ASSUME NEW pc \in {"idle", "test", "lookup", "put"}, NEW h \in Hosts,
         NEW ans \in SUBSET Answers
  PROVE  /\ Call(pc, h, ans) \in Request
         /\ \A a \in Ages :
              /\ [Call(pc, h, ans) EXCEPT !.age = a] \in Request
              /\ [Call(pc, h, ans) EXCEPT !.age = a].pc = pc
              /\ [Call(pc, h, ans) EXCEPT !.age = a].host = h
              /\ [Call(pc, h, ans) EXCEPT !.age = a].ans = ans
              /\ [Call(pc, h, ans) EXCEPT !.age = a].age = a
         /\ \A n \in 0..MaxLag :
              /\ [Call(pc, h, ans) EXCEPT !.lag = n] \in Request
              /\ [Call(pc, h, ans) EXCEPT !.lag = n].pc = pc
              /\ [Call(pc, h, ans) EXCEPT !.lag = n].host = h
              /\ [Call(pc, h, ans) EXCEPT !.lag = n].ans = ans
              /\ [Call(pc, h, ans) EXCEPT !.lag = n].lag = n
BY Numbers DEF Call, Request

----------------------------------------------------------------------------
(* Types.                                                                  *)

\* A call that takes a step of its own.
LEMMA CallTyped ==
  ASSUME TypeOK, NEW r \in Requests, NEW c \in Request, SetCall(r, c)
  PROVE  /\ req' \in [Requests -> Request] /\ req'[r] = c
         /\ \A q \in Requests : q # r => req'[q] = req[q]
BY DEF TypeOK, SetCall

\* So does a query,
LEMMA QueryTyped ==
  ASSUME TypeOK, NEW r \in Requests, NEW f \in Queries, NEW q \in Query, SetQuery(r, f, q)
  PROVE  /\ query' \in [Requests -> [Queries -> Query]] /\ query'[r][f] = q
         /\ \A g \in Queries : g # f => query'[r][g] = query[r][g]
         /\ \A o \in Requests : o # r => query'[o] = query[o]
<1>1. query[r] \in [Queries -> Query]
  BY DEF TypeOK
<1> DEFINE new == [query[r] EXCEPT ![f] = q]
<1>2. new \in [Queries -> Query] /\ new[f] = q /\ \A g \in Queries : g # f => new[g] = query[r][g]
  BY <1>1
<1>3. query' = [query EXCEPT ![r] = new]
  BY DEF SetQuery
<1> HIDE DEF new
<1> QED
  BY <1>2, <1>3 DEF TypeOK

\* and so do both at once.
LEMMA AllQueriesTyped ==
  ASSUME TypeOK, NEW r \in Requests, NEW q \in Query,
         query' = [query EXCEPT ![r] = [f \in Queries |-> q]]
  PROVE  /\ query' \in [Requests -> [Queries -> Query]]
         /\ \A f \in Queries : query'[r][f] = q
         /\ \A o \in Requests : o # r => query'[o] = query[o]
<1>1. [f \in Queries |-> q] \in [Queries -> Query]
  OBVIOUS
<1> QED
  BY <1>1 DEF TypeOK

LEMMA OffTyped == Off \in Query /\ First \in Query /\ NoEntry \in Entry
BY Numbers DEF Off, First, Query, NoEntry, Entry

\* Others that look up are crowded.
LEMMA CrowdTyped ==
  ASSUME TypeOK, NEW r \in Requests, NEW also \in BOOLEAN, Crowd(r, also)
  PROVE  /\ crowded' \in [Requests -> BOOLEAN]
         /\ crowded'[r] <=> (crowded[r] \/ also)
         /\ \A o \in Requests : o # r => (crowded'[o] <=> (crowded[o] \/ req[o].pc = "lookup"))
<1>1. crowded \in [Requests -> BOOLEAN]
  BY DEF TypeOK
<1>2. crowded' = [q \in Requests |-> crowded[q] \/ IF q = r THEN also ELSE req[q].pc = "lookup"]
  BY DEF Crowd
<1>3. \A q \in Requests : (crowded[q] \/ IF q = r THEN also ELSE req[q].pc = "lookup") \in BOOLEAN
  BY <1>1
<1> QED
  BY <1>1, <1>2, <1>3

\* A lookup that ends leaves a call that is over, or that will cache its answer.
LEMMA ConcludeFacts ==
  ASSUME TypeOK, NEW r \in Requests, NEW ans \in SUBSET Answers, Conclude(r, ans)
  PROVE  /\ \E c \in Request :
              /\ SetCall(r, c)
              /\ c.pc \in {"idle", "put"}
              /\ c.pc = "put" =>
                   /\ c.host = req[r].host /\ c.ans = ans /\ c.lag = req[r].lag /\ ans # {}
         /\ query' = [query EXCEPT ![r] = [f \in Queries |-> Off]]
         /\ tried' = [tried EXCEPT ![r] = {}]
         /\ crowded' = [crowded EXCEPT ![r] = FALSE]
         /\ UNCHANGED <<cache, idx>>
<1>1. req[r].host \in Hosts /\ req[r].lag \in 0..MaxLag
  BY Fields
<1>2. CASE ans = {}
  <2>1. SetCall(r, Call("idle", req[r].host, {}))
    BY <1>2 DEF Conclude, Return
  <2>2. Call("idle", req[r].host, {}) \in Request
    BY <1>1, CallFields
  <2>3. Call("idle", req[r].host, {}).pc = "idle"
    BY DEF Call
  <2> QED
    BY <2>1, <2>2, <2>3 DEF Conclude
<1>3. CASE ans # {}
  <2> DEFINE c == [Call("put", req[r].host, ans) EXCEPT !.lag = req[r].lag]
  <2>1. SetCall(r, c)
    BY <1>3 DEF Conclude
  <2>2. /\ c \in Request /\ c.pc = "put" /\ c.host = req[r].host /\ c.ans = ans
        /\ c.lag = req[r].lag
    BY <1>1, CallFields
  <2> HIDE DEF c
  <2> QED
    BY <1>3, <2>1, <2>2 DEF Conclude
<1> QED
  BY <1>2, <1>3

LEMMA ConcludeTyped ==
  ASSUME TypeOK, NEW r \in Requests, NEW ans \in SUBSET Answers, Conclude(r, ans)
  PROVE  /\ req' \in [Requests -> Request] /\ query' \in [Requests -> [Queries -> Query]]
         /\ tried' \in [Requests -> SUBSET Servers] /\ crowded' \in [Requests -> BOOLEAN]
<1>1. PICK c \in Request : SetCall(r, c)
  BY ConcludeFacts
<1>2. /\ query' = [query EXCEPT ![r] = [f \in Queries |-> Off]]
      /\ tried' = [tried EXCEPT ![r] = {}] /\ crowded' = [crowded EXCEPT ![r] = FALSE]
  BY ConcludeFacts
<1> QED
  BY <1>1, <1>2, CallTyped, AllQueriesTyped, OffTyped DEF TypeOK

LEMMA LookUpTyped ==
  ASSUME TypeOK, NEW r \in Requests, NEW h \in Hosts, LookUp(r, h)
  PROVE  req' \in [Requests -> Request] /\ query' \in [Requests -> [Queries -> Query]]
<1>1. Call("lookup", h, {}) \in Request
  BY CallFields
<1>2. SetCall(r, Call("lookup", h, {})) /\ query' = [query EXCEPT ![r] = [f \in Queries |-> First]]
  BY DEF LookUp
<1> QED
  BY <1>1, <1>2, CallTyped, AllQueriesTyped, OffTyped

\* The steps of the cache keep the types,
LEMMA CacheTyped ==
  ASSUME TypeOK, NEW r \in Requests,
         (\E h \in Hosts : Get(r, h)) \/ ReturnHit(r) \/ Expire(r) \/ Add(r)
  PROVE  TypeOK'
<1>0. req[r].host \in Hosts /\ req[r].ans \in SUBSET Answers
  BY Fields
<1>1. ASSUME NEW h \in Hosts, Get(r, h) PROVE TypeOK'
  <2>1. CASE Cached(h) /\ SetCall(r, [Call("test", h, entry[h].ans) EXCEPT !.age = entry[h].age])
             /\ UNCHANGED dials
    <3>1. entry[h].ans \in SUBSET Answers /\ entry[h].age \in Ages
      BY DEF TypeOK, Entry
    <3>2. [Call("test", h, entry[h].ans) EXCEPT !.age = entry[h].age] \in Request
      BY <3>1, CallFields
    <3>3. req' \in [Requests -> Request]
      BY <2>1, <3>2, CallTyped
    <3> QED
      BY <1>1, <2>1, <3>3 DEF Get, TypeOK, world, cache, dials
  <2>2. CASE LookUp(r, h)
    BY <1>1, <2>2, LookUpTyped DEF Get, LookUp, TypeOK, world, cache
  <2> QED
    BY <1>1, <2>1, <2>2 DEF Get
<1>2. ASSUME ReturnHit(r) \/ Add(r) PROVE req' \in [Requests -> Request]
  <2>1. Call("idle", req[r].host, req[r].ans) \in Request
    BY <1>0, CallFields
  <2> QED
    BY <1>2, <2>1, CallTyped DEF ReturnHit, Add, Return
<1>3. CASE ReturnHit(r)
  BY <1>2, <1>3 DEF ReturnHit, TypeOK, world, cache, dials
<1>4. CASE Expire(r)
  <2>1. LookUp(r, req[r].host) /\ entry' = [entry EXCEPT ![req[r].host] = NoEntry]
    BY <1>4 DEF Expire
  <2> QED
    BY <1>0, <1>4, <2>1, LookUpTyped, OffTyped DEF Expire, LookUp, TypeOK, world
<1>5. CASE Add(r)
  <2>1. [ans |-> req[r].ans, age |-> 0] \in Entry
    BY <1>0, Numbers DEF Entry
  <2>2. entry' \in [Hosts -> Entry]
    BY <1>5, <2>1 DEF Add, TypeOK
  <2> QED
    BY <1>2, <1>5, <2>2 DEF Add, TypeOK, world, dials
<1> QED
  BY <1>1, <1>3, <1>4, <1>5

\* those of a lookup do,
LEMMA DialTyped ==
  ASSUME TypeOK, Dialled, NEW r \in Requests, NEW f \in Queries, Dial(r, f)
  PROVE  TypeOK'
<1> DEFINE q == query[r][f]
<1>0. /\ q \in Query /\ q.srv \in Servers /\ q.tries \in 0..Attempts
      /\ idx \in Servers /\ tried \in [Requests -> SUBSET Servers]
      /\ req[r] \in Request /\ req[r].host \in Hosts /\ req[r].ans \in SUBSET Answers
  BY Fields DEF TypeOK
<1>1. CASE Pick(r, f)
  <2> DEFINE also == \E o \in Requests, g \in Queries : Storing(o, g)
  <2>1. [pc |-> "store", srv |-> idx, tries |-> q.tries] \in Query
    BY <1>0 DEF Query
  <2>2. /\ SetQuery(r, f, [pc |-> "store", srv |-> idx, tries |-> q.tries])
        /\ tried' = [tried EXCEPT ![r] = tried[r] \cup {idx}]
        /\ Crowd(r, also)
    BY <1>1 DEF Pick
  <2>3. also \in BOOLEAN
    OBVIOUS
  <2> HIDE DEF also
  <2>4. crowded' \in [Requests -> BOOLEAN]
    BY <2>2, <2>3, CrowdTyped
  <2>5. tried' \in [Requests -> SUBSET Servers]
    BY <1>0, <2>2
  <2>6. query' \in [Requests -> [Queries -> Query]]
    BY <2>1, <2>2, QueryTyped
  <2> QED
    BY <1>1, <2>4, <2>5, <2>6 DEF Pick, TypeOK, world, cache
<1>2. CASE StoreIdx(r, f)
  <2>1. [pc |-> "wait", srv |-> q.srv, tries |-> q.tries] \in Query
    BY <1>0 DEF Query
  <2>2. query' \in [Requests -> [Queries -> Query]]
    BY <1>2, <2>1, QueryTyped DEF StoreIdx
  <2>3. PICK seen \in {q.srv, idx} : idx' = (seen + 1) % NumServers
    BY <1>2 DEF StoreIdx
  <2>4. idx' \in Servers
    BY <1>0, <2>3, NextServer
  <2>5. crowded' \in [Requests -> BOOLEAN]
    BY <1>2, CrowdTyped DEF StoreIdx
  <2> QED
    BY <1>2, <2>2, <2>4, <2>5 DEF StoreIdx, TypeOK, world, cache
<1>3. CASE Answer(r, f)
  <2> DEFINE new == IF f \in Families[req[r].host] THEN {zone[req[r].host]} \cap Answers ELSE {}
             h == req[r].host
             c == [req[r] EXCEPT !.ans = req[r].ans \cup new]
  <2>1. [pc |-> "done", srv |-> 0, tries |-> q.tries] \in Query
    BY <1>0, Numbers DEF Query
  <2>2. query' \in [Requests -> [Queries -> Query]]
    BY <1>3, <2>1, QueryTyped DEF Answer
  <2>3. new \in SUBSET Answers
    OBVIOUS
  <2>4. SetCall(r, c) /\ said' = [said EXCEPT ![h] = [a \in Answers |-> IF a \in new THEN 0 ELSE said[h][a]]]
    BY <1>3 DEF Answer
  <2> HIDE DEF new
  <2>5. c \in Request
    BY <1>0, <2>3 DEF Request
  <2> HIDE DEF c
  <2>6. req' \in [Requests -> Request]
    BY <2>4, <2>5, CallTyped
  <2>7. said' \in [Hosts -> [Answers -> 0..Never]]
    <3>1. said[h] \in [Answers -> 0..Never]
      BY <1>0 DEF TypeOK
    <3>2. [a \in Answers |-> IF a \in new THEN 0 ELSE said[h][a]] \in [Answers -> 0..Never]
      BY <3>1, Numbers
    <3> QED
      BY <2>4, <3>2 DEF TypeOK
  <2> QED
    BY <1>3, <2>2, <2>6, <2>7 DEF Answer, TypeOK, world
<1>4. CASE Retry(r, f)
  <2> DEFINE new == [pc |-> IF q.tries + 1 < Attempts THEN "pick" ELSE "failed",
                     srv |-> 0, tries |-> q.tries + 1]
  <2>1. SetQuery(r, f, new) /\ events' \in Nat
    BY <1>4 DEF Retry, TypeOK
  <2>2. q.tries < Attempts
    BY <1>4 DEF Retry, Dialled, Counted
  <2>3. q.tries + 1 \in 0..Attempts
    BY <1>0, <2>2, Numbers
  <2>4. new \in Query
    BY <2>3, Numbers DEF Query
  <2> HIDE DEF new
  <2>5. query' \in [Requests -> [Queries -> Query]]
    BY <2>1, <2>4, QueryTyped
  <2> QED
    BY <1>4, <2>1, <2>5 DEF Retry, TypeOK, cache
<1> QED
  BY <1>1, <1>2, <1>3, <1>4 DEF Dial

\* and so do the ends of a lookup and the world.
LEMMA EndTyped ==
  ASSUME TypeOK, NEW r \in Requests, Gather(r) \/ Cancel(r)
  PROVE  TypeOK'
<1>1. PICK ans \in {{}, req[r].ans} : Conclude(r, ans)
  BY DEF Gather, Cancel
<1>2. ans \in SUBSET Answers
  BY Fields
<1>3. /\ req' \in [Requests -> Request] /\ query' \in [Requests -> [Queries -> Query]]
      /\ tried' \in [Requests -> SUBSET Servers] /\ crowded' \in [Requests -> BOOLEAN]
  BY <1>1, <1>2, ConcludeTyped
<1>4. UNCHANGED <<zone, up, cache, idx>> /\ events' \in Nat
  BY <1>1 DEF Conclude, Gather, Cancel, world, TypeOK
<1> QED
  BY <1>3, <1>4 DEF TypeOK, cache

\* An age grows by one, up to where it does not matter any more.
LEMMA OlderFacts ==
  /\ \A g \in 0..TTL : Older(g, TTL) \in 0..TTL /\ (Older(g, TTL) < TTL => Older(g, TTL) = g + 1)
  /\ \A g \in 0..Never : Older(g, Never) \in 0..Never /\ Older(g, Never) <= g + 1
BY Numbers DEF Older

LEMMA WorldTyped ==
  ASSUME TypeOK, Tick \/ Change \/ \E h \in Hosts : Evict(h)
  PROVE  TypeOK'
<1>1. CASE Tick
  <2>1. entry' \in [Hosts -> Entry]
    <3>1. ASSUME NEW h \in Hosts
          PROVE  [entry[h] EXCEPT !.age = Older(entry[h].age, TTL)] \in Entry
      BY OlderFacts DEF TypeOK, Entry, Ages
    <3> QED
      BY <1>1, <3>1 DEF Tick
  <2>2. said' \in [Hosts -> [Answers -> 0..Never]]
    <3>1. ASSUME NEW h \in Hosts
          PROVE  [a \in Answers |-> Older(said[h][a], Never)] \in [Answers -> 0..Never]
      BY OlderFacts DEF TypeOK
    <3> QED
      BY <1>1, <3>1 DEF Tick
  <2>3. req' \in [Requests -> Request]
    <3>1. ASSUME NEW r \in Requests, req[r].pc = "test"
          PROVE  [req[r] EXCEPT !.age = Older(req[r].age, TTL)] \in Request
      BY Fields, OlderFacts DEF Request, Ages
    <3>2. ASSUME NEW r \in Requests, Waits(r)
          PROVE  [req[r] EXCEPT !.lag = req[r].lag + 1] \in Request
      <4>1. req[r].lag + 1 \in 0..MaxLag
        BY <1>1, <3>2, Fields, Numbers DEF Tick
      <4> QED
        BY <4>1, Fields DEF Request
    <3>3. req' = [r \in Requests |->
            IF req[r].pc = "test" THEN [req[r] EXCEPT !.age = Older(req[r].age, TTL)]
            ELSE IF Waits(r) THEN [req[r] EXCEPT !.lag = req[r].lag + 1]
            ELSE req[r]]
      BY <1>1 DEF Tick
    <3>4. \A r \in Requests : req'[r] \in Request
      BY <3>1, <3>2, <3>3, Fields
    <3> QED
      BY <3>3, <3>4
  <2> QED
    BY <1>1, <2>1, <2>2, <2>3 DEF Tick, TypeOK, world, dials
<1>2. CASE Change
  <2>1. zone' \in [Hosts -> Answers \cup {NoAnswer}] /\ events' \in Nat
    BY <1>2 DEF Change, TypeOK
  <2> QED
    BY <1>2, <2>1 DEF Change, TypeOK, cache, dials
<1>3. CASE \E h \in Hosts : Evict(h)
  <2>1. entry' \in [Hosts -> Entry]
    BY <1>3, OffTyped DEF Evict, TypeOK
  <2> QED
    BY <1>3, <2>1 DEF Evict, TypeOK, world, dials
<1> QED
  BY <1>1, <1>2, <1>3

----------------------------------------------------------------------------
(* What is carried.                                                        *)

\* A step of one request that says nothing new.
LEMMA CallCarries ==
  ASSUME TypeOK, Carried, NEW r \in Requests, NEW c \in Request, SetCall(r, c),
         UNCHANGED said, \A h \in Hosts : WereSaid(h, entry'[h]),
         c.pc = "test" => WereSaid(c.host, c),
         c.pc \in {"lookup", "put"} => \A a \in c.ans : said[c.host][a] <= c.lag,
         c.pc = "put" => c.ans # {}
  PROVE  Carried'
<1>1. req'[r] = c /\ \A q \in Requests : q # r => req'[q] = req[q]
  BY CallTyped
<1>2. \A q \in Requests : req'[q].pc = "test" => WereSaid(req'[q].host, req'[q])
  BY <1>1 DEF Carried
<1>3. ASSUME NEW q \in Requests PROVE Held(q)'
  BY <1>1 DEF Carried, Held
<1> QED
  BY <1>2, <1>3 DEF Carried, WereSaid

LEMMA CacheCarries ==
  ASSUME TypeOK, Carried, NEW r \in Requests,
         (\E h \in Hosts : Get(r, h)) \/ ReturnHit(r) \/ Expire(r) \/ Add(r)
  PROVE  Carried'
<1>0. /\ req[r].host \in Hosts /\ req[r].ans \in SUBSET Answers /\ req[r].lag \in 0..MaxLag
      /\ \A h \in Hosts : WereSaid(h, entry[h])
  BY Fields DEF Carried
<1>1. ASSUME NEW h \in Hosts PROVE WereSaid(h, NoEntry)
  BY Numbers DEF WereSaid, NoEntry
<1>2. ASSUME NEW h \in Hosts, LookUp(r, h), UNCHANGED said,
             \A g \in Hosts : WereSaid(g, entry'[g])
      PROVE  Carried'
  <2>1. Call("lookup", h, {}) \in Request
    BY CallFields
  <2>2. Call("lookup", h, {}).pc = "lookup" /\ Call("lookup", h, {}).ans = {}
    BY DEF Call
  <2>3. SetCall(r, Call("lookup", h, {}))
    BY <1>2 DEF LookUp
  <2> QED
    BY <1>2, <2>1, <2>2, <2>3, CallCarries
<1>3. ASSUME NEW ans \in SUBSET Answers, Return(r, ans), UNCHANGED said,
             \A g \in Hosts : WereSaid(g, entry'[g])
      PROVE  Carried'
  <2>1. Call("idle", req[r].host, ans) \in Request
    BY <1>0, CallFields
  <2>2. Call("idle", req[r].host, ans).pc = "idle"
    BY DEF Call
  <2> QED
    BY <1>3, <2>1, <2>2, CallCarries DEF Return
<1>4. ASSUME NEW h \in Hosts, Get(r, h) PROVE Carried'
  <2> DEFINE c == [Call("test", h, entry[h].ans) EXCEPT !.age = entry[h].age]
  <2>1. UNCHANGED <<entry, said>>
    BY <1>4 DEF Get, cache
  <2>2. CASE SetCall(r, c)
    <3>1. entry[h].ans \in SUBSET Answers /\ entry[h].age \in Ages
      BY DEF TypeOK, Entry
    <3>2. /\ c \in Request /\ c.pc = "test" /\ c.host = h
          /\ c.ans = entry[h].ans /\ c.age = entry[h].age
      BY <3>1, CallFields
    <3> HIDE DEF c
    <3>3. WereSaid(h, c)
      BY <1>0, <3>2 DEF WereSaid
    <3> QED
      BY <1>0, <2>1, <2>2, <3>2, <3>3, CallCarries
  <2>3. CASE LookUp(r, h)
    BY <1>0, <1>2, <2>1, <2>3
  <2> QED
    BY <1>4, <2>2, <2>3 DEF Get
<1>5. CASE ReturnHit(r)
  BY <1>0, <1>3, <1>5 DEF ReturnHit, cache
<1>6. CASE Expire(r)
  <2>1. \A g \in Hosts : entry'[g] \in {entry[g], NoEntry}
    BY <1>6 DEF Expire, TypeOK
  <2>2. \A g \in Hosts : WereSaid(g, entry'[g])
    BY <1>0, <1>1, <2>1
  <2> QED
    BY <1>0, <1>2, <1>6, <2>2 DEF Expire
<1>7. CASE Add(r)
  <2> DEFINE h == req[r].host
             e == [ans |-> req[r].ans, age |-> 0]
  <2>1. /\ entry' = [entry EXCEPT ![h] = e] /\ Return(r, req[r].ans) /\ UNCHANGED said
        /\ req[r].ans # {} /\ \A a \in req[r].ans : said[h][a] <= req[r].lag
    BY <1>7 DEF Add, Carried, Held
  <2>2. \A a \in req[r].ans : said[h][a] \in 0..Never
    BY <1>0 DEF TypeOK
  <2>3. WereSaid(h, e)
    BY <1>0, <2>1, <2>2, Numbers DEF WereSaid
  <2>4. \A g \in Hosts : entry'[g] = IF g = h THEN e ELSE entry[g]
    BY <2>1 DEF TypeOK
  <2> HIDE DEF e
  <2>5. \A g \in Hosts : WereSaid(g, entry'[g])
    BY <1>0, <2>3, <2>4
  <2> QED
    BY <1>0, <1>3, <2>1, <2>5
<1> QED
  BY <1>4, <1>5, <1>6, <1>7

\* A step that touches no call, no entry and no answer.
LEMMA PlainCarries ==
  ASSUME Carried, UNCHANGED <<req, entry, said>>
  PROVE  Carried'
BY DEF Carried, Held, WereSaid

\* Only a lookup has queries.
LEMMA Looks ==
  ASSUME Dialled, NEW r \in Requests, NEW f \in Queries, query[r][f].pc # "off"
  PROVE  req[r].pc = "lookup"
BY DEF Dialled, Off

\* Answers that are said again are younger than they were; a call that takes one
\* over has it from the very moment.
LEMMA AnswerCarries ==
  ASSUME TypeOK, Carried, Dialled, NEW r \in Requests, NEW f \in Queries, Answer(r, f)
  PROVE  Carried'
<1> DEFINE h == req[r].host
           new == IF f \in Families[h] THEN {zone[h]} \cap Answers ELSE {}
           c == [req[r] EXCEPT !.ans = req[r].ans \cup new]
<1>0. /\ req[r] \in Request /\ req[r].host \in Hosts /\ req[r].ans \in SUBSET Answers
      /\ req[r].lag \in 0..MaxLag /\ Never \in Nat
  BY Fields, Numbers
<1>1. /\ SetCall(r, c) /\ entry' = entry
      /\ said' = [said EXCEPT ![h] = [a \in Answers |-> IF a \in new THEN 0 ELSE said[h][a]]]
  BY DEF Answer
<1>2. new \in SUBSET Answers
  OBVIOUS
<1> HIDE DEF new
<1>3. /\ c \in Request /\ c.pc = req[r].pc /\ c.host = h /\ c.lag = req[r].lag
      /\ c.age = req[r].age /\ c.ans = req[r].ans \cup new
  BY <1>0, <1>2 DEF Request
<1> HIDE DEF c
<1>4. req'[r] = c /\ \A q \in Requests : q # r => req'[q] = req[q]
  BY <1>1, <1>3, CallTyped
<1>5. \A g \in Hosts, a \in Answers :
        /\ said[g][a] \in 0..Never /\ said'[g][a] \in 0..Never
        /\ said'[g][a] = said[g][a] \/ said'[g][a] = 0
        /\ g = h /\ a \in new => said'[g][a] = 0
  BY <1>0, <1>1, <1>2 DEF TypeOK
<1> HIDE DEF h
<1>6. ASSUME NEW g \in Hosts PROVE WereSaid(g, entry[g])'
  <2>1. entry[g].age \in 0..TTL /\ entry[g].ans \in SUBSET Answers /\ WereSaid(g, entry[g])
    BY DEF TypeOK, Entry, Ages, Carried
  <2> QED
    BY <1>1, <1>5, <2>1, Numbers DEF WereSaid
<1>7. ASSUME NEW q \in Requests, req'[q].pc = "test" PROVE WereSaid(req[q].host, req[q])'
  <2>1. q # r
    BY <1>3, <1>4, <1>7, Looks DEF Answer
  <2> QED
    BY <1>4, <1>5, <1>7, <2>1, Fields, Numbers DEF Carried, WereSaid
<1>8. ASSUME NEW q \in Requests PROVE Held(q)'
  <2>1. CASE q = r
    BY <1>0, <1>2, <1>3, <1>4, <1>5, <2>1, Numbers DEF Carried, Held, h
  <2>2. CASE q # r
    BY <1>4, <1>5, <2>2, Fields, Numbers DEF Carried, Held
  <2> QED
    BY <2>1, <2>2
<1> QED
  BY <1>6, <1>7, <1>8 DEF Carried

\* The addresses of a lookup that ends are the call's, or none.
LEMMA EndCarries ==
  ASSUME TypeOK, Carried, Dialled, NEW r \in Requests, Gather(r) \/ Cancel(r)
  PROVE  Carried'
<1>1. PICK ans \in {{}, req[r].ans} : Conclude(r, ans)
  BY DEF Gather, Cancel
<1>2. ans \in SUBSET Answers /\ req[r].pc = "lookup"
  BY Fields DEF Gather, Cancel
<1>3. PICK c \in Request :
        /\ SetCall(r, c)
        /\ c.pc \in {"idle", "put"}
        /\ c.pc = "put" =>
             /\ c.host = req[r].host /\ c.ans = ans /\ c.lag = req[r].lag /\ ans # {}
  BY <1>1, <1>2, ConcludeFacts
<1>4. UNCHANGED <<entry, said>>
  BY <1>1 DEF Conclude, cache
<1>5. \A h \in Hosts : WereSaid(h, entry'[h])
  BY <1>4 DEF Carried
<1>6. \A a \in req[r].ans : said[req[r].host][a] <= req[r].lag
  BY <1>2 DEF Carried, Held
<1>7. c.pc = "put" => c.ans = req[r].ans /\ c.ans # {}
  BY <1>1, <1>3
<1> QED
  BY <1>3, <1>4, <1>5, <1>6, <1>7, CallCarries

\* Every age grows by one, or is past where it matters.
LEMMA TickCarries ==
  ASSUME TypeOK, Carried, Tick
  PROVE  Carried'
<1> USE Numbers
<1>1. \A h \in Hosts, a \in Answers :
        /\ said[h][a] \in 0..Never /\ said'[h][a] \in 0..Never
        /\ said'[h][a] <= said[h][a] + 1
  <2>1. \A h \in Hosts, a \in Answers :
          said[h][a] \in 0..Never /\ said'[h][a] = Older(said[h][a], Never)
    BY DEF Tick, TypeOK
  <2> QED
    BY <2>1, OlderFacts
<1>2. ASSUME NEW h \in Hosts PROVE WereSaid(h, entry[h])'
  <2>1. entry[h].age \in 0..TTL /\ entry[h].ans \in SUBSET Answers /\ WereSaid(h, entry[h])
    BY DEF TypeOK, Entry, Ages, Carried
  <2>2. entry'[h].ans = entry[h].ans /\ entry'[h].age = Older(entry[h].age, TTL)
    BY DEF TypeOK, Entry, Tick
  <2> QED
    BY <1>1, <2>1, <2>2, OlderFacts DEF WereSaid
<1>3. req' = [r \in Requests |->
        IF req[r].pc = "test" THEN [req[r] EXCEPT !.age = Older(req[r].age, TTL)]
        ELSE IF Waits(r) THEN [req[r] EXCEPT !.lag = req[r].lag + 1]
        ELSE req[r]]
  BY DEF Tick
<1>4. ASSUME NEW r \in Requests
      PROVE  /\ req'[r].pc = req[r].pc /\ req'[r].host = req[r].host /\ req'[r].ans = req[r].ans
             /\ req[r].pc = "test" => req'[r].age = Older(req[r].age, TTL)
             /\ Waits(r) => req'[r].lag = req[r].lag + 1
  <2>1. req[r] \in Request
    BY Fields
  <2>2. CASE req[r].pc = "test"
    <3>1. req'[r] = [req[r] EXCEPT !.age = Older(req[r].age, TTL)] /\ ~ Waits(r)
      BY <1>3, <2>2 DEF Waits
    <3> QED
      BY <2>1, <3>1 DEF Request
  <2>3. CASE Waits(r)
    <3>1. req'[r] = [req[r] EXCEPT !.lag = req[r].lag + 1] /\ req[r].pc # "test"
      BY <1>3, <2>3 DEF Waits
    <3> QED
      BY <2>1, <3>1 DEF Request
  <2>4. CASE req[r].pc # "test" /\ ~ Waits(r)
    BY <1>3, <2>4
  <2> QED
    BY <2>2, <2>3, <2>4
<1>5. ASSUME NEW r \in Requests, req'[r].pc = "test" PROVE WereSaid(req[r].host, req[r])'
  <2>1. WereSaid(req[r].host, req[r]) /\ req'[r].age = Older(req[r].age, TTL)
    BY <1>4, <1>5 DEF Carried
  <2> QED
    BY <1>1, <1>4, <2>1, Fields, OlderFacts DEF WereSaid
<1>6. ASSUME NEW r \in Requests PROVE Held(r)'
  <2>1. Held(r)
    BY DEF Carried
  <2>2. CASE Waits(r)
    <3>1. /\ req[r].host \in Hosts /\ req[r].lag \in Nat /\ req'[r].lag = req[r].lag + 1
          /\ req[r].ans \in SUBSET Answers
      BY <1>4, <2>2, Fields
    <3>2. \A a \in req[r].ans : said[req[r].host][a] <= req[r].lag
      BY <2>1, <2>2 DEF Held, Waits
    <3>3. \A a \in req'[r].ans : said'[req'[r].host][a] <= req'[r].lag
      BY <1>1, <1>4, <3>1, <3>2
    <3> QED
      BY <1>4, <2>1, <3>3 DEF Held
  <2>3. CASE ~ Waits(r)
    BY <1>4, <2>1, <2>3 DEF Held, Waits
  <2> QED
    BY <2>2, <2>3
<1> QED
  BY <1>2, <1>5, <1>6 DEF Carried

LEMMA EvictCarries ==
  ASSUME TypeOK, Carried, NEW h \in Hosts, Evict(h)
  PROVE  Carried'
<1>1. \A g \in Hosts : entry'[g] \in {entry[g], NoEntry}
  BY DEF Evict, TypeOK
<1>2. UNCHANGED <<req, said>>
  BY DEF Evict
<1>3. ASSUME NEW g \in Hosts PROVE WereSaid(g, entry[g])'
  BY <1>1, <1>2, Numbers DEF Carried, WereSaid, NoEntry
<1> QED
  BY <1>2, <1>3 DEF Carried, Held, WereSaid

----------------------------------------------------------------------------
(* What has been dialled.                                                  *)

\* A query that has not dialled yet.
LEMMA NoneMade ==
  ASSUME NEW q \in {Off, First}
  PROVE  Made(q) = 0 /\ q.pc # "store" /\ Counted(q)
BY Numbers DEF Off, First, Made, Counted

\* A lookup that has not dialled covers nothing.
LEMMA FreshCovers ==
  ASSUME NEW r \in Requests, idx' \in Servers, \A f \in Queries : query'[r][f] \in {Off, First}
  PROVE  Covers(r)' /\ \A f \in Queries : Counted(query'[r][f])
<1>1. Made(query'[r]["v4"]) = 0 /\ Made(query'[r]["v6"]) = 0
  BY NoneMade DEF Queries
<1>2. \A f \in Queries : query'[r][f].pc # "store" /\ Counted(query'[r][f])
  BY NoneMade
<1>3. \A x \in Servers : Gap(x, idx') \in 1..NumServers
  BY GapBounded
<1> QED
  BY <1>1, <1>2, <1>3, Numbers DEF Covers, Storing, Queries

\* A step of one request, after which others cover what they did, are crowded, or
\* do not look up.
LEMMA OneDials ==
  ASSUME TypeOK, Dialled, NEW r \in Requests, idx' \in Servers,
         \A o \in Requests : o # r =>
           /\ query'[o] = query[o] /\ tried'[o] = tried[o] /\ req'[o].pc = req[o].pc
           /\ crowded[o] => crowded'[o]
           /\ idx' = idx \/ crowded'[o] \/ req[o].pc # "lookup",
         req'[r].pc # "lookup" => \A f \in Queries : query'[r][f] = Off,
         \A f \in Queries : Counted(query'[r][f]),
         Covers(r)'
  PROVE  Dialled'
<1>1. ASSUME NEW o \in Requests, o # r PROVE Covers(o)'
  <2>1. CASE req[o].pc # "lookup"
    <3>1. \A f \in Queries : query'[o][f] \in {Off, First}
      BY <1>1, <2>1 DEF Dialled
    <3> QED
      BY <3>1, FreshCovers
  <2>2. CASE crowded'[o]
    BY <2>2 DEF Covers
  <2>3. CASE idx' = idx
    BY <1>1, <2>3 DEF Dialled, Covers, Storing
  <2> QED
    BY <1>1, <2>1, <2>2, <2>3
<1> QED
  BY <1>1 DEF Dialled

\* A call that is not in its lookup, before the step or after.
LEMMA CacheDials ==
  ASSUME TypeOK, Dialled, NEW r \in Requests,
         (\E h \in Hosts : Get(r, h)) \/ ReturnHit(r) \/ Expire(r) \/ Add(r)
  PROVE  Dialled'
<1>0. idx \in Servers /\ req[r].pc # "lookup"
  BY DEF TypeOK, Get, ReturnHit, Expire, Add
<1>1. ASSUME NEW c \in Request, SetCall(r, c), UNCHANGED dials PROVE Dialled'
  <2>1. req'[r] = c /\ \A o \in Requests : o # r => req'[o] = req[o]
    BY <1>1, CallTyped
  <2>2. \A f \in Queries : query'[r][f] = Off
    BY <1>0, <1>1 DEF Dialled, dials
  <2>3. Covers(r)' /\ \A f \in Queries : Counted(query'[r][f])
    BY <1>0, <1>1, <2>2, FreshCovers DEF dials
  <2> QED
    BY <1>0, <1>1, <2>1, <2>2, <2>3, OneDials DEF dials
<1>2. ASSUME NEW h \in Hosts, LookUp(r, h) PROVE Dialled'
  <2>1. Call("lookup", h, {}) \in Request /\ Call("lookup", h, {}).pc = "lookup"
    BY CallFields DEF Call
  <2>2. SetCall(r, Call("lookup", h, {})) /\ UNCHANGED <<idx, tried, crowded>>
    BY <1>2 DEF LookUp
  <2>3. req'[r].pc = "lookup" /\ \A o \in Requests : o # r => req'[o] = req[o]
    BY <2>1, <2>2, CallTyped
  <2>4. /\ \A f \in Queries : query'[r][f] = First
        /\ \A o \in Requests : o # r => query'[o] = query[o]
    BY <1>2, OffTyped, AllQueriesTyped DEF LookUp
  <2>5. Covers(r)' /\ \A f \in Queries : Counted(query'[r][f])
    BY <1>0, <2>2, <2>4, FreshCovers
  <2> QED
    BY <1>0, <2>2, <2>3, <2>4, <2>5, OneDials
<1>3. ASSUME NEW h \in Hosts, Get(r, h) PROVE Dialled'
  <2>1. entry[h].ans \in SUBSET Answers /\ entry[h].age \in Ages
    BY DEF TypeOK, Entry
  <2>2. [Call("test", h, entry[h].ans) EXCEPT !.age = entry[h].age] \in Request
    BY <2>1, CallFields
  <2> QED
    BY <1>1, <1>2, <1>3, <2>2 DEF Get
<1>4. Call("idle", req[r].host, req[r].ans) \in Request
  BY Fields, CallFields
<1>5. CASE ReturnHit(r) \/ Add(r)
  BY <1>1, <1>4, <1>5 DEF ReturnHit, Add, Return
<1>6. CASE Expire(r)
  BY <1>2, <1>6, Fields DEF Expire
<1> QED
  BY <1>3, <1>5, <1>6

\* A lookup that ends has no queries.
LEMMA EndDials ==
  ASSUME TypeOK, Dialled, NEW r \in Requests, Gather(r) \/ Cancel(r)
  PROVE  Dialled'
<1>1. PICK ans \in {{}, req[r].ans} : Conclude(r, ans)
  BY DEF Gather, Cancel
<1>2. ans \in SUBSET Answers /\ idx \in Servers
  BY Fields DEF TypeOK
<1>3. /\ \E c \in Request : SetCall(r, c)
      /\ query' = [query EXCEPT ![r] = [f \in Queries |-> Off]]
      /\ tried' = [tried EXCEPT ![r] = {}]
      /\ crowded' = [crowded EXCEPT ![r] = FALSE]
      /\ UNCHANGED idx
  BY <1>1, <1>2, ConcludeFacts
<1>4. \A o \in Requests : o # r => req'[o] = req[o]
  BY <1>3, CallTyped
<1>5. /\ \A f \in Queries : query'[r][f] = Off
      /\ \A o \in Requests : o # r => query'[o] = query[o]
  BY <1>3, OffTyped, AllQueriesTyped
<1>6. \A o \in Requests : o # r => tried'[o] = tried[o] /\ crowded'[o] = crowded[o]
  BY <1>3 DEF TypeOK
<1>7. Covers(r)' /\ \A f \in Queries : Counted(query'[r][f])
  BY <1>2, <1>3, <1>5, FreshCovers
<1> QED
  BY <1>2, <1>3, <1>4, <1>5, <1>6, <1>7, OneDials

\* A dial leaves its call looking up, and others' calls where they are.
LEMMA StillLooks ==
  ASSUME TypeOK, Dialled, NEW r \in Requests, NEW f \in Queries, Dial(r, f)
  PROVE  /\ req[r].pc = "lookup"
         /\ \A o \in Requests : req'[o].pc = req[o].pc
<1>1. req[r].pc = "lookup"
  BY Looks DEF Dial, Pick, StoreIdx, Answer, Retry
<1>2. CASE UNCHANGED req
  BY <1>1, <1>2
<1>3. CASE Answer(r, f)
  <2>1. req[r] \in Request
    BY Fields
  <2>2. \A o \in Requests : req'[o].pc = req[o].pc
    BY <1>3, <2>1 DEF Answer, SetCall, TypeOK, Request
  <2> QED
    BY <1>1, <2>2
<1> QED
  BY <1>2, <1>3 DEF Dial, Pick, StoreIdx, Retry

\* What a query has made, a number.
LEMMA MadeNat ==
  ASSUME TypeOK, NEW r \in Requests, NEW f \in Queries
  PROVE  Made(query[r][f]) \in Nat
BY Fields DEF Made

\* A query's step that does not move the index, nor dial.
LEMMA SameMade ==
  ASSUME TypeOK, Dialled, NEW r \in Requests, NEW f \in Queries, NEW q \in Query, SetQuery(r, f, q),
         UNCHANGED <<idx, tried, crowded>>, req[r].pc = "lookup",
         \A o \in Requests : req'[o].pc = req[o].pc,
         Made(q) = Made(query[r][f]), q.pc # "store", Counted(q)
  PROVE  Dialled'
<1>1. /\ query'[r][f] = q /\ \A g \in Queries : g # f => query'[r][g] = query[r][g]
      /\ \A o \in Requests : o # r => query'[o] = query[o]
  BY QueryTyped
<1>2. \A g \in Queries : Made(query'[r][g]) = Made(query[r][g])
  BY <1>1
<1>3. \A g \in Queries : Counted(query'[r][g])
  BY <1>1 DEF Dialled
<1>4. \A g \in Queries : query'[r][g].pc = "store" => Storing(r, g) /\ query'[r][g] = query[r][g]
  BY <1>1 DEF Storing
<1>5. Covers(r)'
  BY <1>2, <1>4 DEF Dialled, Covers, Storing, Queries
<1>6. idx' \in Servers
  BY DEF TypeOK
<1> QED
  BY <1>1, <1>3, <1>5, <1>6, OneDials

LEMMA AnswerDials ==
  ASSUME TypeOK, Dialled, NEW r \in Requests, NEW f \in Queries, Answer(r, f)
  PROVE  Dialled'
<1> DEFINE q == [pc |-> "done", srv |-> 0, tries |-> query[r][f].tries]
<1>1. /\ query[r][f].tries \in 0..Attempts /\ query[r][f].pc = "wait"
      /\ SetQuery(r, f, q) /\ UNCHANGED <<idx, tried, crowded>>
  BY Fields DEF Answer
<1>2. query[r][f].tries < Attempts
  BY <1>1 DEF Dialled, Counted
<1>3. q \in Query /\ Made(q) = Made(query[r][f]) /\ Counted(q) /\ q.pc = "done"
  BY <1>1, <1>2, Numbers DEF Query, Made, Counted
<1>4. req[r].pc = "lookup" /\ \A o \in Requests : req'[o].pc = req[o].pc
  BY StillLooks DEF Dial
<1> HIDE DEF q
<1> QED
  BY <1>1, <1>3, <1>4, SameMade

LEMMA RetryDials ==
  ASSUME TypeOK, Dialled, NEW r \in Requests, NEW f \in Queries, Retry(r, f)
  PROVE  Dialled'
<1> DEFINE t == query[r][f].tries
           q == [pc |-> IF t + 1 < Attempts THEN "pick" ELSE "failed", srv |-> 0, tries |-> t + 1]
<1>1. /\ t \in 0..Attempts /\ query[r][f].pc = "wait"
      /\ SetQuery(r, f, q) /\ UNCHANGED <<idx, tried, crowded>>
  BY Fields DEF Retry
<1>2. t < Attempts
  BY <1>1 DEF Dialled, Counted
<1>3. q \in Query /\ Made(q) = Made(query[r][f]) /\ Counted(q) /\ q.pc \in {"pick", "failed"}
  BY <1>1, <1>2, Numbers DEF Query, Made, Counted
<1>4. req[r].pc = "lookup" /\ \A o \in Requests : req'[o].pc = req[o].pc
  BY StillLooks DEF Dial
<1> HIDE DEF q
<1> QED
  BY <1>1, <1>3, <1>4, SameMade

LEMMA PickDials ==
  ASSUME TypeOK, Dialled, NEW r \in Requests, NEW f \in Queries, Pick(r, f)
  PROVE  Dialled'
<1> DEFINE also == \E o \in Requests, g \in Queries : Storing(o, g)
           q == [pc |-> "store", srv |-> idx, tries |-> query[r][f].tries]
<1>1. /\ query[r][f].tries \in 0..Attempts /\ query[r][f].pc = "pick" /\ idx \in Servers
      /\ SetQuery(r, f, q) /\ tried' = [tried EXCEPT ![r] = tried[r] \cup {idx}]
      /\ Crowd(r, also) /\ UNCHANGED <<req, idx>>
  BY Fields DEF Pick, TypeOK
<1>2. query[r][f].tries < Attempts
  BY <1>1 DEF Dialled, Counted
<1>3. /\ q \in Query /\ Made(q) = Made(query[r][f]) /\ Counted(q)
      /\ q.pc = "store" /\ q.srv = idx
  BY <1>1, <1>2, Numbers DEF Query, Made, Counted
<1> HIDE DEF q
<1>4. /\ query'[r][f] = q /\ \A g \in Queries : g # f => query'[r][g] = query[r][g]
      /\ \A o \in Requests : o # r => query'[o] = query[o]
  BY <1>1, <1>3, QueryTyped
<1>5. also \in BOOLEAN
  OBVIOUS
<1>6. /\ crowded'[r] <=> (crowded[r] \/ also)
      /\ \A o \in Requests : o # r => (crowded[o] => crowded'[o])
  <2> HIDE DEF also
  <2> QED
    BY <1>1, <1>5, CrowdTyped
<1>7. tried'[r] = tried[r] \cup {idx} /\ \A o \in Requests : o # r => tried'[o] = tried[o]
  BY <1>1 DEF TypeOK
<1>8. \A g \in Queries : Made(query'[r][g]) = Made(query[r][g]) /\ Counted(query'[r][g])
  BY <1>3, <1>4 DEF Dialled
<1>9. ASSUME ~ crowded'[r]
      PROVE  ~ crowded[r] /\ \A g \in Queries : query'[r][g].pc = "store" => g = f
  BY <1>4, <1>6, <1>9 DEF Storing
<1>10. Covers(r)'
  BY <1>1, <1>3, <1>4, <1>7, <1>8, <1>9 DEF Dialled, Covers, Storing, Queries
<1>11. req[r].pc = "lookup"
  BY <1>1, Looks
<1> QED
  BY <1>1, <1>4, <1>6, <1>7, <1>8, <1>10, <1>11, OneDials

\* The index moves past the one server that the lookup has just dialled.
LEMMA StoreDials ==
  ASSUME TypeOK, Dialled, NEW r \in Requests, NEW f \in Queries, StoreIdx(r, f)
  PROVE  Dialled'
<1> DEFINE q == [pc |-> "wait", srv |-> query[r][f].srv, tries |-> query[r][f].tries]
<1>1. PICK seen \in {query[r][f].srv, idx} : idx' = (seen + 1) % NumServers
  BY DEF StoreIdx
<1>2. /\ query[r][f].tries \in 0..Attempts /\ query[r][f].srv \in Servers /\ idx \in Servers
      /\ query[r][f].pc = "store" /\ SetQuery(r, f, q) /\ Crowd(r, FALSE) /\ UNCHANGED <<req, tried>>
  BY Fields DEF StoreIdx, TypeOK
<1>3. idx' \in Servers
  BY <1>1, <1>2, NextServer
<1>4. query[r][f].tries < Attempts
  BY <1>2 DEF Dialled, Counted
<1>5. /\ q \in Query /\ Made(q) = Made(query[r][f]) + 1 /\ Counted(q) /\ q.pc = "wait"
  BY <1>2, <1>4, Numbers DEF Query, Made, Counted
<1> HIDE DEF q
<1>6. /\ query'[r][f] = q /\ \A g \in Queries : g # f => query'[r][g] = query[r][g]
      /\ \A o \in Requests : o # r => query'[o] = query[o]
  BY <1>2, <1>5, QueryTyped
<1>7. /\ crowded'[r] <=> crowded[r]
      /\ \A o \in Requests : o # r => (crowded'[o] <=> (crowded[o] \/ req[o].pc = "lookup"))
  BY <1>2, CrowdTyped
<1>8. \A g \in Queries : Counted(query'[r][g])
  BY <1>5, <1>6 DEF Dialled
<1>9. req[r].pc = "lookup"
  BY <1>2, Looks
<1> DEFINE n == Made(query[r]["v4"]) + Made(query[r]["v6"])
<1>10. n \in Nat /\ Made(query'[r]["v4"]) + Made(query'[r]["v6"]) = n + 1
  <2>1. Made(query[r]["v4"]) \in Nat /\ Made(query[r]["v6"]) \in Nat
    BY MadeNat DEF Queries
  <2>2. CASE f = "v4"
    BY <1>5, <1>6, <2>1, <2>2 DEF Queries
  <2>3. CASE f = "v6"
    BY <1>5, <1>6, <2>1, <2>3 DEF Queries
  <2> QED
    BY <2>2, <2>3 DEF Queries
<1>11. Covers(r)'
  <2> SUFFICES ASSUME ~ crowded'[r]
      PROVE  /\ \A x \in Servers : Gap(x, idx') <= n + 1 => x \in tried[r]
             /\ \A g \in Queries : query'[r][g].pc # "store"
    BY <1>2, <1>10 DEF Covers, Storing, Queries
  <2>1. /\ query[r][f].srv = idx /\ idx \in tried[r]
        /\ \A x \in Servers : Gap(x, idx) <= n => x \in tried[r]
        /\ ~ (Storing(r, "v4") /\ Storing(r, "v6"))
    BY <1>2, <1>7 DEF Dialled, Covers, Storing
  <2>2. idx' = (idx + 1) % NumServers
    BY <1>1, <2>1
  <2> HIDE DEF n
  <2>3. \A x \in Servers : Gap(x, idx') <= n + 1 => x = idx \/ Gap(x, idx) <= n
    BY <1>2, <1>10, <2>2, GapGrows
  <2>4. \A g \in Queries : query'[r][g].pc # "store"
    BY <1>2, <1>5, <1>6, <2>1 DEF Storing, Queries
  <2> QED
    BY <2>1, <2>3, <2>4
<1> QED
  BY <1>2, <1>3, <1>6, <1>7, <1>8, <1>9, <1>11, OneDials

\* Time, the hosts and the LRU dial nobody.
LEMMA WorldDials ==
  ASSUME TypeOK, Dialled, Tick \/ Change \/ \E h \in Hosts : Evict(h)
  PROVE  Dialled'
<1>1. UNCHANGED dials
  BY DEF Tick, Change, Evict
<1>2. \A r \in Requests : req'[r].pc = req[r].pc
  <2>1. CASE Tick
    BY <2>1, Fields DEF Tick, Request
  <2>2. CASE UNCHANGED req
    BY <2>2
  <2> QED
    BY <2>1, <2>2 DEF Change, Evict
<1> QED
  BY <1>1, <1>2 DEF Dialled, Covers, Storing, dials

----------------------------------------------------------------------------
(* The theorems.                                                           *)

IInv == TypeOK /\ Carried /\ Dialled

LEMMA InitIInv == Init => IInv
<1> SUFFICES ASSUME Init PROVE IInv
  OBVIOUS
<1>1. \A r \in Requests : req[r] \in Request /\ req[r].pc = "idle"
  <2>1. \A h \in Hosts : Call("idle", h, {}) \in Request /\ Call("idle", h, {}).pc = "idle"
    BY CallFields DEF Call
  <2> QED
    BY <2>1 DEF Init
<1>2. \A r \in Requests, f \in Queries : query[r][f] = Off
  BY DEF Init
<1>3. TypeOK
  <2>1. req \in [Requests -> Request]
    BY <1>1 DEF Init
  <2>2. up \in SUBSET Servers /\ said \in [Hosts -> [Answers -> 0..Never]]
    BY Numbers DEF Init
  <2> QED
    BY <2>1, <2>2, Numbers, OffTyped DEF Init, TypeOK
<1>4. Carried
  <2>1. \A h \in Hosts : WereSaid(h, entry[h])
    BY Numbers DEF Init, WereSaid, NoEntry
  <2> QED
    BY <1>1, <2>1 DEF Carried, Held
<1>5. ASSUME NEW r \in Requests PROVE Covers(r) /\ \A f \in Queries : Counted(query[r][f])
  <2>1. \A f \in Queries : Made(query[r][f]) = 0 /\ ~ Storing(r, f) /\ Counted(query[r][f])
    BY <1>2, NoneMade DEF Storing
  <2>2. \A x \in Servers : Gap(x, idx) \in 1..NumServers
    BY <1>3, GapBounded DEF TypeOK
  <2> QED
    BY <2>1, <2>2, Numbers DEF Covers, Queries
<1> QED
  BY <1>2, <1>3, <1>4, <1>5 DEF IInv, Dialled

\* Every step keeps the invariant.
LEMMA StepKeeps == IInv /\ [Next]_vars => IInv'
<1> SUFFICES ASSUME IInv, [Next]_vars PROVE IInv'
  OBVIOUS
<1> USE DEF IInv
<1>1. ASSUME NEW r \in Requests,
             (\E h \in Hosts : Get(r, h)) \/ ReturnHit(r) \/ Expire(r) \/ Add(r)
      PROVE  IInv'
  BY <1>1, CacheTyped, CacheCarries, CacheDials
<1>2. ASSUME NEW r \in Requests, NEW f \in Queries, Dial(r, f) PROVE IInv'
  <2>1. TypeOK'
    BY <1>2, DialTyped
  <2>2. Carried'
    BY <1>2, AnswerCarries, PlainCarries DEF Dial, Pick, StoreIdx, Retry, cache
  <2>3. Dialled'
    BY <1>2, PickDials, StoreDials, AnswerDials, RetryDials DEF Dial
  <2> QED
    BY <2>1, <2>2, <2>3
<1>3. ASSUME NEW r \in Requests, Gather(r) \/ Cancel(r) PROVE IInv'
  BY <1>3, EndTyped, EndCarries, EndDials
<1>4. CASE Tick \/ Change \/ \E h \in Hosts : Evict(h)
  <2>1. Carried'
    BY <1>4, TickCarries, EvictCarries, PlainCarries DEF Change, cache
  <2> QED
    BY <1>4, <2>1, WorldTyped, WorldDials
<1>5. CASE UNCHANGED vars
  BY <1>5 DEF vars, TypeOK, Carried, Held, WereSaid, Dialled, Covers, Storing
<1> QED
  BY <1>1, <1>2, <1>3, <1>4, <1>5 DEF Next, Resolve

LEMMA Invariance == Spec => []IInv
BY InitIInv, StepKeeps, PTL DEF Spec

\* The index is always that of a server there is, and no query dials more often
\* than net.Resolver tries, whatever several dials make of the index at once.
THEOREM TypeCorrect == Spec => []TypeOK
<1>1. IInv => TypeOK
  BY DEF IInv
<1> QED
  BY <1>1, Invariance, PTL

\* No request is given a cached answer that DNS did not give for its host, nor
\* one that is older than its entry's TTL and a lookup (Resolve's cache).
THEOREM HitsWereSaid == Spec => []HitsAreRecent
<1>1. IInv => HitsAreRecent
  BY DEF IInv, Carried, HitsAreRecent
<1> QED
  BY <1>1, Invariance, PTL

\* The shared index takes the two queries of a lookup that nobody crowds round
\* all the servers before they give up, as long as they dial that often.
THEOREM AloneTriesEveryServer == Spec => []AloneDialsAll
<1>1. ASSUME IInv, NEW r \in Requests, \A f \in Queries : query[r][f].pc = "failed",
             ~ crowded[r], 2 * Attempts >= NumServers
      PROVE  tried[r] = Servers
  <2>1. \A f \in Queries : Made(query[r][f]) = Attempts
    BY <1>1, Numbers DEF IInv, Dialled, Counted, Made
  <2>2. \A x \in Servers : Gap(x, idx) \in 1..NumServers
    BY <1>1, GapBounded DEF IInv, TypeOK
  <2>3. Made(query[r]["v4"]) + Made(query[r]["v6"]) = 2 * Attempts
    BY <2>1, Numbers DEF Queries
  <2>4. \A x \in Servers : Gap(x, idx) <= Made(query[r]["v4"]) + Made(query[r]["v6"])
    BY <1>1, <2>2, <2>3, Numbers
  <2>5. \A x \in Servers : x \in tried[r]
    BY <1>1, <2>4 DEF IInv, Dialled, Covers
  <2> QED
    BY <1>1, <2>5 DEF IInv, TypeOK
<1>2. IInv => AloneDialsAll
  BY <1>1 DEF AloneDialsAll
<1> QED
  BY <1>2, Invariance, PTL
=============================================================================
