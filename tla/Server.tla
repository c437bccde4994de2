------------------------------- MODULE Server -------------------------------
(***************************************************************************)
(* One life of the HTTP server (internal/server): Run listens, requests go *)
(* through the rate limiter into the handlers, and a signal starts the     *)
(* drain, at whose end or deadline the process exits.  The goroutines are  *)
(* the main one, the one that listens, and one for each request.           *)
(*                                                                         *)
(* A tick is the time in which a bucket gains a token (1/RateLimit of a    *)
(* second).  What Classify answers for a host is chosen when it is called  *)
(* (Classifier has the details); a client that leaves makes it fail.       *)
(***************************************************************************)
EXTENDS Naturals, Sequences

CONSTANTS
  Requests,      \* the requests of this life
  Clients,       \* what clientIP makes of them
  Countries,
  NoCC,          \* "", no country, and no filter
  Err,           \* Classify's error
  Burst,         \* int(RateLimit), a bucket's size
  MaxBatch,      \* hosts of a batch
  Asked,         \* what requests ask: the kind, how many hosts, the filter
  Drain,         \* ticks of the drain window, 15 s
  MaxElapsed     \* bound: ticks that are told apart in a bucket's age

ASSUME ServerAssumption ==
  /\ NoCC \notin Countries
  /\ Err \notin Countries \cup {NoCC}
  /\ {Burst, MaxBatch} \subseteq Nat \ {0}
  /\ {Drain, MaxElapsed} \subseteq Nat
  /\ Asked \subseteq
       [kind : {"check", "batch"}, hosts : 0..MaxBatch + 1,
        filter : Countries \cup {NoCC}]
  /\ \A q \in Asked : q.kind = "check" => q.hosts \in 0..1 /\ q.filter = NoCC

VARIABLES
  main,       \* where Run is
  code,       \* the exit code
  listen,     \* where ListenAndServe is
  signalled,  \* the context of main is cancelled
  drain,      \* ticks left of the drain window
  bucket,     \* bucket[c]: the tokens of c's limiter
  req,        \* req[r]: where request r is, what it asks, what it has got
  admitted,   \* history: admitted[c], the requests of c that were let through
  elapsed     \* history: ticks since c's bucket was made

vars == <<main, code, listen, signalled, drain, bucket, req, admitted, elapsed>>

----------------------------------------------------------------------------
CC == Countries \cup {NoCC}
Answer == CC \cup {Err}
Row == [host : 1..MaxBatch, cc : Answer]
UpTo(n, S) == UNION {[1..k -> S] : k \in 0..n}

NoBucket == Burst + 1

\* got: history, what Classify answered so far.
Request ==
  [pc : {"none", "limiter", "allow", "handling", "answered", "cut"},
   client : Clients, ask : Asked,
   got : UpTo(MaxBatch, Answer), rows : UpTo(MaxBatch, Row),
   status : {"", "ok", "error", "limited"}]

Active(r) == req[r].pc \in {"limiter", "allow", "handling"}

Init ==
  /\ main = "running"
  /\ code = "none"
  /\ listen = "starting"
  /\ signalled = FALSE
  /\ drain = Drain
  /\ bucket = [c \in Clients |-> NoBucket]
  /\ req \in [Requests ->
       [pc : {"none"}, client : Clients, ask : Asked, got : {<<>>}, rows : {<<>>},
        status : {""}]]
  /\ admitted = [c \in Clients |-> 0]
  /\ elapsed = [c \in Clients |-> 0]

process == <<main, code, listen, signalled, drain>>
limits == <<bucket, admitted, elapsed>>

----------------------------------------------------------------------------
(* A request.                                                              *)

Accept(r) ==
  /\ listen = "up"
  /\ req[r].pc = "none"
  /\ req' = [req EXCEPT ![r].pc = "limiter"]
  /\ UNCHANGED <<process, limits>>

\* Faulty variant: a new limiter for every request.
GetBucketAnew(r) ==
  /\ req[r].pc = "limiter"
  /\ bucket' = [bucket EXCEPT ![req[r].client] = Burst]
  /\ req' = [req EXCEPT ![r].pc = "allow"]
  /\ UNCHANGED <<process, admitted, elapsed>>

\* rateLimiter, under its mutex: the client's limiter, a full one if it has none.
\* A client is a key that clientIP returns: the text of X-Forwarded-For, which is
\* taken as it comes, or the peer's address.  Whether one key is one client is the
\* proxy's affair.
GetBucket(r) ==
  LET c == req[r].client IN
  /\ req[r].pc = "limiter"
  /\ bucket' = [bucket EXCEPT ![c] = IF @ = NoBucket THEN Burst ELSE @]
  /\ req' = [req EXCEPT ![r].pc = "allow"]
  /\ UNCHANGED <<process, admitted, elapsed>>

\* The handler has written its response.
End(r, status) ==
  req' = [req EXCEPT ![r] = [@ EXCEPT !.pc = "answered", !.status = status]]

\* Faulty variant: the limiters share their tokens.
AllowFromAll(r) ==
  LET c == req[r].client IN
  /\ req[r].pc = "allow"
  /\ bucket[c] > 0
  /\ bucket' = [d \in Clients |-> IF bucket[d] \in 1..Burst THEN bucket[d] - 1
                                  ELSE bucket[d]]
  /\ admitted' = [admitted EXCEPT ![c] = @ + 1]
  /\ req' = [req EXCEPT ![r].pc = "handling"]
  /\ UNCHANGED <<process, elapsed>>

\* Faulty variant: the token is taken whether there is one or not.
AllowAlways(r) ==
  LET c == req[r].client IN
  /\ req[r].pc = "allow"
  /\ bucket' = [bucket EXCEPT ![c] = @ - 1]
  /\ admitted' = [admitted EXCEPT ![c] = @ + 1]
  /\ req' = [req EXCEPT ![r].pc = "handling"]
  /\ UNCHANGED <<process, elapsed>>

\* Limiter.Allow takes a token,
Allow(r) ==
  LET c == req[r].client IN
  /\ req[r].pc = "allow"
  /\ bucket[c] > 0
  /\ bucket' = [bucket EXCEPT ![c] = @ - 1]
  /\ admitted' = [admitted EXCEPT ![c] = @ + 1]
  /\ req' = [req EXCEPT ![r].pc = "handling"]
  /\ UNCHANGED <<process, elapsed>>

\* or there is none: 429.
Refuse(r) ==
  /\ req[r].pc = "allow"
  /\ bucket[req[r].client] = 0
  /\ End(r, "limited")
  /\ UNCHANGED <<process, limits>>

\* No host to check, a batch that is not JSON, or too many hosts.
Reject(r) ==
  /\ req[r].pc = "handling"
  /\ req[r].got = <<>>
  /\ req[r].ask.kind = "check" => req[r].ask.hosts = 0
  /\ End(r, "error")
  /\ UNCHANGED <<process, limits>>

Acceptable(ask) == ask.hosts \in IF ask.kind = "check" THEN {1} ELSE 0..MaxBatch

\* Faulty variant: a host that fails has no row.
ClassifyDroppingErrors(r) ==
  LET q == req[r]
      k == Len(q.got) + 1
  IN
  /\ q.pc = "handling" /\ Acceptable(q.ask) /\ k <= q.ask.hosts
  /\ \E cc \in Answer :
       req' = [req EXCEPT ![r] =
         [@ EXCEPT !.got = Append(q.got, cc),
                   !.rows = IF cc # Err /\ q.ask.filter \in {NoCC, cc}
                            THEN Append(q.rows, [host |-> k, cc |-> cc])
                            ELSE q.rows]]
  /\ UNCHANGED <<process, limits>>

\* The next host: an error makes a row of its own, which passes every filter.  The
\* filter is the request's country; its `confidence` is decoded and never read.
Classify(r) ==
  LET q == req[r]
      k == Len(q.got) + 1
  IN
  /\ q.pc = "handling" /\ Acceptable(q.ask) /\ k <= q.ask.hosts
  /\ \E cc \in Answer :
       req' = [req EXCEPT ![r] =
         [@ EXCEPT !.got = Append(q.got, cc),
                   !.rows = IF cc = Err \/ q.ask.filter \in {NoCC, cc}
                            THEN Append(q.rows, [host |-> k, cc |-> cc])
                            ELSE q.rows]]
  /\ UNCHANGED <<process, limits>>

\* All hosts are done; a single check reports its error as a status.
Respond(r) ==
  LET q == req[r] IN
  /\ q.pc = "handling" /\ Acceptable(q.ask) /\ Len(q.got) = q.ask.hosts
  /\ End(r, IF q.ask.kind = "check" /\ q.got[1] = Err THEN "error" ELSE "ok")
  /\ UNCHANGED <<process, limits>>

----------------------------------------------------------------------------
(* The process.                                                            *)

\* ListenAndServe opens the port, or fails, or finds the server shut down.
Listen ==
  /\ listen = "starting"
  /\ IF main = "running" THEN listen' \in {"up", "failed"} ELSE listen' = "closed"
  /\ UNCHANGED <<main, code, signalled, drain, req, limits>>

\* Accept fails for good, and ListenAndServe returns its error.
ListenerBreaks ==
  /\ listen = "up"
  /\ listen' = "failed"
  /\ UNCHANGED <<main, code, signalled, drain, req, limits>>

\* SIGTERM or SIGINT.
Signal ==
  /\ ~ signalled /\ main # "exited"
  /\ signalled' = TRUE
  /\ UNCHANGED <<main, code, listen, drain, req, limits>>

\* The end of the process takes the requests that are still running with it.
Exit(c) ==
  /\ main' = "exited"
  /\ code' = c
  /\ listen' = "closed"
  /\ req' = [r \in Requests |->
       IF Active(r) THEN [req[r] EXCEPT !.pc = "cut"] ELSE req[r]]
  /\ UNCHANGED <<signalled, drain, limits>>

\* Run's select: the listener's error,
RunFails ==
  /\ main = "running"
  /\ listen = "failed"
  /\ Exit("1")

\* or the signal.  When both are there it takes either.
Shutdown ==
  /\ main = "running"
  /\ signalled
  /\ main' = "draining"
  /\ listen' = IF listen = "up" THEN "closed" ELSE listen
  /\ UNCHANGED <<code, signalled, drain, req, limits>>

\* http.Server.Shutdown finds every connection idle.
Drained ==
  /\ main = "draining"
  /\ \A r \in Requests : ~ Active(r)
  /\ Exit("0")

\* Faulty variant: the error of Shutdown is dropped.
DrainTimesOutQuietly ==
  /\ main = "draining"
  /\ drain = 0
  /\ Exit("0")

\* Faulty variant: Shutdown without a deadline.
DrainForever ==
  /\ main = "draining"
  /\ drain = 0
  /\ \A r \in Requests : ~ Active(r)
  /\ Exit("1")

\* Its context's deadline has passed, maybe since it last looked: an error.
DrainTimesOut ==
  /\ main = "draining"
  /\ drain = 0
  /\ Exit("1")

----------------------------------------------------------------------------
UpToLimit(n, limit) == IF n < limit THEN n + 1 ELSE n

Tick ==
  /\ main # "exited"
  /\ drain' = IF main = "draining" /\ drain > 0 THEN drain - 1 ELSE drain
  /\ bucket' = [c \in Clients |-> UpToLimit(bucket[c], Burst)]
  /\ elapsed' = [c \in Clients |->
       IF bucket[c] = NoBucket THEN 0 ELSE UpToLimit(elapsed[c], MaxElapsed)]
  /\ UNCHANGED <<main, code, listen, signalled, req, admitted>>

Handle(r) ==
  \/ Accept(r) \/ GetBucket(r) \/ Allow(r) \/ Refuse(r)
  \/ Reject(r) \/ Classify(r) \/ Respond(r)

Run == Listen \/ RunFails \/ Shutdown \/ Drained \/ DrainTimesOut

Next ==
  \/ \E r \in Requests : Handle(r)
  \/ Run
  \/ ListenerBreaks
  \/ Signal
  \/ Tick
  \/ main = "exited" /\ UNCHANGED vars

Spec == Init /\ [][Next]_vars

\* Time passes and the main goroutine runs.  Of the requests nothing is asked:
\* one may be slow for as long as it likes.
FairSpec == Spec /\ WF_vars(Tick) /\ WF_vars(Run)

----------------------------------------------------------------------------
(* Properties.                                                             *)

TypeOK ==
  /\ main \in {"running", "draining", "exited"}
  /\ code \in {"none", "0", "1"}
  /\ listen \in {"starting", "up", "failed", "closed"}
  /\ signalled \in BOOLEAN
  /\ drain \in 0..Drain
  /\ bucket \in [Clients -> 0..NoBucket]
  /\ req \in [Requests -> Request]
  /\ admitted \in [Clients -> Nat]
  /\ elapsed \in [Clients -> 0..MaxElapsed]

\* However many requests of a client run at once, no more of them get through
\* than a full bucket and one for each tick since it was made.
WithinBudget ==
  \A c \in Clients : elapsed[c] < MaxElapsed => admitted[c] <= Burst + elapsed[c]

\* A client is refused only after it has spent a whole bucket itself: others
\* cannot use up its budget.
RefusedAfterBurst ==
  \A r \in Requests :
    req[r].status = "limited" => admitted[req[r].client] >= Burst

\* The exit code 0 means that no request was cut off.
ExitZeroIsClean == code = "0" => \A r \in Requests : req[r].pc # "cut"

\* An answered batch has its rows in the order of its hosts, and a host without
\* a row is one whose country the filter did not want.
BatchIsComplete ==
  \A r \in Requests :
    LET q == req[r] IN
    q.pc = "answered" /\ q.ask.kind = "batch" /\ q.status = "ok" =>
      /\ \A i, j \in DOMAIN q.rows : i < j => q.rows[i].host < q.rows[j].host
      /\ \A k \in 1..q.ask.hosts :
           (q.ask.filter # NoCC /\ q.got[k] \notin {q.ask.filter, Err})
             <=> (\A i \in DOMAIN q.rows : q.rows[i].host # k)

\* A signal ends the process, whatever its requests do.
SignalEnds == signalled ~> main = "exited"
=============================================================================
