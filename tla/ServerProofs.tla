---------------------------- MODULE ServerProofs ----------------------------
(***************************************************************************)
(* What Server promises, for any number of requests and clients, any size  *)
(* of a bucket and any drain window.                                       *)
(*                                                                         *)
(* The two promises of the limiter are one account, read from both sides:  *)
(* what a client was admitted and what its bucket still holds add up to at *)
(* least a full bucket, and to at most a full bucket and one token for     *)
(* every tick since it was made.                                           *)
(***************************************************************************)
EXTENDS Server, SequenceTheorems, TLAPS

\* As much of a request's type as the arguments below need.
Req ==
  [pc : {"none", "limiter", "allow", "handling", "answered", "cut"},
   client : Clients, ask : Asked, got : Seq(Answer), rows : Seq(Row),
   status : {"", "ok", "error", "limited"}]

RequestTyped == req \in [Requests -> Req]

LimitsTyped ==
  /\ bucket \in [Clients -> 0..NoBucket]
  /\ admitted \in [Clients -> Nat]
  /\ elapsed \in [Clients -> 0..MaxElapsed]

\* A client without a bucket has never been let through.
FreshClients ==
  \A c \in Clients : bucket[c] = NoBucket => admitted[c] = 0 /\ elapsed[c] = 0

\* A request asks for a token only when its client has a bucket.
AskersHaveBuckets ==
  \A r \in Requests : req[r].pc = "allow" => bucket[req[r].client] # NoBucket

Account ==
  \A c \in Clients : bucket[c] # NoBucket =>
    /\ admitted[c] + bucket[c] >= Burst
    /\ elapsed[c] < MaxElapsed => admitted[c] + bucket[c] <= Burst + elapsed[c]

\* Requests are cut off by the process's end, and none is when it is 0.
CutAtTheEnd ==
  /\ \A r \in Requests : req[r].pc = "cut" => main = "exited" /\ code # "0"
  /\ main = "exited" => listen = "closed"

IInv ==
  /\ RequestTyped
  /\ LimitsTyped
  /\ FreshClients
  /\ AskersHaveBuckets
  /\ Account
  /\ RefusedAfterBurst
  /\ CutAtTheEnd

----------------------------------------------------------------------------
\* What the assumption says of the numbers.
LEMMA Numbers == Burst \in Nat \ {0} /\ MaxBatch \in Nat \ {0} /\ MaxElapsed \in Nat
BY ServerAssumption

\* The initial states satisfy the invariant.
LEMMA InitIInv == Init => IInv
<1> USE Numbers DEF NoBucket
<1> SUFFICES ASSUME Init PROVE IInv
  OBVIOUS
<1>1. RequestTyped
  <2>1. <<>> \in Seq(Answer) /\ <<>> \in Seq(Row)
    OBVIOUS
  <2> DEFINE New == [pc : {"none"}, client : Clients, ask : Asked, got : {<<>>},
                     rows : {<<>>}, status : {""}]
  <2>2. New \subseteq Req
    BY <2>1 DEF Req
  <2>3. req \in [Requests -> New]
    BY DEF Init
  <2> HIDE DEF New
  <2> QED
    BY <2>2, <2>3 DEF RequestTyped
<1>2. LimitsTyped /\ FreshClients /\ Account
  <2>1. /\ bucket = [c \in Clients |-> NoBucket]
        /\ admitted = [c \in Clients |-> 0]
        /\ elapsed = [c \in Clients |-> 0]
    BY DEF Init
  <2> QED
    BY <2>1 DEF LimitsTyped, FreshClients, Account
<1>3. AskersHaveBuckets /\ RefusedAfterBurst /\ CutAtTheEnd
  BY DEF Init, AskersHaveBuckets, RefusedAfterBurst, CutAtTheEnd
<1> QED
  BY <1>1, <1>2, <1>3 DEF IInv

\* A step that changes one request and no limit keeps the invariant, if the
\* request was not cut and is not by this step, and is not refused out of turn.
LEMMA RequestStep ==
  ASSUME IInv, UNCHANGED <<process, limits>>, NEW r \in Requests,
         RequestTyped',
         \A s \in Requests : s # r => req'[s] = req[s],
         req'[r].client = req[r].client,
         req'[r].pc \in {"limiter", "handling", "answered"},
         req'[r].status = "limited" =>
           admitted[req[r].client] >= Burst
  PROVE  IInv'
<1>1. LimitsTyped' /\ FreshClients' /\ Account'
  BY DEF IInv, limits, LimitsTyped, FreshClients, Account
<1>2. AskersHaveBuckets' /\ RefusedAfterBurst' /\ CutAtTheEnd'
  BY DEF IInv, limits, process, AskersHaveBuckets, RefusedAfterBurst, CutAtTheEnd
<1> QED
  BY <1>1, <1>2 DEF IInv
----------------------------------------------------------------------------
(* The steps of a request.                                                 *)

LEMMA AcceptKeeps == ASSUME IInv, NEW r \in Requests, Accept(r) PROVE IInv'
<1>1. RequestTyped'
  BY DEF IInv, Accept, RequestTyped, Req
<1> QED
  BY <1>1, RequestStep DEF IInv, Accept, RequestTyped, Req, RefusedAfterBurst

\* A new bucket is full; an old one is as it was.
LEMMA GetBucketKeeps == ASSUME IInv, NEW r \in Requests, GetBucket(r) PROVE IInv'
<1> USE Numbers DEF NoBucket
<1> DEFINE c == req[r].client
<1>0. c \in Clients
  BY DEF IInv, RequestTyped, Req
<1>1. /\ bucket' = [bucket EXCEPT ![c] = IF bucket[c] = NoBucket THEN Burst ELSE bucket[c]]
      /\ req' = [req EXCEPT ![r].pc = "allow"]
      /\ UNCHANGED <<process, admitted, elapsed>>
  BY DEF GetBucket
<1> HIDE DEF c
<1>2. RequestTyped'
  BY <1>1 DEF IInv, RequestTyped, Req
<1>3. LimitsTyped'
  BY <1>0, <1>1 DEF IInv, LimitsTyped
<1>4. FreshClients' /\ Account'
  BY <1>0, <1>1 DEF IInv, LimitsTyped, FreshClients, Account
<1>5. AskersHaveBuckets'
  <2>1. \A d \in Clients : bucket'[d] = NoBucket => bucket[d] = NoBucket /\ d # c
    BY <1>0, <1>1 DEF IInv, LimitsTyped
  <2>2. /\ \A s \in Requests : s # r => req'[s] = req[s]
        /\ \A s \in Requests : req'[s].client \in Clients
        /\ req'[r].client = c
    BY <1>1 DEF IInv, RequestTyped, Req, c
  <2> QED
    BY <1>1, <2>1, <2>2 DEF IInv, AskersHaveBuckets
<1>6. RefusedAfterBurst' /\ CutAtTheEnd'
  BY <1>1 DEF IInv, RefusedAfterBurst, CutAtTheEnd, RequestTyped, Req, process
<1> QED
  BY <1>2, <1>3, <1>4, <1>5, <1>6 DEF IInv

\* A token changes hands: the account stays the same.
LEMMA AllowKeeps == ASSUME IInv, NEW r \in Requests, Allow(r) PROVE IInv'
<1> USE Numbers DEF NoBucket
<1> DEFINE c == req[r].client
<1>0. c \in Clients /\ bucket[c] # NoBucket
  BY DEF IInv, RequestTyped, Req, AskersHaveBuckets, Allow
<1>1. /\ bucket[c] > 0
      /\ bucket' = [bucket EXCEPT ![c] = bucket[c] - 1]
      /\ admitted' = [admitted EXCEPT ![c] = admitted[c] + 1]
      /\ req' = [req EXCEPT ![r].pc = "handling"]
      /\ UNCHANGED <<process, elapsed>>
  BY DEF Allow
<1> HIDE DEF c
<1>2. RequestTyped'
  BY <1>1 DEF IInv, RequestTyped, Req
<1>3. LimitsTyped'
  BY <1>0, <1>1 DEF IInv, LimitsTyped
<1>4. FreshClients' /\ Account'
  BY <1>0, <1>1 DEF IInv, LimitsTyped, FreshClients, Account
<1>5. AskersHaveBuckets'
  <2>1. \A d \in Clients : bucket'[d] = NoBucket => bucket[d] = NoBucket
    BY <1>0, <1>1 DEF IInv, LimitsTyped
  <2> QED
    BY <1>1, <2>1 DEF IInv, AskersHaveBuckets, RequestTyped, Req
<1>6. RefusedAfterBurst'
  <2>1. \A d \in Clients : admitted'[d] >= admitted[d]
    BY <1>0, <1>1 DEF IInv, LimitsTyped
  <2>2. \A s \in Requests : req'[s].status = req[s].status
                          /\ req'[s].client = req[s].client /\ req[s].client \in Clients
    BY <1>1 DEF IInv, RequestTyped, Req
  <2> QED
    BY <2>1, <2>2, <1>3 DEF IInv, RefusedAfterBurst, LimitsTyped
<1>7. CutAtTheEnd'
  BY <1>1 DEF IInv, CutAtTheEnd, RequestTyped, Req, process
<1> QED
  BY <1>2, <1>3, <1>4, <1>5, <1>6, <1>7 DEF IInv

\* An answered request is a request, as before but for its place and status.
LEMMA EndTypes ==
  ASSUME RequestTyped, NEW r \in Requests, NEW status \in {"ok", "error", "limited"},
         End(r, status)
  PROVE  /\ RequestTyped'
         /\ \A s \in Requests :
              /\ req'[s].got = req[s].got /\ req'[s].rows = req[s].rows
              /\ req'[s].ask = req[s].ask /\ req'[s].client = req[s].client
              /\ s # r => req'[s] = req[s]
         /\ req'[r].pc = "answered" /\ req'[r].status = status
<1> DEFINE new == [req[r] EXCEPT !.pc = "answered", !.status = status]
<1>1. /\ new \in Req
      /\ new.got = req[r].got /\ new.rows = req[r].rows /\ new.ask = req[r].ask
      /\ new.client = req[r].client /\ new.pc = "answered" /\ new.status = status
  BY DEF RequestTyped, Req
<1>2. req' = [req EXCEPT ![r] = new]
  BY DEF End
<1> HIDE DEF new
<1> QED
  BY <1>1, <1>2 DEF RequestTyped

\* A request is refused when the bucket is empty, so that all of a full one has
\* gone to requests that were let through.
LEMMA RefuseKeeps == ASSUME IInv, NEW r \in Requests, Refuse(r) PROVE IInv'
<1> USE Numbers DEF NoBucket
<1>1. RequestTyped'
  BY EndTypes DEF IInv, Refuse
<1>2. admitted[req[r].client] >= Burst
  <2>1. req[r].client \in Clients /\ bucket[req[r].client] = 0
    BY DEF IInv, Refuse, RequestTyped, Req
  <2> QED
    BY <2>1 DEF IInv, LimitsTyped, Account
<1> QED
  BY <1>1, <1>2, RequestStep DEF IInv, Refuse, End, RequestTyped, Req

LEMMA RejectKeeps == ASSUME IInv, NEW r \in Requests, Reject(r) PROVE IInv'
<1>1. RequestTyped'
  BY EndTypes DEF IInv, Reject
<1> QED
  BY <1>1, RequestStep DEF IInv, Reject, End, RequestTyped, Req

LEMMA RespondKeeps == ASSUME IInv, NEW r \in Requests, Respond(r) PROVE IInv'
<1> DEFINE status == IF req[r].ask.kind = "check" /\ req[r].got[1] = Err
                     THEN "error" ELSE "ok"
<1>1. End(r, status) /\ UNCHANGED <<process, limits>>
  BY DEF Respond
<1>2. status \in {"error", "ok"}
  OBVIOUS
<1> HIDE DEF status
<1>3. RequestTyped'
  BY <1>1, <1>2 DEF IInv, End, RequestTyped, Req
<1> QED
  BY <1>1, <1>2, <1>3, RequestStep DEF IInv, End, RequestTyped, Req

\* A host's answer lengthens what the request has got, and perhaps its rows.
LEMMA ClassifyKeeps == ASSUME IInv, NEW r \in Requests, Classify(r) PROVE IInv'
<1> DEFINE q == req[r]
           k == Len(q.got) + 1
<1>1. PICK cc \in Answer :
        req' = [req EXCEPT ![r] =
          [q EXCEPT !.got = Append(q.got, cc),
                    !.rows = IF cc = Err \/ q.ask.filter \in {NoCC, cc}
                             THEN Append(q.rows, [host |-> k, cc |-> cc])
                             ELSE q.rows]]
  BY DEF Classify
<1>2. /\ q \in Req /\ q.pc = "handling" /\ UNCHANGED <<process, limits>>
  BY DEF IInv, Classify, RequestTyped
<1>3. k \in 1..MaxBatch
  <2>1. q.got \in Seq(Answer)
    BY <1>2 DEF Req
  <2>2. k <= q.ask.hosts /\ q.ask.hosts \in 0..MaxBatch
    BY Numbers DEF Classify, Acceptable
  <2> HIDE DEF q
  <2>3. Len(q.got) \in Nat
    BY <2>1
  <2> QED
    BY <2>2, <2>3, Numbers
<1>4. Append(q.got, cc) \in Seq(Answer) /\ Append(q.rows, [host |-> k, cc |-> cc]) \in Seq(Row)
  <2>1. [host |-> k, cc |-> cc] \in Row
    BY <1>3 DEF Row
  <2>2. q.got \in Seq(Answer) /\ q.rows \in Seq(Row)
    BY <1>2 DEF Req
  <2> HIDE DEF q, k
  <2> QED
    BY <2>1, <2>2
<1>5. req'[r] \in Req /\ req'[r].pc = "handling" /\ req'[r].status = q.status
      /\ req'[r].client = q.client
  BY <1>1, <1>2, <1>4 DEF IInv, RequestTyped, Req
<1>6. RequestTyped'
  BY <1>1, <1>5 DEF IInv, RequestTyped
<1> QED
  BY <1>1, <1>2, <1>5, <1>6, RequestStep DEF IInv, RefusedAfterBurst

LEMMA HandleKeeps == ASSUME IInv, NEW r \in Requests, Handle(r) PROVE IInv'
BY AcceptKeeps, GetBucketKeeps, AllowKeeps, RefuseKeeps, RejectKeeps, ClassifyKeeps,
   RespondKeeps DEF Handle

----------------------------------------------------------------------------
(* The steps of the process.                                               *)

\* The limits and the requests stay as they are.
LEMMA ProcessStep ==
  ASSUME IInv, UNCHANGED <<req, limits>>, CutAtTheEnd'
  PROVE  IInv'
BY DEF IInv, limits, RequestTyped, LimitsTyped, FreshClients, AskersHaveBuckets,
       Account, RefusedAfterBurst

\* The end of the process cuts what still runs, and is not 0 if anything does.
LEMMA ExitKeeps ==
  ASSUME IInv, NEW c, Exit(c), main # "exited",
         c = "1" \/ \A r \in Requests : ~ Active(r)
  PROVE  IInv'
<1>1. RequestTyped'
  <2>1. \A r \in Requests : req[r] \in Req /\ [req[r] EXCEPT !.pc = "cut"] \in Req
    BY DEF IInv, RequestTyped, Req
  <2> QED
    BY <2>1 DEF Exit, RequestTyped
<1>2. \A r \in Requests :
        /\ req'[r].client = req[r].client
        /\ req'[r].status = req[r].status
        /\ req'[r].pc \in {req[r].pc, "cut"}
        /\ req'[r].pc = "cut" => req[r].pc = "cut" \/ c = "1"
  BY DEF IInv, Exit, Active, RequestTyped, Req
<1>3. UNCHANGED limits /\ main' = "exited" /\ code' = c /\ listen' = "closed"
  BY DEF Exit
<1>4. LimitsTyped' /\ FreshClients' /\ Account'
  BY <1>3 DEF IInv, limits, LimitsTyped, FreshClients, Account
<1>5. AskersHaveBuckets' /\ RefusedAfterBurst'
  BY <1>2, <1>3 DEF IInv, limits, AskersHaveBuckets, RefusedAfterBurst
<1>6. CutAtTheEnd'
  BY <1>2, <1>3 DEF IInv, CutAtTheEnd
<1> QED
  BY <1>1, <1>4, <1>5, <1>6 DEF IInv

LEMMA RunKeeps == IInv /\ Run => IInv'
<1> SUFFICES ASSUME IInv, Run PROVE IInv'
  OBVIOUS
<1>1. CASE Listen
  BY <1>1, ProcessStep DEF Listen, IInv, CutAtTheEnd
<1>2. CASE RunFails
  BY <1>2, ExitKeeps DEF RunFails
<1>3. CASE Shutdown
  BY <1>3, ProcessStep DEF Shutdown, IInv, CutAtTheEnd
<1>4. CASE Drained
  BY <1>4, ExitKeeps DEF Drained
<1>5. CASE DrainTimesOut
  BY <1>5, ExitKeeps DEF DrainTimesOut
<1> QED
  BY <1>1, <1>2, <1>3, <1>4, <1>5 DEF Run

\* A tick adds a token on one side of the account and a tick on the other.
LEMMA TickKeeps == IInv /\ Tick => IInv'
<1> USE Numbers DEF NoBucket
<1> SUFFICES ASSUME IInv, Tick PROVE IInv'
  OBVIOUS
<1>1. /\ bucket' = [c \in Clients |-> UpToLimit(bucket[c], Burst)]
      /\ elapsed' = [c \in Clients |->
           IF bucket[c] = NoBucket THEN 0 ELSE UpToLimit(elapsed[c], MaxElapsed)]
      /\ UNCHANGED <<main, code, listen, req, admitted>>
  BY DEF Tick
<1>2. LimitsTyped' /\ FreshClients' /\ Account'
  BY <1>1 DEF IInv, LimitsTyped, FreshClients, Account, UpToLimit
<1>3. \A c \in Clients : bucket'[c] = NoBucket => bucket[c] = NoBucket
  BY <1>1 DEF IInv, LimitsTyped, UpToLimit
<1>4. RequestTyped' /\ RefusedAfterBurst' /\ CutAtTheEnd'
  BY <1>1 DEF IInv, RequestTyped, RefusedAfterBurst, CutAtTheEnd
<1>5. AskersHaveBuckets'
  BY <1>1, <1>3 DEF IInv, RequestTyped, Req, AskersHaveBuckets
<1> QED
  BY <1>2, <1>4, <1>5 DEF IInv

LEMMA Invariance == Spec => []IInv
<1>1. IInv /\ [Next]_vars => IInv'
  <2> SUFFICES ASSUME IInv, [Next]_vars PROVE IInv'
    OBVIOUS
  <2>1. CASE \E r \in Requests : Handle(r)
    BY <2>1, HandleKeeps
  <2>2. CASE Run
    BY <2>2, RunKeeps
  <2>3. CASE ListenerBreaks
    BY <2>3, ProcessStep DEF ListenerBreaks, IInv, CutAtTheEnd
  <2>4. CASE Signal
    BY <2>4, ProcessStep DEF Signal, IInv, CutAtTheEnd
  <2>5. CASE Tick
    BY <2>5, TickKeeps
  <2>6. CASE UNCHANGED vars
    BY <2>6, ProcessStep DEF vars, limits, IInv, CutAtTheEnd
  <2> QED
    BY <2>1, <2>2, <2>3, <2>4, <2>5, <2>6 DEF Next
<1> QED
  BY <1>1, InitIInv, PTL DEF Spec

----------------------------------------------------------------------------
(* The rows of a batch.                                                    *)

\* The filter does not want host k's answer.
Dropped(q, k) == q.ask.filter # NoCC /\ q.got[k] \notin {q.ask.filter, Err}

\* The rows so far are those of the hosts so far, in their order.
RowsFollow(q) ==
  /\ \A i \in 1..Len(q.rows) : q.rows[i].host \in 1..Len(q.got)
  /\ \A i, j \in 1..Len(q.rows) : i < j => q.rows[i].host < q.rows[j].host
  /\ \A k \in 1..Len(q.got) : Dropped(q, k) <=> \A i \in 1..Len(q.rows) : q.rows[i].host # k

\* A good answer is given after the last host.
AnsweredWhole(q) == q.pc = "answered" /\ q.status = "ok" => Len(q.got) = q.ask.hosts

Batches == \A r \in Requests : RowsFollow(req[r]) /\ AnsweredWhole(req[r])

\* What an Append does, index by index.
LEMMA AppendFacts ==
  ASSUME NEW S, NEW x \in Seq(S), NEW e \in S, NEW y, y = Append(x, e)
  PROVE  /\ Len(x) \in Nat /\ Len(y) = Len(x) + 1
         /\ \A i \in 1..Len(x) : y[i] = x[i]
         /\ y[Len(x) + 1] = e
         /\ \A i \in 1..Len(y) : i # Len(x) + 1 => i \in 1..Len(x)
<1>1. /\ Len(x) \in Nat /\ Len(y) = Len(x) + 1 /\ y[Len(x) + 1] = e
      /\ \A i \in 1..Len(x) : y[i] = x[i]
  BY AppendProperties, LenProperties
<1>2. \A n \in Nat : \A i \in 1..n + 1 : i # n + 1 => i \in 1..n
  OBVIOUS
<1> QED
  BY <1>1, <1>2

\* A step that answers no host.
LEMMA SameRows ==
  ASSUME Batches,
         \A r \in Requests :
           /\ req'[r].got = req[r].got /\ req'[r].rows = req[r].rows /\ req'[r].ask = req[r].ask
           /\ AnsweredWhole(req'[r])
  PROVE  Batches'
<1>1. ASSUME NEW r \in Requests PROVE RowsFollow(req[r])' /\ AnsweredWhole(req[r])'
  <2>1. /\ req'[r].got = req[r].got /\ req'[r].rows = req[r].rows
        /\ req'[r].ask = req[r].ask
    OBVIOUS
  <2>2. RowsFollow(req[r])
    BY DEF Batches
  <2>3. RowsFollow(req'[r])
    BY <2>1, <2>2 DEF RowsFollow, Dropped
  <2> QED
    BY <2>3
<1> QED
  BY <1>1 DEF Batches

\* One request moves on, and is not answered with "ok" by that.
LEMMA MoveKeeps ==
  ASSUME IInv, Batches, NEW r \in Requests, Handle(r), ~ Classify(r)
  PROVE  Batches'
<1>1. req \in [Requests -> Req]
  BY DEF IInv, RequestTyped
<1>2. CASE Accept(r) \/ GetBucket(r) \/ Allow(r)
  <2>1. PICK pc \in {"limiter", "allow", "handling"} : req' = [req EXCEPT ![r].pc = pc]
    BY <1>2 DEF Accept, GetBucket, Allow
  <2> QED
    BY <1>1, <2>1, SameRows DEF Batches, AnsweredWhole, Req
<1>3. CASE Refuse(r) \/ Reject(r)
  <2>1. PICK status \in {"limited", "error"} : End(r, status)
    BY <1>3 DEF Refuse, Reject
  <2> QED
    BY <1>1, <2>1, SameRows DEF End, Batches, AnsweredWhole, Req
<1>4. CASE Respond(r)
  <2>1. PICK status \in {"ok", "error"} : End(r, status)
    BY <1>4 DEF Respond
  <2>2. Len(req[r].got) = req[r].ask.hosts
    BY <1>4 DEF Respond
  <2>3. /\ \A s \in Requests :
             /\ req'[s].got = req[s].got /\ req'[s].rows = req[s].rows
             /\ req'[s].ask = req[s].ask
             /\ s # r => req'[s] = req[s]
        /\ Len(req'[r].got) = req'[r].ask.hosts
    BY <2>1, <2>2, EndTypes DEF IInv
  <2>4. \A s \in Requests : AnsweredWhole(req'[s])
    BY <2>3 DEF Batches, AnsweredWhole
  <2> QED
    BY <2>3, <2>4, SameRows
<1> QED
  BY <1>2, <1>3, <1>4 DEF Handle

\* A host's row goes to the end, or the filter drops it.
LEMMA RowKeeps == ASSUME IInv, Batches, NEW r \in Requests, Classify(r) PROVE Batches'
<1> DEFINE q == req[r]
           k == Len(q.got) + 1
           wanted(cc) == cc = Err \/ q.ask.filter \in {NoCC, cc}
<1>1. PICK cc \in Answer :
        req' = [req EXCEPT ![r] =
          [q EXCEPT !.got = Append(q.got, cc),
                    !.rows = IF wanted(cc) THEN Append(q.rows, [host |-> k, cc |-> cc])
                             ELSE q.rows]]
  BY DEF Classify
<1>2. /\ q \in Req /\ q.pc = "handling" /\ req \in [Requests -> Req]
      /\ RowsFollow(q) /\ k <= q.ask.hosts /\ q.ask.hosts \in 0..MaxBatch
  BY Numbers DEF IInv, Classify, RequestTyped, Batches, Acceptable
<1>3. /\ q.got \in Seq(Answer) /\ q.rows \in Seq(Row)
  BY <1>2 DEF Req
<1> DEFINE new == req'[r]
           row == [host |-> k, cc |-> cc]
<1>4. /\ new.pc = "handling" /\ new.ask = q.ask /\ new.got = Append(q.got, cc)
      /\ new.rows = IF wanted(cc) THEN Append(q.rows, row) ELSE q.rows
  BY <1>1, <1>2 DEF Req
<1>5. \A s \in Requests : s # r => req'[s] = req[s]
  BY <1>1, <1>2
<1>6. row.host = k /\ Len(q.got) \in Nat /\ row \in Row
  <2> HIDE DEF q
  <2>1. Len(q.got) \in Nat
    BY <1>3, LenProperties
  <2> QED
    BY <1>2, <2>1, Numbers DEF Row
<1>7. wanted(cc) <=> ~ (q.ask.filter # NoCC /\ cc \notin {q.ask.filter, Err})
  OBVIOUS
<1> HIDE DEF wanted, row, new, q
<1>8. /\ Len(new.got) = k /\ new.got[k] = cc
      /\ \A j \in 1..Len(q.got) : new.got[j] = q.got[j]
      /\ \A j \in 1..k : j # k => j \in 1..Len(q.got)
  BY <1>3, <1>4, AppendFacts
<1>9. CASE wanted(cc)
  <2>1. /\ Len(q.rows) \in Nat /\ Len(new.rows) = Len(q.rows) + 1
        /\ \A i \in 1..Len(q.rows) : new.rows[i] = q.rows[i]
        /\ new.rows[Len(q.rows) + 1] = row
        /\ \A i \in 1..Len(new.rows) : i # Len(q.rows) + 1 => i \in 1..Len(q.rows)
    BY <1>3, <1>4, <1>6, <1>9, AppendFacts
  <2>2. RowsFollow(new)
    <3>1. \A i \in 1..Len(q.rows) : q.rows[i].host \in 1..Len(q.got)
      BY <1>2 DEF RowsFollow
    <3>2. ASSUME NEW i \in 1..Len(new.rows) PROVE new.rows[i].host \in 1..Len(new.got)
      <4>1. k \in 1..k /\ \A n \in 1..Len(q.got) : n \in 1..k
        BY <1>6
      <4>2. CASE i = Len(q.rows) + 1
        BY <1>6, <1>8, <2>1, <4>1, <4>2
      <4>3. CASE i # Len(q.rows) + 1
        BY <1>8, <2>1, <3>1, <4>1, <4>3
      <4> QED
        BY <4>2, <4>3
    <3>3. \A i, j \in 1..Len(new.rows) : i < j => new.rows[i].host < new.rows[j].host
      <4> SUFFICES ASSUME NEW i \in 1..Len(new.rows), NEW j \in 1..Len(new.rows), i < j
                   PROVE  new.rows[i].host < new.rows[j].host
        OBVIOUS
      <4>1. i \in 1..Len(q.rows) /\ new.rows[i] = q.rows[i]
        BY <2>1
      <4>2. CASE j = Len(q.rows) + 1
        <5>1. q.rows[i].host \in 1..Len(q.got)
          BY <3>1, <4>1
        <5>2. new.rows[j].host = k
          BY <1>6, <2>1, <4>2
        <5> QED
          BY <1>6, <4>1, <5>1, <5>2
      <4>3. CASE j # Len(q.rows) + 1
        BY <1>2, <2>1, <4>1, <4>3 DEF RowsFollow
      <4> QED
        BY <4>2, <4>3
    <3>4. ASSUME NEW j \in 1..Len(new.got)
          PROVE  Dropped(new, j) <=> \A i \in 1..Len(new.rows) : new.rows[i].host # j
      <4>1. CASE j = k
        <5>1. ~ Dropped(new, j)
          BY <1>4, <1>7, <1>8, <1>9, <4>1 DEF Dropped
        <5>2. Len(q.rows) + 1 \in 1..Len(new.rows)
          BY <2>1
        <5> QED
          BY <1>6, <2>1, <4>1, <5>1, <5>2
      <4>2. CASE j # k
        <5>1. j \in 1..Len(q.got) /\ (Dropped(new, j) <=> Dropped(q, j))
          BY <1>4, <1>8, <4>2 DEF Dropped
        <5>2. Dropped(q, j) <=> \A i \in 1..Len(q.rows) : q.rows[i].host # j
          BY <1>2, <5>1 DEF RowsFollow
        <5>3. \A i \in 1..Len(q.rows) : i \in 1..Len(new.rows)
          BY <2>1
        <5> QED
          BY <1>6, <2>1, <4>2, <5>1, <5>2, <5>3
      <4> QED
        BY <4>1, <4>2
    <3> QED
      BY <3>2, <3>3, <3>4 DEF RowsFollow
  <2> QED
    BY <1>4, <1>5, <2>2 DEF Batches, AnsweredWhole, new
<1>10. CASE ~ wanted(cc)
  <2>1. new.rows = q.rows
    BY <1>4, <1>10
  <2>2. \A i \in 1..Len(q.rows) : q.rows[i].host \in 1..Len(q.got)
    BY <1>2 DEF RowsFollow
  <2>3. ASSUME NEW j \in 1..Len(new.got)
        PROVE  Dropped(new, j) <=> \A i \in 1..Len(q.rows) : q.rows[i].host # j
    <3>1. CASE j = k
      <4>1. Dropped(new, j)
        BY <1>4, <1>7, <1>8, <1>10, <3>1 DEF Dropped
      <4> QED
        BY <1>6, <2>2, <3>1, <4>1
    <3>2. CASE j # k
      <4>1. j \in 1..Len(q.got) /\ (Dropped(new, j) <=> Dropped(q, j))
        BY <1>4, <1>8, <3>2 DEF Dropped
      <4> QED
        BY <1>2, <4>1 DEF RowsFollow
    <3> QED
      BY <3>1, <3>2
  <2>4. RowsFollow(new)
    BY <1>2, <1>6, <1>8, <2>1, <2>2, <2>3 DEF RowsFollow
  <2> QED
    BY <1>4, <1>5, <2>4 DEF Batches, AnsweredWhole, new
<1> QED
  BY <1>9, <1>10

LEMMA BatchInvariance == Spec => []Batches
<1>1. Init => Batches
  <2> SUFFICES ASSUME Init, NEW r \in Requests PROVE RowsFollow(req[r]) /\ AnsweredWhole(req[r])
    BY DEF Batches
  <2>1. req[r].got = <<>> /\ req[r].rows = <<>> /\ req[r].pc = "none"
    BY DEF Init
  <2>2. Len(req[r].got) = 0 /\ Len(req[r].rows) = 0
    BY <2>1, EmptySeq
  <2> QED
    BY <2>1, <2>2 DEF RowsFollow, AnsweredWhole
<1>2. IInv /\ Batches /\ [Next]_vars => Batches'
  <2> SUFFICES ASSUME IInv, Batches, [Next]_vars PROVE Batches'
    OBVIOUS
  <2>1. CASE \E r \in Requests : Handle(r)
    BY <2>1, MoveKeeps, RowKeeps
  <2>2. CASE UNCHANGED req
    BY <2>2 DEF Batches
  <2>3. ASSUME NEW c, Exit(c) PROVE Batches'
    <3>1. \A r \in Requests :
            /\ req'[r].got = req[r].got /\ req'[r].rows = req[r].rows /\ req'[r].ask = req[r].ask
            /\ AnsweredWhole(req'[r])
      <4>1. \A r \in Requests :
              req'[r] = IF Active(r) THEN [req[r] EXCEPT !.pc = "cut"] ELSE req[r]
        BY <2>3 DEF Exit
      <4> QED
        BY <4>1 DEF IInv, RequestTyped, Req, Batches, AnsweredWhole
    <3> QED
      BY <3>1, SameRows
  <2>4. CASE Run
    BY <2>2, <2>3, <2>4 DEF Run, Listen, RunFails, Shutdown, Drained, DrainTimesOut
  <2>5. CASE ListenerBreaks \/ Signal \/ Tick \/ UNCHANGED vars
    BY <2>2, <2>5 DEF ListenerBreaks, Signal, Tick, vars
  <2> QED
    BY <2>1, <2>4, <2>5 DEF Next
<1> QED
  BY <1>1, <1>2, Invariance, PTL DEF Spec

----------------------------------------------------------------------------
(* The types that the arguments above do not need.                         *)

ProcessTyped ==
  /\ main \in {"running", "draining", "exited"}
  /\ code \in {"none", "0", "1"}
  /\ listen \in {"starting", "up", "failed", "closed"}
  /\ signalled \in BOOLEAN
  /\ drain \in 0..Drain

\* A host has at most one row, and there is a limit to the hosts.
Sized(q) == Len(q.rows) <= Len(q.got) /\ Len(q.got) <= MaxBatch

AllSized == \A r \in Requests : Sized(req[r])

LEMMA ProcessInvariance == Spec => []ProcessTyped
<1>1. Init => ProcessTyped
  <2>1. Drain \in 0..Drain
    BY ServerAssumption
  <2>2. Init => /\ main = "running" /\ code = "none" /\ listen = "starting"
                /\ signalled = FALSE /\ drain = Drain
    BY DEF Init
  <2> QED
    BY <2>1, <2>2 DEF ProcessTyped
<1>2. ProcessTyped /\ [Next]_vars => ProcessTyped'
  <2> SUFFICES ASSUME ProcessTyped, [Next]_vars PROVE ProcessTyped'
    OBVIOUS
  <2>1. CASE UNCHANGED process
    BY <2>1 DEF process, ProcessTyped
  <2>2. CASE \E r \in Requests : Handle(r)
    BY <2>1, <2>2 DEF Handle, Accept, GetBucket, Allow, Refuse, Reject, Classify, Respond
  <2>3. CASE Run
    BY <2>3 DEF Run, Listen, RunFails, Shutdown, Drained, DrainTimesOut, Exit, ProcessTyped
  <2>4. CASE ListenerBreaks \/ Signal
    BY <2>4 DEF ListenerBreaks, Signal, ProcessTyped
  <2>5. CASE Tick
    <3>1. drain' \in 0..Drain
      BY <2>5, ServerAssumption DEF Tick, ProcessTyped
    <3> QED
      BY <2>5, <3>1 DEF Tick, ProcessTyped
  <2>6. CASE UNCHANGED vars
    BY <2>1, <2>6 DEF vars, process
  <2> QED
    BY <2>2, <2>3, <2>4, <2>5, <2>6 DEF Next
<1> QED
  BY <1>1, <1>2, PTL DEF Spec

\* A step that answers no host keeps the sizes.
LEMMA SameSize ==
  ASSUME AllSized, \A r \in Requests : req'[r].got = req[r].got /\ req'[r].rows = req[r].rows
  PROVE  AllSized'
BY DEF AllSized, Sized

LEMMA HostSized == ASSUME IInv, AllSized, NEW r \in Requests, Classify(r) PROVE AllSized'
<1> DEFINE q == req[r]
           k == Len(q.got) + 1
           wanted(cc) == cc = Err \/ q.ask.filter \in {NoCC, cc}
<1>1. PICK cc \in Answer :
        req' = [req EXCEPT ![r] =
          [q EXCEPT !.got = Append(q.got, cc),
                    !.rows = IF wanted(cc) THEN Append(q.rows, [host |-> k, cc |-> cc])
                             ELSE q.rows]]
  BY DEF Classify
<1>2. /\ q \in Req /\ req \in [Requests -> Req] /\ Sized(q)
      /\ k <= q.ask.hosts /\ q.ask.hosts \in 0..MaxBatch
  BY Numbers DEF IInv, Classify, RequestTyped, AllSized, Acceptable
<1>3. q.got \in Seq(Answer) /\ q.rows \in Seq(Row)
  BY <1>2 DEF Req
<1> DEFINE new == req'[r]
           row == [host |-> k, cc |-> cc]
<1>4. /\ new.got = Append(q.got, cc)
      /\ new.rows = IF wanted(cc) THEN Append(q.rows, row) ELSE q.rows
  BY <1>1, <1>2 DEF Req
<1>5. \A s \in Requests : s # r => req'[s] = req[s]
  BY <1>1, <1>2
<1>6. row \in Row /\ Len(q.got) \in Nat /\ Len(q.rows) \in Nat
  <2> HIDE DEF q
  <2>1. Len(q.got) \in Nat /\ Len(q.rows) \in Nat
    BY <1>3, LenProperties
  <2> QED
    BY <1>2, <2>1, Numbers DEF Row
<1> HIDE DEF wanted, row, new, q
<1>7. Len(new.got) = k
  BY <1>3, <1>4, AppendFacts
<1>8. Len(new.rows) \in {Len(q.rows), Len(q.rows) + 1}
  <2>1. CASE wanted(cc)
    BY <1>3, <1>4, <1>6, <2>1, AppendFacts
  <2>2. CASE ~ wanted(cc)
    BY <1>4, <2>2
  <2> QED
    BY <2>1, <2>2
<1>9. Sized(new)
  BY <1>2, <1>6, <1>7, <1>8, Numbers DEF Sized
<1> QED
  BY <1>5, <1>9 DEF AllSized, Sized, new

LEMMA SizeInvariance == Spec => []AllSized
<1>1. Init => AllSized
  <2> SUFFICES ASSUME Init, NEW r \in Requests PROVE Sized(req[r])
    BY DEF AllSized
  <2>1. req[r].got = <<>> /\ req[r].rows = <<>>
    BY DEF Init
  <2>2. Len(req[r].got) = 0 /\ Len(req[r].rows) = 0
    BY <2>1, EmptySeq
  <2> QED
    BY <2>2, Numbers DEF Sized
<1>2. IInv /\ AllSized /\ [Next]_vars => AllSized'
  <2> SUFFICES ASSUME IInv, AllSized, [Next]_vars PROVE AllSized'
    OBVIOUS
  <2>0. req \in [Requests -> Req]
    BY DEF IInv, RequestTyped
  <2>1. CASE UNCHANGED req
    BY <2>1, SameSize
  <2>2. ASSUME NEW r \in Requests, Handle(r), ~ Classify(r) PROVE AllSized'
    <3>1. CASE Accept(r) \/ GetBucket(r) \/ Allow(r)
      <4>1. PICK pc \in {"limiter", "allow", "handling"} : req' = [req EXCEPT ![r].pc = pc]
        BY <3>1 DEF Accept, GetBucket, Allow
      <4> QED
        BY <2>0, <4>1, SameSize DEF Req
    <3>2. CASE Refuse(r) \/ Reject(r) \/ Respond(r)
      <4>1. PICK status \in {"limited", "error", "ok"} : End(r, status)
        BY <3>2 DEF Refuse, Reject, Respond
      <4> QED
        BY <2>0, <4>1, SameSize DEF End, Req
    <3> QED
      BY <2>2, <3>1, <3>2 DEF Handle
  <2>3. ASSUME NEW c, Exit(c) PROVE AllSized'
    <3>1. \A r \in Requests :
            req'[r] = IF Active(r) THEN [req[r] EXCEPT !.pc = "cut"] ELSE req[r]
      BY <2>3 DEF Exit
    <3> QED
      BY <2>0, <3>1, SameSize DEF Req
  <2>4. CASE Run
    BY <2>1, <2>3, <2>4 DEF Run, Listen, RunFails, Shutdown, Drained, DrainTimesOut
  <2>5. CASE ListenerBreaks \/ Signal \/ Tick \/ UNCHANGED vars
    BY <2>1, <2>5 DEF ListenerBreaks, Signal, Tick, vars
  <2>6. CASE \E r \in Requests : Handle(r)
    BY <2>2, <2>6, HostSized
  <2> QED
    BY <2>4, <2>5, <2>6 DEF Next
<1> QED
  BY <1>1, <1>2, Invariance, PTL DEF Spec

\* A short sequence is one of those that a request may have.
LEMMA ShortIsUpTo ==
  ASSUME NEW S, NEW x \in Seq(S), NEW n \in Nat, Len(x) <= n
  PROVE  x \in UpTo(n, S)
<1>1. Len(x) \in 0..n /\ x \in [1..Len(x) -> S]
  BY LenProperties
<1> QED
  BY <1>1 DEF UpTo

----------------------------------------------------------------------------
(* The theorems.                                                           *)

\* Every variable keeps its type; a request has no more answers than a batch may
\* have hosts, and no more rows than answers.
THEOREM TypeCorrect == Spec => []TypeOK
<1>1. IInv /\ ProcessTyped /\ AllSized => TypeOK
  <2> SUFFICES ASSUME IInv, ProcessTyped, AllSized PROVE TypeOK
    OBVIOUS
  <2>1. ASSUME NEW r \in Requests PROVE req[r] \in Request
    <3>1. /\ req[r] \in Req /\ Sized(req[r])
      BY DEF IInv, RequestTyped, AllSized
    <3>2. req[r].got \in Seq(Answer) /\ req[r].rows \in Seq(Row)
      BY <3>1 DEF Req
    <3>3. Len(req[r].got) \in Nat /\ Len(req[r].rows) \in Nat
      BY <3>2, LenProperties
    <3>4. Len(req[r].got) <= MaxBatch /\ Len(req[r].rows) <= MaxBatch
      BY <3>1, <3>3, Numbers DEF Sized
    <3>5. req[r].got \in UpTo(MaxBatch, Answer) /\ req[r].rows \in UpTo(MaxBatch, Row)
      BY <3>2, <3>4, Numbers, ShortIsUpTo
    <3> QED
      BY <3>1, <3>5 DEF Req, Request
  <2>2. req \in [Requests -> Request]
    BY <2>1 DEF IInv, RequestTyped
  <2> QED
    BY <2>2 DEF IInv, LimitsTyped, ProcessTyped, TypeOK
<1> QED
  BY <1>1, Invariance, ProcessInvariance, SizeInvariance, PTL

\* A client is let through no more often than its bucket and the time allow,
\* however its requests interleave in rateLimiter.
THEOREM LimiterHolds == Spec => []WithinBudget
<1>1. IInv => WithinBudget
  BY Numbers DEF IInv, LimitsTyped, FreshClients, Account, WithinBudget, NoBucket
<1> QED
  BY <1>1, Invariance, PTL

\* A client is refused only after a full bucket of its own requests.
THEOREM LimiterIsFair == Spec => []RefusedAfterBurst
<1>1. IInv => RefusedAfterBurst
  BY DEF IInv
<1> QED
  BY <1>1, Invariance, PTL

\* A process that exits with 0 has cut off no request.
THEOREM CleanExit == Spec => []ExitZeroIsClean
<1>1. IInv => ExitZeroIsClean
  BY DEF IInv, CutAtTheEnd, ExitZeroIsClean
<1> QED
  BY <1>1, Invariance, PTL

\* An answered batch misses no host that the filter wants, and keeps their order.
THEOREM BatchesAreWhole == Spec => []BatchIsComplete
<1>1. IInv /\ Batches => BatchIsComplete
  <2> SUFFICES ASSUME IInv, Batches, NEW r \in Requests,
                      req[r].pc = "answered", req[r].status = "ok"
               PROVE  /\ \A i, j \in DOMAIN req[r].rows :
                           i < j => req[r].rows[i].host < req[r].rows[j].host
                      /\ \A k \in 1..req[r].ask.hosts :
                           Dropped(req[r], k)
                             <=> (\A i \in DOMAIN req[r].rows : req[r].rows[i].host # k)
    BY DEF BatchIsComplete, Dropped
  <2>1. req[r].rows \in Seq(Row)
    BY DEF IInv, RequestTyped, Req
  <2>2. DOMAIN req[r].rows = 1..Len(req[r].rows)
    BY <2>1, LenProperties
  <2>3. RowsFollow(req[r]) /\ Len(req[r].got) = req[r].ask.hosts
    BY DEF Batches, AnsweredWhole
  <2> QED
    BY <2>2, <2>3 DEF RowsFollow
<1> QED
  BY <1>1, Invariance, BatchInvariance, PTL
=============================================================================
