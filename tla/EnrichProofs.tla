---------------------------- MODULE EnrichProofs ----------------------------
(***************************************************************************)
(* For any number of processes, countries and ticks: a country that the    *)
(* cache gives for a host is one the source gave for it, recently enough.  *)
(*                                                                         *)
(* A process carries its answer from the source to the file (Carried); an  *)
(* entry that no reader would take any more promises nothing (Kept).       *)
(***************************************************************************)
EXTENDS Enrich, TLAPS

\* What a process is about to cache was said while it has been at it, and its
\* FetchedAt is not older than that.
Carried ==
  \A p \in Processes : call[p].pc \in {"put", "write"} =>
    /\ call[p].stamp <= call[p].lag
    /\ call[p].cc \in Countries => said[call[p].cc] <= call[p].lag

\* What is in the file and has not expired was said.
Kept ==
  file.state = "entry" /\ file.age <= TTL /\ file.cc \in Countries =>
    said[file.cc] <= file.age + MaxLag

IInv == TypeOK /\ Carried /\ Kept

----------------------------------------------------------------------------
\* What the assumption says of the numbers.
LEMMA Numbers ==
  /\ TTL \in Nat /\ MaxLag \in 0..TTL /\ MaxFaults \in Nat /\ MaxChanges \in Nat
  /\ NoCC \notin Countries /\ NoDoc \notin Countries \cup {NoCC}
BY EnrichAssumption

\* Every source's reply is a country of one of its documents, or none.
LEMMA ReplyIsCC ==
  ASSUME TypeOK, NEW ok \in [0..2 -> BOOLEAN]
  PROVE  Reply(ok) \in CC
<1>1. /\ docs[1] \in CC \cup {NoDoc} /\ docs[2] \in CC \cup {NoDoc}
      /\ NoCC \in CC /\ kind \in Kinds /\ Countries \subseteq CC
  BY DEF TypeOK, Documents, CC
<1>2. \A i \in 1..2 : Country(Got(docs, ok, i)) \in CC
  BY <1>1 DEF Got, Country
<1>3. /\ DialReply(docs, ok) \in CC /\ RdapReply(docs, ok) \in CC
      /\ ScanReply(docs, ok) \in CC /\ WaybackReply(docs, ok) \in CC
  BY <1>2 DEF DialReply, RdapReply, ScanReply, WaybackReply
<1>4. CtlogReply(docs, ok) \in CC
  <2> DEFINE certs == {i \in 1..2 : ok[0] /\ Got(docs, ok, i) \in Countries}
             oldest == CHOOSE i \in certs : \A j \in certs : i <= j
  <2>1. CASE certs = {}
    BY <1>1, <2>1 DEF CtlogReply
  <2>2. CASE certs # {}
    <3>1. \E i \in certs : \A j \in certs : i <= j
      BY <2>2
    <3>2. oldest \in certs
      BY <3>1
    <3>3. CtlogReply(docs, ok) = docs[oldest]
      BY <2>2 DEF CtlogReply
    <3> HIDE DEF oldest
    <3>4. Got(docs, ok, oldest) \in Countries
      BY <3>2
    <3>5. Got(docs, ok, oldest) = docs[oldest]
      BY <3>4, Numbers DEF Got
    <3> QED
      BY <1>1, <3>3, <3>4, <3>5
  <2> QED
    BY <2>1, <2>2
<1> QED
  BY <1>1, <1>3, <1>4 DEF Reply, Kinds

LEMMA AllOkTyped == AllOk \in [0..2 -> BOOLEAN]
BY DEF AllOk

\* A process's call has its type, and the ones that are reset to.
LEMMA IdleTyped == Idle \in Call
BY Numbers DEF Idle, Call, CC

LEMMA NoEntryTyped ==
  ASSUME NEW s \in {"none", "empty", "torn"}
  PROVE  NoEntry(s) \in File /\ NoEntry(s).state # "entry"
BY Numbers DEF NoEntry, File, CC, Ages

\* Truncate's new call, and a writer's after a tick.
LEMMA CallFields ==
  ASSUME NEW x \in Call
  PROVE  /\ \A y : y = [x EXCEPT !.pc = "write", !.stamp = 0] =>
              y \in Call /\ y.pc = "write" /\ y.cc = x.cc /\ y.lag = x.lag /\ y.stamp = 0
         /\ \A y : y = [x EXCEPT !.lag = @ + 1, !.stamp = @ + 1] =>
              /\ y.pc = x.pc /\ y.cc = x.cc /\ y.lag = x.lag + 1 /\ y.stamp = x.stamp + 1
              /\ x.lag < MaxLag /\ x.stamp < MaxLag => y \in Call
<1> USE Numbers
<1>1. ASSUME NEW y, y = [x EXCEPT !.pc = "write", !.stamp = 0]
      PROVE  y \in Call /\ y.pc = "write" /\ y.cc = x.cc /\ y.lag = x.lag /\ y.stamp = 0
  <2>1. y = [pc |-> y.pc, cc |-> y.cc, lag |-> y.lag, stamp |-> y.stamp]
    BY <1>1 DEF Call
  <2>2. y.pc = "write" /\ y.cc = x.cc /\ y.lag = x.lag /\ y.stamp = 0
    BY <1>1 DEF Call
  <2> QED
    BY <2>1, <2>2 DEF Call
<1>2. ASSUME NEW y, y = [x EXCEPT !.lag = @ + 1, !.stamp = @ + 1]
      PROVE  /\ y.pc = x.pc /\ y.cc = x.cc /\ y.lag = x.lag + 1 /\ y.stamp = x.stamp + 1
             /\ x.lag < MaxLag /\ x.stamp < MaxLag => y \in Call
  <2>1. y = [pc |-> y.pc, cc |-> y.cc, lag |-> y.lag, stamp |-> y.stamp]
    BY <1>2 DEF Call
  <2>2. y.pc = x.pc /\ y.cc = x.cc /\ y.lag = x.lag + 1 /\ y.stamp = x.stamp + 1
    BY <1>2 DEF Call
  <2>3. /\ x.pc \in {"idle", "ask", "put", "write"} /\ x.cc \in CC
        /\ x.lag \in 0..MaxLag /\ x.stamp \in 0..MaxLag
    BY DEF Call
  <2> QED
    BY <2>1, <2>2, <2>3 DEF Call
<1> QED
  BY <1>1, <1>2

----------------------------------------------------------------------------
LEMMA InitIInv == Init => IInv
<1> USE Numbers
<1> SUFFICES ASSUME Init PROVE IInv
  OBVIOUS
<1>1. TypeOK
  BY IdleTyped, NoEntryTyped DEF Init, TypeOK, CC, Never
<1>2. Carried /\ Kept
  BY NoEntryTyped DEF Init, Carried, Kept, Idle
<1> QED
  BY <1>1, <1>2 DEF IInv

\* A step of one process's call that leaves the file alone, and in which `said`
\* only gets better.
LEMMA CallStep ==
  ASSUME IInv, NEW p \in Processes, NEW c \in Call,
         call' = [call EXCEPT ![p] = c],
         answer' \in [Processes -> CC], said' \in [CC -> 0..Never], faults' \in Nat,
         \A d \in CC : said'[d] <= said[d],
         UNCHANGED <<kind, docs, changes, file>>,
         c.pc \in {"put", "write"} =>
           c.stamp <= c.lag /\ (c.cc \in Countries => said'[c.cc] <= c.lag)
  PROVE  IInv'
<1> USE Numbers
<1>1. /\ call' \in [Processes -> Call] /\ call'[p] = c
      /\ \A q \in Processes : q # p => call'[q] = call[q]
  BY DEF IInv, TypeOK
<1>2. TypeOK'
  BY <1>1 DEF IInv, TypeOK
<1>3. /\ \A d \in CC : said[d] \in Nat /\ said'[d] \in Nat
      /\ \A q \in Processes : call[q].lag \in Nat /\ call[q].cc \in CC
      /\ file.age \in Nat /\ file.cc \in CC
  BY DEF IInv, TypeOK, Call, File, Never, Ages
<1>4. Carried'
  BY <1>1, <1>3 DEF IInv, Carried
<1>5. Kept'
  BY <1>3 DEF IInv, Kept
<1> QED
  BY <1>2, <1>4, <1>5 DEF IInv

\* A step that writes the file, and ends the call or moves it on.
LEMMA FileStep ==
  ASSUME IInv, NEW p \in Processes, NEW c \in Call, NEW f \in File,
         call' = [call EXCEPT ![p] = c], file' = f, faults' \in Nat,
         UNCHANGED <<kind, docs, changes, said, answer>>,
         c.pc \in {"put", "write"} =>
           c.stamp <= c.lag /\ (c.cc \in Countries => said[c.cc] <= c.lag),
         f.state = "entry" /\ f.age <= TTL /\ f.cc \in Countries =>
           said[f.cc] <= f.age + MaxLag
  PROVE  IInv'
<1>1. /\ call' \in [Processes -> Call] /\ call'[p] = c
      /\ \A q \in Processes : q # p => call'[q] = call[q]
  BY DEF IInv, TypeOK
<1>2. TypeOK'
  BY <1>1 DEF IInv, TypeOK
<1>3. Carried'
  BY <1>1 DEF IInv, Carried
<1>4. Kept'
  BY DEF IInv, Kept
<1> QED
  BY <1>2, <1>3, <1>4 DEF IInv

LEMMA GetKeeps == ASSUME IInv, NEW p \in Processes, Get(p) PROVE IInv'
<1>1. /\ call[p].pc = "idle" /\ UNCHANGED <<kind, docs, file, said, faults, changes>>
      /\ \/ answer' = [answer EXCEPT ![p] = file.cc] /\ UNCHANGED call
         \/ call' = [call EXCEPT ![p].pc = "ask"] /\ UNCHANGED answer
  BY DEF Get
<1>2. call[p] \in Call /\ file.cc \in CC
  BY DEF IInv, TypeOK, File
<1> DEFINE c == [call[p] EXCEPT !.pc = "ask"]
<1>3. CASE UNCHANGED call
  <2>1. answer' \in [Processes -> CC]
    BY <1>1, <1>2 DEF IInv, TypeOK
  <2> QED
    BY <1>1, <1>3, <2>1 DEF IInv, TypeOK, Carried, Kept
<1>4. CASE call' = [call EXCEPT ![p].pc = "ask"] /\ UNCHANGED answer
  <2>1. c \in Call /\ c.pc = "ask"
    BY <1>2 DEF Call
  <2>2. call' = [call EXCEPT ![p] = c]
    BY <1>4
  <2>3. /\ answer' \in [Processes -> CC] /\ said' \in [CC -> 0..Never] /\ faults' \in Nat
        /\ \A d \in CC : said'[d] <= said[d]
    BY <1>1, <1>4, Numbers DEF IInv, TypeOK, Never
  <2> HIDE DEF c
  <2> QED
    BY <1>1, <2>1, <2>2, <2>3, CallStep
<1> QED
  BY <1>1, <1>3, <1>4

\* The source has answered cc; unless that is no country, it has said so now.
LEMMA AnsweredKeeps ==
  ASSUME IInv, NEW p \in Processes, NEW cc \in CC, Answered(p, cc), faults' \in Nat,
         said' = [said EXCEPT ![cc] = 0] \/ (cc = NoCC /\ said' = said)
  PROVE  IInv'
<1> USE Numbers
<1> DEFINE c == [pc |-> "put", cc |-> cc, lag |-> 0, stamp |-> 0]
<1>1. /\ answer' = [answer EXCEPT ![p] = cc] /\ call' = [call EXCEPT ![p] = c]
      /\ UNCHANGED <<kind, docs, file, changes>>
  BY DEF Answered
<1>2. c \in Call
  BY DEF Call
<1>3. c.cc = cc /\ c.lag = 0 /\ c.stamp = 0
  OBVIOUS
<1>4. answer' \in [Processes -> CC]
  BY <1>1 DEF IInv, TypeOK
<1>5. /\ said' \in [CC -> 0..Never] /\ \A d \in CC : said'[d] <= said[d]
      /\ cc \in Countries => said'[cc] <= 0
  BY DEF IInv, TypeOK, Never
<1>6. c.stamp <= c.lag /\ (c.cc \in Countries => said'[c.cc] <= c.lag)
  BY <1>3, <1>5
<1> HIDE DEF c
<1> QED
  BY <1>1, <1>2, <1>4, <1>5, <1>6, CallStep

LEMMA AskKeeps == ASSUME IInv, NEW p \in Processes, Ask(p) PROVE IInv'
<1>1. Reply(AllOk) \in CC
  BY ReplyIsCC, AllOkTyped DEF IInv
<1>2. faults' \in Nat
  BY DEF IInv, TypeOK, Ask
<1> DEFINE r == Reply(AllOk)
<1>3. Answered(p, r) /\ said' = [said EXCEPT ![r] = 0] /\ r \in CC
  BY <1>1 DEF Ask
<1> HIDE DEF r
<1> QED
  BY <1>2, <1>3, AnsweredKeeps

LEMMA AskFailsKeeps == ASSUME IInv, NEW p \in Processes, AskFails(p) PROVE IInv'
<1>1. PICK ok \in [0..2 -> BOOLEAN] \ {AllOk} : \E cc \in {Reply(ok), NoCC} :
        /\ Answered(p, cc)
        /\ said' = IF cc = NoCC THEN said ELSE [said EXCEPT ![cc] = 0]
  BY DEF AskFails
<1>2. PICK cc \in {Reply(ok), NoCC} :
        /\ Answered(p, cc)
        /\ said' = IF cc = NoCC THEN said ELSE [said EXCEPT ![cc] = 0]
  BY <1>1
<1>3. cc \in CC
  BY ReplyIsCC DEF IInv, CC
<1>4. faults' \in Nat
  BY DEF IInv, TypeOK, AskFails
<1>5. said' = [said EXCEPT ![cc] = 0] \/ (cc = NoCC /\ said' = said)
  BY <1>2
<1> QED
  BY <1>2, <1>3, <1>4, <1>5, AnsweredKeeps

LEMMA TruncateKeeps == ASSUME IInv, NEW p \in Processes, Truncate(p) PROVE IInv'
<1> USE Numbers
<1> DEFINE c == [call[p] EXCEPT !.pc = "write", !.stamp = 0]
           f == NoEntry("empty")
<1>1. /\ call[p].pc = "put" /\ file' = f /\ call' = [call EXCEPT ![p] = c]
      /\ UNCHANGED <<kind, docs, answer, said, faults, changes>>
  BY DEF Truncate
<1>2. call[p] \in Call
  BY DEF IInv, TypeOK
<1>3. call[p].cc \in CC /\ call[p].lag \in 0..MaxLag
  BY <1>2 DEF Call
<1>4. c \in Call /\ c.stamp = 0 /\ c.lag = call[p].lag /\ c.cc = call[p].cc
  BY <1>2, CallFields
<1>5. f \in File /\ f.state # "entry"
  BY NoEntryTyped
<1>6. call[p].cc \in Countries => said[call[p].cc] <= call[p].lag
  BY <1>1 DEF IInv, Carried
<1>7. faults' \in Nat
  BY <1>1 DEF IInv, TypeOK
<1> HIDE DEF c, f
<1>8. c.stamp <= c.lag /\ (c.cc \in Countries => said[c.cc] <= c.lag)
  BY <1>3, <1>4, <1>6
<1> QED
  BY <1>1, <1>4, <1>5, <1>7, <1>8, FileStep

LEMMA WriteKeeps == ASSUME IInv, NEW p \in Processes, Write(p) PROVE IInv'
<1> USE Numbers
<1> DEFINE e == [state |-> "entry", cc |-> call[p].cc, age |-> call[p].stamp]
<1>1. /\ call[p].pc = "write" /\ call' = [call EXCEPT ![p] = Idle]
      /\ file' = e \/ file' = NoEntry("torn")
      /\ UNCHANGED <<kind, docs, answer, said, faults, changes>>
  BY DEF Write
<1>2. call[p] \in Call /\ Idle \in Call /\ Idle.pc = "idle" /\ faults' \in Nat
  BY <1>1, IdleTyped DEF IInv, TypeOK, Idle
<1>3. CASE file' = NoEntry("torn")
  <2>1. NoEntry("torn") \in File /\ NoEntry("torn").state # "entry"
    BY NoEntryTyped
  <2> QED
    BY <1>1, <1>2, <1>3, <2>1, FileStep
<1>4. CASE file' = e
  <2>1. /\ call[p].lag \in 0..MaxLag /\ call[p].stamp \in 0..MaxLag /\ call[p].cc \in CC
        /\ call[p].stamp <= call[p].lag
        /\ call[p].cc \in Countries => said[call[p].cc] <= call[p].lag
    BY <1>1, <1>2 DEF IInv, Carried, Call
  <2>2. call[p].cc \in Countries => said[call[p].cc] \in Nat
    BY <2>1 DEF IInv, TypeOK, CC, Never
  <2>3. e.state = "entry" /\ e.cc = call[p].cc /\ e.age = call[p].stamp
    OBVIOUS
  <2>4. e \in File
    BY <2>1 DEF File, Ages
  <2>5. e.cc \in Countries => said[e.cc] <= e.age + MaxLag
    BY <2>1, <2>2, <2>3
  <2> HIDE DEF e
  <2> QED
    BY <1>1, <1>2, <1>4, <2>4, <2>5, FileStep
<1> QED
  BY <1>1, <1>3, <1>4

LEMMA KillKeeps == ASSUME IInv, NEW p \in Processes, Kill(p) PROVE IInv'
<1>1. /\ call' = [call EXCEPT ![p] = Idle]
      /\ file' = file \/ file' = NoEntry("torn")
      /\ faults' = faults + 1 /\ UNCHANGED <<kind, docs, answer, said, changes>>
  BY DEF Kill
<1>2. Idle \in Call /\ Idle.pc = "idle" /\ faults' \in Nat
  BY <1>1, IdleTyped DEF IInv, TypeOK, Idle
<1>3. PICK f \in File : file' = f /\ (f = file \/ f.state # "entry")
  BY <1>1, NoEntryTyped DEF IInv, TypeOK
<1>4. f.state = "entry" /\ f.age <= TTL /\ f.cc \in Countries => said[f.cc] <= f.age + MaxLag
  BY <1>3 DEF IInv, Kept
<1> QED
  BY <1>1, <1>2, <1>3, <1>4, FileStep

\* Every age grows by one, up to where it does not matter any more.
LEMMA TickKeeps == ASSUME IInv, Tick PROVE IInv'
<1> USE Numbers
<1>1. /\ \A p \in Processes : call[p].pc \in {"put", "write"} => call[p].lag < MaxLag
      /\ file' = IF file.state = "entry"
                  THEN [file EXCEPT !.age = Older(file.age, TTL + 1)] ELSE file
      /\ call' = [p \in Processes |->
           CASE call[p].pc = "put"   -> [call[p] EXCEPT !.lag = @ + 1]
             [] call[p].pc = "write" -> [call[p] EXCEPT !.lag = @ + 1, !.stamp = @ + 1]
             [] OTHER                -> call[p]]
      /\ said' = [c \in CC |-> Older(said[c], Never)]
      /\ UNCHANGED <<kind, docs, answer, faults, changes>>
  BY DEF Tick
<1>2. /\ file \in File /\ call \in [Processes -> Call] /\ said \in [CC -> 0..Never]
      /\ Countries \subseteq CC
  BY DEF IInv, TypeOK, CC
<1>3. said' \in [CC -> 0..Never] /\ \A c \in CC : said'[c] <= said[c] + 1 /\ said[c] \in Nat
  <2>1. \A c \in CC : said[c] \in 0..Never /\ Never \in Nat
    BY <1>2 DEF Never
  <2>2. \A c \in CC : Older(said[c], Never) \in 0..Never /\ Older(said[c], Never) <= said[c] + 1
    BY <2>1 DEF Older
  <2>3. \A c \in CC : said'[c] = Older(said[c], Never)
    BY <1>1
  <2>4. said' \in [CC -> 0..Never]
    BY <1>1, <2>2
  <2> QED
    BY <2>1, <2>2, <2>3, <2>4
<1>4. /\ file' \in File /\ file'.cc = file.cc /\ file'.state = file.state
      /\ file.state = "entry" => file'.age = file.age + 1 \/ file'.age = TTL + 1
  <2>1. file.age \in 0..TTL + 1
    BY <1>2 DEF File, Ages
  <2>2. /\ Older(file.age, TTL + 1) \in 0..TTL + 1
        /\ Older(file.age, TTL + 1) = file.age + 1 \/ Older(file.age, TTL + 1) = TTL + 1
    BY <2>1 DEF Older
  <2> QED
    BY <1>1, <1>2, <2>2 DEF File, Ages
<1>5. ASSUME NEW p \in Processes
      PROVE  /\ call'[p] \in Call /\ call'[p].pc = call[p].pc /\ call'[p].cc = call[p].cc
             /\ call[p].pc \in {"put", "write"} =>
                  /\ call'[p].lag = call[p].lag + 1
                  /\ call[p].stamp <= call[p].lag => call'[p].stamp <= call[p].lag + 1
  <2>1. call[p] \in Call
    BY <1>2
  <2>2. call[p].pc \in {"put", "write"} =>
          call[p].lag < MaxLag /\ call[p].stamp <= call[p].lag
    BY <1>1 DEF IInv, Carried
  <2>3. CASE call[p].pc = "put"
    <3>1. call'[p] = [call[p] EXCEPT !.lag = @ + 1]
      BY <1>1, <2>3
    <3>2. call[p].lag + 1 \in 0..MaxLag /\ call[p].stamp \in Nat
      BY <2>1, <2>2, <2>3 DEF Call
    <3> QED
      BY <2>1, <2>2, <2>3, <3>1, <3>2 DEF Call
  <2>4. CASE call[p].pc = "write"
    <3>1. call'[p] = [call[p] EXCEPT !.lag = @ + 1, !.stamp = @ + 1]
      BY <1>1, <2>4
    <3>2. call[p].lag \in Nat /\ call[p].stamp \in Nat
      BY <2>1 DEF Call
    <3>3. call[p].lag < MaxLag /\ call[p].stamp < MaxLag
      BY <2>2, <2>4, <3>2
    <3>4. /\ call'[p] \in Call /\ call'[p].pc = call[p].pc /\ call'[p].cc = call[p].cc
          /\ call'[p].lag = call[p].lag + 1 /\ call'[p].stamp = call[p].stamp + 1
      BY <2>1, <3>1, <3>3, CallFields
    <3> QED
      BY <3>2, <3>4
  <2>5. CASE call[p].pc \notin {"put", "write"}
    BY <1>1, <2>1, <2>5
  <2> QED
    BY <2>3, <2>4, <2>5
<1>6. TypeOK'
  <2>1. call' \in [Processes -> Call]
    BY <1>1, <1>5
  <2> QED
    BY <1>1, <1>3, <1>4, <2>1 DEF IInv, TypeOK
<1>7. Carried'
  <2>1. \A p \in Processes : call[p].lag \in Nat
    BY <1>2 DEF Call
  <2> QED
    BY <1>2, <1>3, <1>5, <2>1 DEF IInv, Carried
<1>8. Kept'
  BY <1>2, <1>3, <1>4 DEF IInv, Kept, File, Ages
<1> QED
  BY <1>6, <1>7, <1>8 DEF IInv

LEMMA ChangeKeeps == ASSUME IInv, Change PROVE IInv'
BY DEF IInv, Change, TypeOK, Carried, Kept

----------------------------------------------------------------------------
(* The theorems.                                                           *)

\* Every step keeps the invariant.
LEMMA StepKeeps == IInv /\ [Next]_vars => IInv'
<1> SUFFICES ASSUME IInv, [Next]_vars PROVE IInv'
  OBVIOUS
<1>1. ASSUME NEW p \in Processes, Lookup(p) PROVE IInv'
  BY <1>1, GetKeeps, AskKeeps, TruncateKeeps, WriteKeeps DEF Lookup
<1>2. ASSUME NEW p \in Processes, AskFails(p) \/ Kill(p) PROVE IInv'
  BY <1>2, AskFailsKeeps, KillKeeps
<1>3. CASE Tick \/ Change
  BY <1>3, TickKeeps, ChangeKeeps
<1>4. CASE UNCHANGED vars
  BY <1>4 DEF vars, IInv, TypeOK, Carried, Kept
<1> QED
  BY <1>1, <1>2, <1>3, <1>4 DEF Next

LEMMA Invariance == Spec => []IInv
BY InitIInv, StepKeeps, PTL DEF Spec

\* Every variable keeps its type, whatever the processes do to the one file.
THEOREM TypeCorrect == Spec => []TypeOK
<1>1. IInv => TypeOK
  BY DEF IInv
<1> QED
  BY <1>1, Invariance, PTL

\* A valid entry of DiskCache holds no country that its source did not give, and
\* none that it gave longer ago than the entry says and a lookup takes.
THEOREM CachedCountriesWereSaid == Spec => []CountriesWereSaid
<1>1. IInv => CountriesWereSaid
  BY DEF IInv, Kept, CountriesWereSaid, EntryWasSaid, Hit
<1> QED
  BY <1>1, Invariance, PTL
=============================================================================
