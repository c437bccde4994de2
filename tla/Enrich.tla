------------------------------- MODULE Enrich -------------------------------
(***************************************************************************)
(* Lookup of the five cached sources (tlscert, ctlog, contentscan, rdap,   *)
(* wayback), which are the same program around five different fetches:     *)
(* the source's DiskCache is read, a miss asks the source, and whatever    *)
(* comes back, a failure included, is written to the cache for the TTL.    *)
(* Several `check` processes share the directory; each cache has a mutex   *)
(* of its own process, and os.WriteFile truncates the file before it       *)
(* writes it.                                                              *)
(*                                                                         *)
(* One host.  The source has up to two documents about it, each with a     *)
(* country or without: the certificates of the CT log, the registry's and  *)
(* the registrar's records, the https and the http page, the archived http *)
(* and https page.                                                         *)
(***************************************************************************)
EXTENDS Naturals

CONSTANTS
  Processes,   \* processes that share the cache directory
  Countries,
  NoCC,        \* "", no country
  NoDoc,       \* no document: an empty body, a status that is an error, nothing archived
  TTL,         \* ticks an entry is valid
  MaxLag,      \* ticks a lookup can take: the client's timeout
  MaxFaults,   \* bound: failed requests and killed processes
  MaxChanges   \* bound: changes of what the source has

ASSUME EnrichAssumption ==
  /\ NoCC \notin Countries
  /\ NoDoc \notin Countries \cup {NoCC}
  /\ {TTL, MaxLag, MaxFaults, MaxChanges} \subseteq Nat
  /\ MaxLag <= TTL                  \* seconds, and days

VARIABLES
  kind,        \* which of the sources
  docs,        \* what the source has about the host now
  file,        \* the cache file
  call,        \* call[p]: where p is in Lookup
  answer,      \* answer[p]: what p's last Lookup returned, or will once it has cached it
  said,        \* history: ticks since the source gave this answer
  faults,
  changes

vars == <<kind, docs, file, call, answer, said, faults, changes>>

----------------------------------------------------------------------------
Kinds == {"tls", "ctlog", "scan", "rdap", "wayback"}
CC == Countries \cup {NoCC}

Documents == [1..2 -> CC \cup {NoDoc}]

Ages == 0..TTL + 1                  \* older is all the same
Never == TTL + MaxLag + 1           \* not in this long, or never

\* empty: truncated and not yet written; torn: not a JSON document.
File == [state : {"none", "empty", "torn", "entry"}, cc : CC, age : Ages]

\* lag: ticks since the source answered; stamp: ticks since FetchedAt.
Call == [pc : {"idle", "ask", "put", "write"}, cc : CC,
         lag : 0..MaxLag, stamp : 0..MaxLag]

NoEntry(s) == [state |-> s, cc |-> NoCC, age |-> 0]
Idle == [pc |-> "idle", cc |-> NoCC, lag |-> 0, stamp |-> 0]

Init ==
  /\ kind \in Kinds
  /\ docs \in Documents
  /\ file = NoEntry("none")
  /\ call = [p \in Processes |-> Idle]
  /\ answer = [p \in Processes |-> NoCC]
  /\ said = [c \in CC |-> Never]
  /\ faults = 0
  /\ changes = 0

----------------------------------------------------------------------------
(* What each fetch makes of the source's documents, when request i fails   *)
(* unless ok[i]; request 0 is a search that comes before the documents.  A *)
(* failed request is no document.                                          *)

Got(d, ok, i) == IF ok[i] THEN d[i] ELSE NoDoc

Country(doc) == IF doc = NoDoc THEN NoCC ELSE doc

\* tlscert.dial: one handshake.
DialReply(d, ok) == Country(Got(d, ok, 1))

\* rdap.fetch: the registry's record, and if that has no country, the record of
\* the registrar it links to.
RdapReply(d, ok) ==
  IF Got(d, ok, 1) = NoCC THEN Country(Got(d, ok, 2)) ELSE Country(Got(d, ok, 1))

\* ctlog.scan: the oldest certificate with a country; one that cannot be
\* fetched is passed over.
CtlogReply(d, ok) ==
  LET certs == {i \in 1..2 : ok[0] /\ Got(d, ok, i) \in Countries}
  IN  IF certs = {} THEN NoCC ELSE d[CHOOSE i \in certs : \A j \in certs : i <= j]

\* contentscan.scan: the https page, or the http page if there is none; a page
\* without a country is a page.
ScanReply(d, ok) ==
  IF Got(d, ok, 1) = NoDoc THEN Country(Got(d, ok, 2)) ELSE Country(Got(d, ok, 1))

\* wayback.lookup: the archived http page, or the archived https page if the
\* search finds none; a page that was found and cannot be fetched is not made
\* up for.
WaybackReply(d, ok) ==
  IF ok[0] /\ d[1] # NoDoc THEN Country(Got(d, ok, 1)) ELSE Country(Got(d, ok, 2))

Reply(ok) ==
  CASE kind = "tls"     -> DialReply(docs, ok)
    [] kind = "rdap"    -> RdapReply(docs, ok)
    [] kind = "ctlog"   -> CtlogReply(docs, ok)
    [] kind = "scan"    -> ScanReply(docs, ok)
    [] kind = "wayback" -> WaybackReply(docs, ok)

AllOk == [i \in 0..2 |-> TRUE]

----------------------------------------------------------------------------
(* Lookup.                                                                 *)

Hit == file.state = "entry" /\ file.age <= TTL

\* Faulty variant: a hit makes the entry new again.
GetTouching(p) ==
  /\ call[p].pc = "idle"
  /\ IF Hit
     THEN /\ answer' = [answer EXCEPT ![p] = file.cc]
          /\ file' = [file EXCEPT !.age = 0]
          /\ UNCHANGED call
     ELSE call' = [call EXCEPT ![p].pc = "ask"] /\ UNCHANGED <<answer, file>>
  /\ UNCHANGED <<kind, docs, said, faults, changes>>

\* Faulty variant: the TTL is not looked at.
GetForever(p) ==
  /\ call[p].pc = "idle"
  /\ IF file.state = "entry"
     THEN answer' = [answer EXCEPT ![p] = file.cc] /\ UNCHANGED call
     ELSE call' = [call EXCEPT ![p].pc = "ask"] /\ UNCHANGED answer
  /\ UNCHANGED <<kind, docs, file, said, faults, changes>>

\* Cache.Get: a valid entry is the answer; a missing, torn or expired one is a
\* miss.
Get(p) ==
  /\ call[p].pc = "idle"
  /\ IF Hit
     THEN answer' = [answer EXCEPT ![p] = file.cc] /\ UNCHANGED call
     ELSE call' = [call EXCEPT ![p].pc = "ask"] /\ UNCHANGED answer
  /\ UNCHANGED <<kind, docs, file, said, faults, changes>>

\* The answer, and with it the process's next step.
Answered(p, cc) ==
  /\ answer' = [answer EXCEPT ![p] = cc]
  /\ call' = [call EXCEPT ![p] = [pc |-> "put", cc |-> cc, lag |-> 0, stamp |-> 0]]
  /\ UNCHANGED <<kind, docs, file, changes>>

\* Faulty variant: a Subject.Country of any length is taken for a country.
AskUnchecked(p) ==
  /\ call[p].pc = "ask"
  /\ Answered(p, "Indonesia")
  /\ UNCHANGED <<said, faults>>

\* The source is asked, and all its requests succeed.
Ask(p) ==
  /\ call[p].pc = "ask"
  /\ Answered(p, Reply(AllOk))
  /\ said' = [said EXCEPT ![Reply(AllOk)] = 0]
  /\ UNCHANGED faults

\* Some request fails or times out (ctlog gives up when its time is over).  The
\* error is dropped: no country is what Lookup sees, or another document's.
AskFails(p) ==
  /\ call[p].pc = "ask"
  /\ faults < MaxFaults
  /\ \E ok \in [0..2 -> BOOLEAN] \ {AllOk} :
       \E cc \in {Reply(ok), NoCC} :
         /\ Answered(p, cc)
         /\ said' = IF cc = NoCC THEN said ELSE [said EXCEPT ![cc] = 0]
  /\ faults' = faults + 1

\* Cache.Put: the entry is marshalled with its FetchedAt, and os.WriteFile
\* truncates the file,
Truncate(p) ==
  /\ call[p].pc = "put"
  /\ file' = NoEntry("empty")
  /\ call' = [call EXCEPT ![p] = [@ EXCEPT !.pc = "write", !.stamp = 0]]
  /\ UNCHANGED <<kind, docs, answer, said, faults, changes>>

\* and writes it.  Over another process's longer entry, which was written after
\* this one truncated, it leaves that entry's tail: not a document any more.
Write(p) ==
  /\ call[p].pc = "write"
  /\ \/ file' = [state |-> "entry", cc |-> call[p].cc, age |-> call[p].stamp]
     \/ file.state \in {"torn", "entry"} /\ file' = NoEntry("torn")
  /\ call' = [call EXCEPT ![p] = Idle]
  /\ UNCHANGED <<kind, docs, answer, said, faults, changes>>

\* The process is killed, or a write fails (the error is ignored).
Kill(p) ==
  /\ call[p].pc # "idle"
  /\ faults < MaxFaults
  /\ call' = [call EXCEPT ![p] = Idle]
  /\ \/ UNCHANGED file
     \/ call[p].pc = "write" /\ file' = NoEntry("torn")
  /\ faults' = faults + 1
  /\ UNCHANGED <<kind, docs, answer, said, changes>>

----------------------------------------------------------------------------
(* The world.                                                              *)

Older(age, limit) == IF age < limit THEN age + 1 ELSE limit

\* Time passes; a lookup does not outlast its timeout.
Tick ==
  /\ \A p \in Processes : call[p].pc \in {"put", "write"} => call[p].lag < MaxLag
  /\ file' = IF file.state = "entry"
             THEN [file EXCEPT !.age = Older(file.age, TTL + 1)] ELSE file
  /\ call' = [p \in Processes |->
       CASE call[p].pc = "put"   -> [call[p] EXCEPT !.lag = @ + 1]
         [] call[p].pc = "write" -> [call[p] EXCEPT !.lag = @ + 1, !.stamp = @ + 1]
         [] OTHER                -> call[p]]
  /\ said' = [c \in CC |-> Older(said[c], Never)]
  /\ UNCHANGED <<kind, docs, answer, faults, changes>>

\* The host gets another certificate, page or registrant.
Change ==
  /\ changes < MaxChanges
  /\ docs' \in Documents
  /\ changes' = changes + 1
  /\ UNCHANGED <<kind, file, call, answer, said, faults>>

----------------------------------------------------------------------------
Lookup(p) == Get(p) \/ Ask(p) \/ Truncate(p) \/ Write(p)

Next ==
  \/ \E p \in Processes : Lookup(p) \/ AskFails(p) \/ Kill(p)
  \/ Tick
  \/ Change

Spec == Init /\ [][Next]_vars

\* Hosts are looked up again and again, lookups end, and time passes.
FairSpec == Spec /\ WF_vars(Tick) /\ \A p \in Processes : WF_vars(Lookup(p))

----------------------------------------------------------------------------
(* Properties.                                                             *)

TypeOK ==
  /\ kind \in Kinds
  /\ docs \in Documents
  /\ file \in File
  /\ call \in [Processes -> Call]
  /\ answer \in [Processes -> CC]
  /\ said \in [CC -> 0..Never]
  /\ faults \in Nat
  /\ changes \in Nat

\* A valid entry with country c means that the source gave the answer c, not
\* longer ago than the entry's age and the time a lookup takes, whatever order
\* the processes' truncations and writes came in.
EntryWasSaid(c) == Hit /\ file.cc = c => said[c] <= file.age + MaxLag

CountriesWereSaid == \A c \in Countries : EntryWasSaid(c)

\* When the source stops changing and failing, every process comes to answer
\* with what the source says: no entry, negative, torn or wrong, stays.
AnswersCatchUp == \A p \in Processes : <>[](answer[p] = Reply(AllOk))

=============================================================================
