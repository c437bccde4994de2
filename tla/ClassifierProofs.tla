-------------------------- MODULE ClassifierProofs --------------------------
(***************************************************************************)
(* For any set of countries: what a classification ends with is what was   *)
(* found (the domain's country before the address's, a source's country in *)
(* the source's own field, and none only if there was none).               *)
(*                                                                         *)
(* Each property of the result needs a fact of the ladder before it: past  *)
(* the mismatch layer the domain's and the address's countries are never   *)
(* both known (OneAtMost), and as long as the ladder goes on nothing has   *)
(* been found (Empty).                                                     *)
(*                                                                         *)
(* The order of the lookups needs more: that the layer stands at a place   *)
(* of Ladder, and that the lookups made are the available ones above it    *)
(* (Descent).  The properties of the order follow from that.  DecideAgrees *)
(* follows from what each branch of the ladder knows when it ends without  *)
(* a hit, and from the cases of Decide's table for the same signals.       *)
(***************************************************************************)
EXTENDS Classifier, SequenceTheorems, FiniteSetTheorems, TLAPS

\* The layers that can be reached with both countries known.
Early == {"start", "agree", "mismatch", "done", "rejected"}

\* The layers of an address.
AddressLayers == {"start", "asn", "ip", "done", "rejected"}

\* What the layers say of the input and of DNS.
Placed ==
  /\ q.kind = "ip" => q.domCC = None /\ layer \in AddressLayers
  /\ layer = "ip" => q.kind = "ip"
  /\ layer \in {"start", "rejected"} => ipCC = None
  /\ layer = "start" => ~ dnsFailed
  /\ dnsFailed => ipCC = None
  /\ layer \in {"dnsRdap", "dnsWayback", "dnsDomain"} => dnsFailed

\* No source is asked while the domain and the address may both have a country.
OneAtMost ==
  /\ layer \in {"start", "agree", "mismatch", "rejected"} => asked = <<>>
  /\ layer \notin Early => q.domCC = None \/ ipCC = None
  /\ layer = "mismatch" => q.domCC = None \/ ipCC # q.domCC

\* Nothing has been found as long as the ladder goes on.
Empty ==
  layer # "done" =>
    /\ hits = {}
    /\ result.tier = ""
    /\ \A s \in Sources : result.field[s] = None

IInv ==
  /\ TypeOK
  /\ Placed
  /\ OneAtMost
  /\ Empty
  /\ DomainOverAddress
  /\ EvidenceMatches
  /\ NoSignalLost

----------------------------------------------------------------------------
\* What the assumption says of the countries.
LEMMA CountryFacts == ID \in Countries /\ None \notin Countries
BY CountriesAssumption

\* The tier of a source is a tier, another one for each source, and none of those
\* that are given without a source.
LEMMA TierFacts ==
  /\ \A s \in Sources : TierOf(s) \in Tiers
  /\ \A s, r \in Sources : TierOf(s) = TierOf(r) => s = r
  /\ \A s \in Sources :
       TierOf(s) \notin {"", "high", "medium-domain-id-offshore-host", "medium-domain-cc-mismatch",
                         "medium-generic-tld-id-host", "low-dns-failed", "ip-only", "unknown"}
<1>1. \A s \in Sources : TierOf(s) \in Tiers
  BY DEF Tiers
<1>2. /\ TierOf("asn") = "high-asn-brand" /\ TierOf("tls") = "high-ssl-cert"
      /\ TierOf("ctlog") = "high-ct-log" /\ TierOf("scan") = "high-content-scan"
      /\ TierOf("rdap") = "high-rdap-registrant"
      /\ TierOf("wayback") = "medium-wayback-snapshot"
  BY DEF TierOf
<1>3. Sources = {"asn", "tls", "ctlog", "scan", "rdap", "wayback"}
  BY DEF Sources
<1> QED
  BY <1>1, <1>2, <1>3

\* The tiers that are given without a source are tiers.
LEMMA WeakTiers ==
  {"high", "medium-domain-id-offshore-host", "medium-domain-cc-mismatch",
   "medium-generic-tld-id-host", "low-dns-failed", "ip-only", "unknown"} \subseteq Tiers
BY DEF Tiers

\* The last of a sequence is what was appended to it.
LEMMA AppendLast ==
  ASSUME NEW x \in Seq(Sources \X {"input", "apex"}), NEW e \in Sources \X {"input", "apex"}
  PROVE  /\ Append(x, e) \in Seq(Sources \X {"input", "apex"})
         /\ Last(Append(x, e)) = e
<1> DEFINE y == Append(x, e)
           S == Sources \X {"input", "apex"}
<1> HIDE DEF S
<1>1. y \in Seq(S) /\ Len(y) = Len(x) + 1 /\ y[Len(x) + 1] = e
  BY AppendProperties DEF S
<1> HIDE DEF y
<1>2. y \in Seq(S) /\ Last(y) = e
  BY <1>1 DEF Last
<1> QED
  BY <1>2 DEF y, S

LEMMA InitIInv == Init => IInv
<1> SUFFICES ASSUME Init PROVE IInv
  OBVIOUS
<1>1. asked \in Seq(Sources \X {"input", "apex"})
  BY EmptySeq DEF Init
<1>2. TypeOK
  BY <1>1, CountryFacts DEF Init, TypeOK, Layers, CC
<1>3. Placed /\ OneAtMost /\ Empty /\ DomainOverAddress /\ EvidenceMatches /\ NoSignalLost
  BY DEF Init, Placed, OneAtMost, Empty, DomainOverAddress, EvidenceMatches, NoSignalLost,
     AddressLayers, Early
<1> QED
  BY <1>2, <1>3 DEF IInv

----------------------------------------------------------------------------
(* The three ways a layer can end.                                         *)

\* The ladder goes on.
LEMMA GotoKeeps ==
  ASSUME IInv, layer # "done", NEW l \in Layers \ {"done"}, Goto(l), Placed', OneAtMost'
  PROVE  IInv'
<1>1. /\ layer' = l /\ l # "done"
      /\ UNCHANGED <<q, enabled, dnsFailed, public, ipCC, result, asked, hits>>
  BY DEF Goto, input, found
<1>2. TypeOK'
  BY <1>1 DEF IInv, TypeOK
<1>3. Empty'
  BY <1>1 DEF IInv, Empty
<1>4. DomainOverAddress' /\ EvidenceMatches' /\ NoSignalLost'
  BY <1>1 DEF IInv, DomainOverAddress, EvidenceMatches, NoSignalLost
<1> QED
  BY <1>2, <1>3, <1>4 DEF IInv

\* It ends without a source.
LEMMA FinishKeeps ==
  ASSUME IInv, layer # "done", NEW f \in CC, NEW t, Finish(f, t),
         t \in {"high", "medium-domain-id-offshore-host", "medium-domain-cc-mismatch",
                "medium-generic-tld-id-host", "low-dns-failed", "ip-only", "unknown"},
         f \in {q.domCC, ipCC, None},
         f = None => q.domCC = None /\ ipCC = None,
         f = None <=> t = "unknown",
         q.domCC # None /\ ipCC # None => f = q.domCC /\ (t = "high" <=> ipCC = q.domCC)
  PROVE  IInv'
<1>1. /\ layer' = "done" /\ result' = [final |-> f, tier |-> t, field |-> result.field]
      /\ UNCHANGED <<q, enabled, dnsFailed, public, ipCC, asked, hits>>
  BY DEF Finish, input, found
<1>2. t \in Tiers
  BY WeakTiers
<1>3. result.field \in [Sources -> CC]
  BY DEF IInv, TypeOK
<1>4. result' \in [final : CC, tier : Tiers \cup {""}, field : [Sources -> CC]]
  BY <1>1, <1>2, <1>3
<1>5. TypeOK'
  BY <1>1, <1>4 DEF IInv, TypeOK, Layers
<1>6. Placed' /\ OneAtMost' /\ Empty'
  BY <1>1 DEF IInv, Placed, OneAtMost, Empty, AddressLayers, Early
<1>7. hits = {} /\ \A s \in Sources : result.field[s] = None
  BY DEF IInv, Empty
<1>8. DomainOverAddress'
  BY <1>1 DEF IInv, DomainOverAddress
<1>9. EvidenceMatches'
  BY <1>1, <1>7, TierFacts DEF EvidenceMatches
<1>10. NoSignalLost'
  BY <1>1, <1>7 DEF NoSignalLost
<1> QED
  BY <1>5, <1>6, <1>8, <1>9, <1>10 DEF IInv

\* A source is asked, unless it is not configured.
LEMMA ConsultKeeps ==
  ASSUME IInv, layer # "done", NEW s \in Sources, NEW h \in {"input", "apex"},
         NEW m \in Layers \ Early, NEW t, NEW recorded \in BOOLEAN,
         Consult(s, h, m, t, recorded),
         (recorded /\ t = TierOf(s)) \/ (~ recorded /\ t = ""),
         q.domCC = None \/ ipCC = None,
         q.kind = "ip" => m \in AddressLayers,
         m = "ip" => q.kind = "ip",
         m \in {"dnsRdap", "dnsWayback", "dnsDomain"} => dnsFailed
  PROVE  IInv'
<1>1. UNCHANGED <<q, enabled, dnsFailed, public, ipCC>>
  BY DEF Consult, Goto, input, found
<1>2. m # "done" /\ m \in Layers
  BY DEF Early
<1>3. layer' = m => Placed' /\ OneAtMost'
  BY <1>1 DEF IInv, Placed, OneAtMost, Early
<1>4. CASE Goto(m)
  <2>1. layer' = m
    BY <1>4 DEF Goto
  <2> QED
    BY <1>2, <1>3, <1>4, <2>1, GotoKeeps
<1>5. ASSUME asked' = Append(asked, <<s, h>>),
             \/ layer' = m /\ UNCHANGED <<result, hits>>
             \/ \E cc \in Countries :
                  /\ layer' = "done" /\ hits' = hits \cup {cc}
                  /\ result' = [final |-> cc, tier |-> t,
                                field |-> IF recorded THEN [result.field EXCEPT ![s] = cc]
                                          ELSE result.field]
      PROVE  IInv'
  <2> DEFINE a == <<s, h>>
  <2>1. /\ asked \in Seq(Sources \X {"input", "apex"}) /\ a \in Sources \X {"input", "apex"}
        /\ asked' = Append(asked, a) /\ a[1] = s
    BY <1>5 DEF IInv, TypeOK
  <2> HIDE DEF a
  <2>2. /\ Append(asked, a) \in Seq(Sources \X {"input", "apex"})
        /\ Last(Append(asked, a)) = a
    BY <2>1, AppendLast
  <2>3. asked' \in Seq(Sources \X {"input", "apex"}) /\ Last(asked')[1] = s
    BY <2>1, <2>2
  <2>4. CASE layer' = m /\ UNCHANGED <<result, hits>>
    <3>1. TypeOK'
      BY <1>1, <1>2, <2>3, <2>4 DEF IInv, TypeOK
    <3>2. Empty'
      BY <2>4 DEF IInv, Empty
    <3>3. DomainOverAddress' /\ EvidenceMatches' /\ NoSignalLost'
      BY <1>1, <1>2, <2>4 DEF DomainOverAddress, EvidenceMatches, NoSignalLost
    <3> QED
      BY <1>3, <2>4, <3>1, <3>2, <3>3 DEF IInv
  <2>5. ASSUME NEW cc \in Countries, layer' = "done", hits' = hits \cup {cc},
               result' = [final |-> cc, tier |-> t,
                          field |-> IF recorded THEN [result.field EXCEPT ![s] = cc]
                                    ELSE result.field]
        PROVE  IInv'
    <3> DEFINE field == IF recorded THEN [result.field EXCEPT ![s] = cc] ELSE result.field
    <3>1. cc \in CC /\ cc # None
      BY CountryFacts DEF CC
    <3>2. /\ result.field \in [Sources -> CC] /\ hits = {}
          /\ \A r \in Sources : result.field[r] = None
      BY DEF IInv, TypeOK, Empty
    <3>3. /\ field \in [Sources -> CC]
          /\ \A r \in Sources : field[r] = IF recorded /\ r = s THEN cc ELSE None
      BY <3>1, <3>2
    <3>4. result'.final = cc /\ result'.tier = t /\ result'.field = field
      BY <2>5
    <3>5. t \in Tiers \cup {""} /\ t # "unknown"
      BY TierFacts
    <3> HIDE DEF field
    <3>6. result' \in [final : CC, tier : Tiers \cup {""}, field : [Sources -> CC]]
      <4>1. result' = [final |-> cc, tier |-> t, field |-> field]
        BY <2>5 DEF field
      <4> QED
        BY <3>1, <3>3, <3>5, <4>1
    <3>7. TypeOK'
      <4>1. "done" \in Layers /\ hits' \subseteq Countries
        BY <2>5, <3>2 DEF Layers
      <4> QED
        BY <1>1, <2>3, <2>5, <3>6, <4>1 DEF IInv, TypeOK
    <3>8. Placed' /\ OneAtMost' /\ Empty'
      BY <1>1, <2>5 DEF IInv, Placed, OneAtMost, Empty, AddressLayers, Early
    <3>9. DomainOverAddress'
      BY <1>1 DEF DomainOverAddress
    <3>10. EvidenceMatches'
      <4>1. ASSUME NEW r \in Sources
            PROVE  /\ result'.tier = TierOf(r) =>
                        result'.field[r] = result'.final /\ Last(asked')[1] = r
                   /\ result'.field[r] # None => result'.tier = TierOf(r)
        <5>1. CASE recorded
          BY <2>3, <3>3, <3>4, <5>1, TierFacts
        <5>2. CASE ~ recorded
          BY <3>3, <3>4, <5>2, TierFacts
        <5> QED
          BY <5>1, <5>2
      <4> QED
        BY <4>1 DEF EvidenceMatches
    <3>11. NoSignalLost'
      BY <1>1, <2>5, <3>1, <3>4, <3>5 DEF NoSignalLost
    <3> QED
      BY <3>7, <3>8, <3>9, <3>10, <3>11 DEF IInv
  <2> QED
    BY <1>5, <2>4, <2>5
<1> QED
  BY <1>4, <1>5 DEF Consult

----------------------------------------------------------------------------
(* The layers.                                                             *)

\* A layer that only asks a source, or goes on.
LEMMA LookupKeeps ==
  ASSUME IInv, layer \notin Early, NEW s \in Sources, NEW h \in {"input", "apex"},
         NEW m \in Layers \ Early, Lookup(s, h, m),
         q.kind = "ip" => m \in AddressLayers,
         m = "ip" => q.kind = "ip",
         m \in {"dnsRdap", "dnsWayback", "dnsDomain"} => dnsFailed
  PROVE  IInv'
<1>1. layer # "done" /\ (q.domCC = None \/ ipCC = None)
  BY DEF IInv, OneAtMost, Early
<1> QED
  BY <1>1, ConsultKeeps DEF Lookup

\* What a layer knows.
LEMMA Known ==
  ASSUME IInv
  PROVE  /\ q.domCC \in CC /\ ipCC \in CC /\ None \in CC /\ ID \in CC /\ ID # None
         /\ q.kind = "ip" => q.domCC = None /\ layer \in AddressLayers
         /\ layer = "ip" => q.kind = "ip"
         /\ layer \in {"start", "rejected"} => ipCC = None
         /\ layer = "start" => ~ dnsFailed
         /\ dnsFailed => ipCC = None
         /\ layer \in {"dnsRdap", "dnsWayback", "dnsDomain"} => dnsFailed
         /\ layer \notin Early => q.domCC = None \/ ipCC = None
         /\ layer = "mismatch" => q.domCC = None \/ ipCC # q.domCC
BY CountryFacts DEF IInv, TypeOK, Placed, OneAtMost, CC

\* The two ways an input is refused.
LEMMA RejectKeeps == ASSUME IInv, RejectBogon \/ RefuseHost PROVE IInv'
<1>1. layer = "start" /\ Goto("rejected")
  BY DEF RejectBogon, RefuseHost
<1>2. Placed' /\ OneAtMost'
  BY <1>1 DEF Goto, input, found, IInv, Placed, OneAtMost, AddressLayers, Early
<1>3. "rejected" \in Layers \ {"done"}
  BY DEF Layers
<1> QED
  BY <1>1, <1>2, <1>3, GotoKeeps

\* The two steps that look up the address.
LEMMA StartKeeps ==
  ASSUME IInv, layer = "start", ipCC' \in CC, public' \in BOOLEAN, dnsFailed' \in BOOLEAN,
         UNCHANGED <<q, enabled, result, asked, hits>>,
         \/ q.kind = "ip" /\ layer' = "asn" /\ UNCHANGED dnsFailed
         \/ q.kind = "host" /\ layer' = "agree" /\ (dnsFailed' => ipCC' = None)
  PROVE  IInv'
<1>1. TypeOK'
  BY DEF IInv, TypeOK, Layers
<1>2. Placed'
  BY DEF IInv, Placed, AddressLayers
<1>3. OneAtMost'
  BY DEF IInv, Placed, OneAtMost, Early
<1>4. Empty'
  BY DEF IInv, Empty
<1>5. DomainOverAddress'
  BY DEF IInv, OneAtMost, DomainOverAddress
<1>6. EvidenceMatches' /\ NoSignalLost'
  BY DEF EvidenceMatches, NoSignalLost
<1> QED
  BY <1>1, <1>2, <1>3, <1>4, <1>5, <1>6 DEF IInv

LEMMA LookupAddressKeeps == ASSUME IInv, LookupAddress PROVE IInv'
<1>1. /\ layer = "start" /\ q.kind = "ip" /\ public' \in BOOLEAN /\ ipCC' \in CC /\ layer' = "asn"
      /\ UNCHANGED <<q, enabled, dnsFailed, result, asked, hits>>
  BY DEF LookupAddress, input
<1>2. dnsFailed' \in BOOLEAN
  BY <1>1 DEF IInv, TypeOK
<1> QED
  BY <1>1, <1>2, StartKeeps

LEMMA ResolveKeeps == ASSUME IInv, Resolve PROVE IInv'
<1>1. /\ layer = "start" /\ q.kind = "host" /\ layer' = "agree"
      /\ UNCHANGED <<q, enabled, result, asked, hits>>
      /\ public' \in BOOLEAN /\ dnsFailed' \in BOOLEAN /\ ipCC' \in CC
      /\ dnsFailed' => ipCC' = None
  BY Known DEF Resolve, input
<1> QED
  BY <1>1, StartKeeps

LEMMA IPOnlyKeeps == ASSUME IInv, IPOnly PROVE IInv'
<1>1. layer = "ip" /\ q.domCC = None
  BY Known DEF IPOnly
<1>2. CASE ipCC # None
  BY <1>1, <1>2, Known, FinishKeeps DEF IPOnly
<1>3. CASE ipCC = None
  BY <1>1, <1>3, Known, FinishKeeps DEF IPOnly
<1> QED
  BY <1>2, <1>3

LEMMA AgreeKeeps == ASSUME IInv, Agree PROVE IInv'
<1>1. layer = "agree" /\ q.kind # "ip"
  BY Known DEF Agree, AddressLayers
<1>2. CASE q.domCC # None /\ ipCC = q.domCC
  BY <1>1, <1>2, Known, FinishKeeps DEF Agree
<1>3. CASE ~ (q.domCC # None /\ ipCC = q.domCC)
  <2>1. Goto("mismatch") /\ "mismatch" \in Layers \ {"done"}
    BY <1>3 DEF Agree, Layers
  <2>2. Placed' /\ OneAtMost'
    BY <1>1, <1>3, <2>1
    DEF IInv, Goto, input, found, Placed, OneAtMost, AddressLayers, Early
  <2> QED
    BY <1>1, <2>1, <2>2, GotoKeeps
<1> QED
  BY <1>2, <1>3

LEMMA MismatchKeeps == ASSUME IInv, Mismatch PROVE IInv'
<1>1. layer = "mismatch" /\ q.kind # "ip"
  BY Known DEF Mismatch, AddressLayers
<1>2. CASE q.domCC # None /\ ipCC # None
  <2> DEFINE t == IF q.domCC = ID THEN "medium-domain-id-offshore-host"
                                  ELSE "medium-domain-cc-mismatch"
  <2>1. Finish(q.domCC, t)
    BY <1>2 DEF Mismatch
  <2>2. t \in {"medium-domain-id-offshore-host", "medium-domain-cc-mismatch"}
    OBVIOUS
  <2>3. ipCC # q.domCC /\ q.domCC \in CC
    BY <1>1, <1>2, Known
  <2> HIDE DEF t
  <2>4. t # "high" /\ t # "unknown"
    BY <2>2
  <2> QED
    BY <1>1, <1>2, <2>1, <2>2, <2>3, <2>4, FinishKeeps
<1>3. CASE ~ (q.domCC # None /\ ipCC # None)
  <2> DEFINE l == IF dnsFailed THEN "dnsRdap" ELSE "asn"
  <2>1. Goto(l) /\ l \in {"dnsRdap", "asn"} /\ (l = "dnsRdap" => dnsFailed)
    BY <1>3 DEF Mismatch
  <2> HIDE DEF l
  <2>2. Placed' /\ OneAtMost'
    BY <1>1, <1>3, <2>1
    DEF IInv, Goto, input, found, Placed, OneAtMost, AddressLayers, Early
  <2>3. l \in Layers \ {"done"}
    BY <2>1 DEF Layers
  <2> QED
    BY <1>1, <2>1, <2>2, <2>3, GotoKeeps
<1> QED
  BY <1>2, <1>3

\* A layer that goes on past the mismatch.
LEMMA OnwardKeeps ==
  ASSUME IInv, layer \notin Early, NEW l \in Layers \ Early, Goto(l),
         q.kind = "ip" => l \in AddressLayers,
         l = "ip" => q.kind = "ip",
         l \in {"dnsRdap", "dnsWayback", "dnsDomain"} => dnsFailed
  PROVE  IInv'
<1>1. Placed' /\ OneAtMost'
  BY DEF IInv, Goto, input, found, Placed, OneAtMost, Early
<1>2. layer # "done" /\ l \in Layers \ {"done"}
  BY DEF Early
<1> QED
  BY <1>1, <1>2, GotoKeeps

LEMMA AskASNKeeps == ASSUME IInv, AskASN PROVE IInv'
<1> DEFINE next == IF q.kind = "ip" THEN "ip" ELSE "tls"
<1>1. layer = "asn" /\ IF public THEN Lookup("asn", "input", next) ELSE Goto(next)
  BY DEF AskASN
<1>2. /\ next \in {"ip", "tls"} /\ (next = "ip" <=> q.kind = "ip")
  OBVIOUS
<1> HIDE DEF next
<1>3. /\ next \in Layers \ Early /\ layer \notin Early
      /\ q.kind = "ip" => next \in AddressLayers
      /\ next \notin {"dnsRdap", "dnsWayback", "dnsDomain"}
      /\ "asn" \in Sources
  BY <1>1, <1>2 DEF Layers, Early, AddressLayers, Sources
<1> QED
  BY <1>1, <1>2, <1>3, LookupKeeps, OnwardKeeps

\* The sources of a host after a DNS answer, and those of its parent.
LEMMA AskKeeps ==
  ASSUME IInv,
         \/ AskTLS \/ AskCTLog \/ AskScan \/ AskRDAP \/ AskWayback
         \/ ApexTLS \/ ApexCTLog \/ ApexScan \/ ApexRDAP
  PROVE  IInv'
<1>1. PICK l \in {"tls", "ctlog", "scan", "rdap", "wayback",
                  "apexTls", "apexCtlog", "apexScan", "apexRdap"} : layer = l
  BY DEF AskTLS, AskCTLog, AskScan, AskRDAP, AskWayback, ApexTLS, ApexCTLog, ApexScan, ApexRDAP
<1>2. layer \notin Early /\ q.kind # "ip"
  BY <1>1, Known DEF Early, AddressLayers
<1>3. PICK s \in Sources, h \in {"input", "apex"},
           m \in {"ctlog", "scan", "rdap", "genericID", "single",
                  "apexCtlog", "apexScan", "apexRdap", "apexWayback"} : Lookup(s, h, m)
  BY DEF AskTLS, AskCTLog, AskScan, AskRDAP, AskWayback, ApexTLS, ApexCTLog, ApexScan, ApexRDAP,
     Sources
<1>4. m \in Layers \ Early /\ m \notin {"ip", "dnsRdap", "dnsWayback", "dnsDomain"}
  BY DEF Layers, Early
<1> QED
  BY <1>2, <1>3, <1>4, LookupKeeps

LEMMA GenericIDHostKeeps == ASSUME IInv, GenericIDHost PROVE IInv'
<1>1. layer = "genericID" /\ layer \notin Early /\ q.kind # "ip"
  BY Known DEF GenericIDHost, Early, AddressLayers
<1>2. CASE q.domCC = None /\ ipCC = ID
  BY <1>1, <1>2, Known, FinishKeeps DEF GenericIDHost
<1>3. CASE ~ (q.domCC = None /\ ipCC = ID)
  <2> DEFINE l == IF q.subdomain THEN "apexTls" ELSE "wayback"
  <2>1. Goto(l) /\ l \in {"apexTls", "wayback"}
    BY <1>3 DEF GenericIDHost
  <2> HIDE DEF l
  <2>2. l \in Layers \ Early /\ l \notin {"ip", "dnsRdap", "dnsWayback", "dnsDomain"}
    BY <2>1 DEF Layers, Early
  <2> QED
    BY <1>1, <2>1, <2>2, OnwardKeeps
<1> QED
  BY <1>2, <1>3

LEMMA SingleSignalKeeps == ASSUME IInv, SingleSignal PROVE IInv'
<1>1. layer = "single" /\ layer # "done" /\ (q.domCC = None \/ ipCC = None)
  BY Known DEF SingleSignal, Early
<1>2. CASE q.domCC # None /\ ipCC = None
  BY <1>1, <1>2, Known, FinishKeeps DEF SingleSignal
<1>3. CASE q.domCC = None /\ ipCC # None
  BY <1>1, <1>3, Known, FinishKeeps DEF SingleSignal
<1>4. CASE q.domCC = None /\ ipCC = None
  BY <1>1, <1>4, Known, FinishKeeps DEF SingleSignal
<1> QED
  BY <1>1, <1>2, <1>3, <1>4

LEMMA ApexWaybackKeeps == ASSUME IInv, ApexWayback PROVE IInv'
<1>1. /\ layer = "apexWayback" /\ layer \notin Early /\ q.kind # "ip"
      /\ layer # "done" /\ (q.domCC = None \/ ipCC = None) /\ "wayback" \in Sources
  BY Known DEF ApexWayback, Early, AddressLayers, Sources
<1>2. {"dnsWayback", "wayback"} \subseteq Layers \ Early
  BY DEF Layers, Early
<1>3. CASE dnsFailed
  <2>1. Consult("wayback", "apex", "dnsWayback", "", FALSE)
    BY <1>3 DEF ApexWayback
  <2> QED
    BY <1>1, <1>2, <1>3, <2>1, ConsultKeeps
<1>4. CASE ~ dnsFailed
  <2>1. Lookup("wayback", "apex", "wayback")
    BY <1>4 DEF ApexWayback
  <2> QED
    BY <1>1, <1>2, <2>1, LookupKeeps
<1> QED
  BY <1>3, <1>4

LEMMA DnsKeeps ==
  ASSUME IInv, DnsRDAP \/ DnsWayback
  PROVE  IInv'
<1>1. /\ layer \in {"dnsRdap", "dnsWayback"} /\ layer \notin Early /\ q.kind # "ip" /\ dnsFailed
      /\ {"rdap", "wayback"} \subseteq Sources
  BY Known DEF DnsRDAP, DnsWayback, Early, AddressLayers, Sources
<1>2. PICK s \in {"rdap", "wayback"}, m \in {"apexTls", "dnsWayback", "dnsDomain"} :
        Lookup(s, "input", m)
  BY DEF DnsRDAP, DnsWayback
<1>3. m \in Layers \ Early /\ m # "ip"
  BY DEF Layers, Early
<1> QED
  BY <1>1, <1>2, <1>3, LookupKeeps

LEMMA DnsDomainKeeps == ASSUME IInv, DnsDomain PROVE IInv'
<1>1. layer = "dnsDomain" /\ layer # "done" /\ ipCC = None
  BY Known DEF DnsDomain
<1>2. CASE q.domCC # None
  BY <1>1, <1>2, Known, FinishKeeps DEF DnsDomain
<1>3. CASE q.domCC = None
  BY <1>1, <1>3, Known, FinishKeeps DEF DnsDomain
<1> QED
  BY <1>2, <1>3

----------------------------------------------------------------------------
(* The order of the lookups.                                               *)

Lookups == Sources \X {"input", "apex"}

\* The rung of the code's order that a layer stands before.
Position(l) ==
  CASE l \in {"start", "agree", "mismatch", "asn"} -> 1
    [] l = "tls"                              -> 2
    [] l = "ctlog"                            -> 3
    [] l = "scan"                             -> 4
    [] l \in {"rdap", "dnsRdap"}              -> 5
    [] l \in {"genericID", "apexTls"}         -> 6
    [] l = "apexCtlog"                        -> 7
    [] l = "apexScan"                         -> 8
    [] l = "apexRdap"                         -> 9
    [] l = "apexWayback"                      -> 10
    [] l \in {"wayback", "dnsWayback"}        -> 11
    [] l \in {"ip", "single", "dnsDomain"}    -> 12

Apex == {"apexTls", "apexCtlog", "apexScan", "apexRdap", "apexWayback"}

\* What a layer has behind it: DNS has answered, there is a parent, and the host
\* heuristic has not applied.
Sited(l) ==
  /\ l \in {"asn", "tls", "ctlog", "scan"} => ~ dnsFailed
  /\ l \in Apex => q.subdomain
  /\ l \in Apex \cup {"wayback", "single"} => dnsFailed \/ q.domCC # None \/ ipCC # ID

AskedSet == {asked[n] : n \in DOMAIN asked}

Descent ==
  /\ ~ Over => AskedSet = AvailableBefore(Position(layer))
  /\ dnsFailed => ~ public
  /\ Sited(layer)
  /\ StrongestFirst
  /\ SignalTiersInTurn

\* The rungs, one by one.
LEMMA Rungs ==
  /\ DOMAIN Ladder = 1..11 /\ Len(Ladder) = 11
  /\ Ladder[1] = <<"asn", "input">>   /\ Ladder[2] = <<"tls", "input">>
  /\ Ladder[3] = <<"ctlog", "input">> /\ Ladder[4] = <<"scan", "input">>
  /\ Ladder[5] = <<"rdap", "input">>  /\ Ladder[6] = <<"tls", "apex">>
  /\ Ladder[7] = <<"ctlog", "apex">>  /\ Ladder[8] = <<"scan", "apex">>
  /\ Ladder[9] = <<"rdap", "apex">>   /\ Ladder[10] = <<"wayback", "apex">>
  /\ Ladder[11] = <<"wayback", "input">>
BY DEF Ladder

\* A rung is asked if the input allows it.
LEMMA NextRung ==
  ASSUME NEW k \in 1..11
  PROVE  AvailableBefore(k + 1) =
           AvailableBefore(k)
             \cup IF Askable(Ladder[k][1], Ladder[k][2]) THEN {Ladder[k]} ELSE {}
BY DEF AvailableBefore

\* Nothing is asked between two rungs if the input allows none of them.
LEMMA NoRungs ==
  ASSUME NEW i \in 1..12, NEW j \in i..12,
         \A k \in i..j - 1 : ~ Askable(Ladder[k][1], Ladder[k][2])
  PROVE  AvailableBefore(j) = AvailableBefore(i)
BY DEF AvailableBefore

\* What is available depends on the input, the sources and DNS only.
LEMMA SameAvailable ==
  ASSUME UNCHANGED <<q, enabled, dnsFailed, public>>
  PROVE  /\ \A k : AvailableBefore(k)' = AvailableBefore(k)
         /\ \A s, h : Askable(s, h)' <=> Askable(s, h)
BY DEF AvailableBefore, Askable, Ladder

\* Without a lookup, and with the same input, the order stays.
LEMMA SameOrder ==
  ASSUME StrongestFirst, UNCHANGED <<q, enabled, dnsFailed, public, asked>>
  PROVE  StrongestFirst'
<1>1. /\ \A k : AvailableBefore(k)' = AvailableBefore(k)
      /\ \A s, h : Askable(s, h)' <=> Askable(s, h)
  BY SameAvailable
<1>2. Ladder' = Ladder
  BY DEF Ladder
<1> HIDE DEF Ladder
<1> SUFFICES ASSUME NEW n \in DOMAIN asked
             PROVE  \E k \in DOMAIN Ladder :
                      /\ asked[n] = Ladder[k]
                      /\ Askable(Ladder[k][1], Ladder[k][2])
                      /\ {asked[j] : j \in 1..n - 1} = AvailableBefore(k)
  BY <1>1, <1>2 DEF StrongestFirst
<1> QED
  BY DEF StrongestFirst

\* What has been asked, after one more.
LEMMA OneMoreAsked ==
  ASSUME asked \in Seq(Lookups), NEW a \in Lookups, asked' = Append(asked, a)
  PROVE  /\ AskedSet' = AskedSet \cup {a}
         /\ DOMAIN asked = 1..Len(asked) /\ DOMAIN asked' = 1..Len(asked) + 1
         /\ Len(asked) \in Nat
         /\ asked'[Len(asked) + 1] = a
         /\ \A n \in 1..Len(asked) : asked'[n] = asked[n]
<1> DEFINE S == Lookups
<1> HIDE DEF S
<1>1. /\ asked \in Seq(S) /\ a \in S
      /\ Len(asked) \in Nat /\ DOMAIN asked = 1..Len(asked)
  BY LenProperties DEF S
<1>2. /\ DOMAIN asked' = 1..Len(asked) + 1
      /\ asked'[Len(asked) + 1] = a
      /\ \A n \in 1..Len(asked) : asked'[n] = asked[n]
  BY <1>1, AppendProperties
<1> QED
  BY <1>1, <1>2 DEF AskedSet

\* The ladder goes on without a lookup.
LEMMA GotoDescends ==
  ASSUME Descent, ~ Over, NEW m, m \notin {"done", "rejected"}, Goto(m), Sited(m),
         AvailableBefore(Position(m)) = AvailableBefore(Position(layer))
  PROVE  Descent'
<1>1. layer' = m /\ UNCHANGED <<q, enabled, dnsFailed, public, ipCC, result, asked, hits>>
  BY DEF Goto, input, found
<1>2. /\ \A k : AvailableBefore(k)' = AvailableBefore(k)
      /\ \A s, h : Askable(s, h)' <=> Askable(s, h)
  BY <1>1, SameAvailable
<1>3. AskedSet' = AvailableBefore(Position(layer))'
  BY <1>1, <1>2 DEF Descent, AskedSet
<1>4. Sited(layer)'
  BY <1>1 DEF Sited
<1>5. StrongestFirst'
  BY <1>1, SameOrder DEF Descent
<1>6. SignalTiersInTurn'
  BY <1>1, <1>2 DEF Descent, SignalTiersInTurn, SignalTiers, Turn, Ladder
<1> QED
  BY <1>1, <1>3, <1>4, <1>5, <1>6 DEF Descent

\* It ends without a lookup, with a tier whose turn it is.
LEMMA FinishDescends ==
  ASSUME IInv, Descent, ~ Over, NEW f, NEW t, Finish(f, t), Position(layer) = Turn(t)
  PROVE  Descent'
<1>1. /\ layer' = "done" /\ result'.tier = t
      /\ UNCHANGED <<q, enabled, dnsFailed, public, ipCC, asked, hits>>
  BY DEF Finish, input, found
<1>2. /\ \A k : AvailableBefore(k)' = AvailableBefore(k)
      /\ \A s, h : Askable(s, h)' <=> Askable(s, h)
  BY <1>1, SameAvailable
<1>3. Over' /\ Sited(layer)'
  BY <1>1 DEF Over, Sited, Apex
<1>4. StrongestFirst'
  BY <1>1, SameOrder DEF Descent
<1>5. SignalTiersInTurn'
  <2>1. hits' = {}
    BY <1>1 DEF IInv, Empty, Over
  <2>2. AskedSet' = AskedSet /\ Turn(t)' = Turn(t)
    BY <1>1 DEF AskedSet, Turn, Ladder
  <2>3. AskedSet = AvailableBefore(Turn(t))
    BY DEF Descent
  <2>4. AskedSet' = AvailableBefore(Turn(t))'
    BY <1>2, <2>2, <2>3
  <2> QED
    BY <1>1, <2>1, <2>4 DEF SignalTiersInTurn, AskedSet
<1> QED
  BY <1>1, <1>3, <1>4, <1>5 DEF Descent

\* What Consult does, whatever it makes of the source's field.
Asks(s, h, m, t) ==
  \/ s \notin enabled /\ Goto(m)
  \/ /\ s \in enabled
     /\ asked' = Append(asked, <<s, h>>)
     /\ UNCHANGED <<q, enabled, dnsFailed, public, ipCC>>
     /\ \/ layer' = m /\ UNCHANGED <<result, hits>>
        \/ layer' = "done" /\ result'.tier = t

\* The tier of a result is the one it is given.
LEMMA TierGiven ==
  ASSUME NEW f, NEW t, NEW g, result' = [final |-> f, tier |-> t, field |-> g]
  PROVE  result'.tier = t
OBVIOUS

\* The source of the next rung is asked, or is not available.
LEMMA ConsultDescends ==
  ASSUME IInv, Descent, ~ Over, NEW k \in 1..11, Position(layer) = k,
         NEW s \in Sources, NEW h \in {"input", "apex"}, Ladder[k] = <<s, h>>,
         NEW m, m \notin {"done", "rejected"}, Sited(m),
         NEW t, Asks(s, h, m, t),
         t \notin SignalTiers,
         s \in enabled => Askable(s, h),
         AvailableBefore(Position(m)) = AvailableBefore(k + 1)
  PROVE  Descent'
<1>0. Ladder[k][1] = s /\ Ladder[k][2] = h
  OBVIOUS
<1>1. CASE s \notin enabled
  <2>1. Goto(m)
    BY <1>1 DEF Asks
  <2>2. ~ Askable(s, h)
    BY <1>1 DEF Askable
  <2>3. AvailableBefore(k + 1) = AvailableBefore(k)
    BY <1>0, <2>2, NextRung
  <2> QED
    BY <2>1, <2>3, GotoDescends
<1>2. CASE s \in enabled
  <2> DEFINE a == <<s, h>>
  <2>1. /\ asked' = Append(asked, a)
        /\ UNCHANGED <<q, enabled, dnsFailed, public, ipCC>>
        /\ \/ layer' = m /\ UNCHANGED <<result, hits>>
           \/ layer' = "done" /\ result'.tier = t
    BY <1>2, a = <<s, h>> DEF Asks
  <2>2. /\ \A i : AvailableBefore(i)' = AvailableBefore(i)
        /\ \A r, g : Askable(r, g)' <=> Askable(r, g)
    BY <2>1, SameAvailable
  <2>3. asked \in Seq(Lookups) /\ a \in Lookups
    BY DEF IInv, TypeOK, Lookups
  <2>4. AskedSet = AvailableBefore(k) /\ AvailableBefore(k + 1) = AvailableBefore(k) \cup {a}
    <3>1. AvailableBefore(k + 1) = AvailableBefore(k) \cup {Ladder[k]}
      BY <1>0, <1>2, NextRung
    <3> QED
      BY <3>1 DEF Descent
  <2> HIDE DEF a
  <2>5. /\ AskedSet' = AskedSet \cup {a}
        /\ DOMAIN asked = 1..Len(asked) /\ DOMAIN asked' = 1..Len(asked) + 1
        /\ Len(asked) \in Nat
        /\ asked'[Len(asked) + 1] = a
        /\ \A n \in 1..Len(asked) : asked'[n] = asked[n]
    BY <2>1, <2>3, OneMoreAsked
  <2>6. ~ Over' => AskedSet' = AvailableBefore(Position(layer))'
    BY <2>1, <2>2, <2>4, <2>5 DEF Over
  <2>7. Sited(layer)'
    BY <2>1 DEF Sited, Apex
  <2>8. StrongestFirst'
    <3> SUFFICES ASSUME NEW n \in DOMAIN asked'
                 PROVE  \E i \in DOMAIN Ladder :
                          /\ asked'[n] = Ladder[i]
                          /\ Askable(Ladder[i][1], Ladder[i][2])
                          /\ {asked'[j] : j \in 1..n - 1} = AvailableBefore(i)
      BY <2>2 DEF StrongestFirst, Ladder
    <3>1. n \in 1..Len(asked) + 1 /\ n \in Int
      BY <2>5
    <3>2. {asked'[j] : j \in 1..n - 1} = {asked[j] : j \in 1..n - 1}
      BY <2>5, <3>1
    <3>3. CASE n \in 1..Len(asked)
      BY <2>5, <3>2, <3>3 DEF Descent, StrongestFirst
    <3>4. CASE n = Len(asked) + 1
      <4>1. asked'[n] = Ladder[k] /\ Askable(Ladder[k][1], Ladder[k][2])
        BY <1>2, <2>5, <3>4 DEF a
      <4>2. {asked[j] : j \in 1..n - 1} = AskedSet
        BY <2>5, <3>4 DEF AskedSet
      <4> QED
        BY <2>4, <3>2, <4>1, <4>2, Rungs
    <3> QED
      BY <2>5, <3>1, <3>3, <3>4
  <2>9. SignalTiersInTurn'
    <3>1. result'.tier \notin SignalTiers
      <4>1. result.tier = "" /\ "" \notin SignalTiers
        BY DEF IInv, Empty, Over, SignalTiers
      <4> QED
        BY <2>1, <4>1
    <3> QED
      BY <3>1 DEF SignalTiersInTurn, SignalTiers
  <2> QED
    BY <2>1, <2>6, <2>7, <2>8, <2>9 DEF Descent
<1> QED
  BY <1>1, <1>2

LEMMA InitDescends == Init => Descent
<1> SUFFICES ASSUME Init PROVE Descent
  OBVIOUS
<1>1. asked = <<>> /\ layer = "start" /\ result.tier = "" /\ ~ dnsFailed
  BY DEF Init
<1>2. DOMAIN asked = {} /\ AskedSet = {}
  <2>1. DOMAIN asked = 1..0
    BY <1>1, EmptySeq, LenProperties
  <2> QED
    BY <2>1 DEF AskedSet
<1>3. AvailableBefore(1) = {}
  BY DEF AvailableBefore
<1>5. Position(layer) = 1
  BY <1>1 DEF Position
<1>4. Sited(layer)
  BY <1>1 DEF Sited, Apex
<1> QED
  BY <1>1, <1>2, <1>3, <1>4, <1>5
  DEF Descent, StrongestFirst, SignalTiersInTurn, SignalTiers

----------------------------------------------------------------------------
(* Each layer keeps the order.                                             *)

\* The two steps that look up the address: no rung is behind them.
LEMMA StartDescends == ASSUME IInv, Descent, LookupAddress \/ Resolve PROVE Descent'
<1>1. /\ layer = "start" /\ layer' \in {"asn", "agree"}
      /\ UNCHANGED <<q, enabled, result, asked, hits>>
  BY DEF LookupAddress, Resolve, input
<1>2. dnsFailed' => ~ public'
  BY Known DEF LookupAddress, Resolve, Descent
<1>3. asked = <<>> /\ DOMAIN asked = {}
  <2>1. asked = <<>>
    BY <1>1 DEF IInv, OneAtMost
  <2>2. DOMAIN asked = 1..0
    BY <2>1, EmptySeq, LenProperties
  <2> QED
    BY <2>1, <2>2
<1>4. AskedSet' = {} /\ AvailableBefore(1)' = {}
  BY <1>1, <1>3 DEF AskedSet, AvailableBefore
<1>5. Position(layer') = 1
  BY <1>1 DEF Position
<1>6. Sited(layer)'
  <2>1. layer' = "asn" => ~ dnsFailed'
    BY <1>1, Known DEF LookupAddress, Resolve
  <2> QED
    BY <1>1, <2>1 DEF Sited, Apex
<1>7. result.tier = ""
  BY <1>1 DEF IInv, Empty
<1> QED
  BY <1>1, <1>2, <1>3, <1>4, <1>5, <1>6, <1>7
  DEF Descent, StrongestFirst, SignalTiersInTurn, SignalTiers

LEMMA RejectDescends == ASSUME IInv, Descent, RejectBogon \/ RefuseHost PROVE Descent'
<1>1. /\ layer = "start" /\ layer' = "rejected"
      /\ UNCHANGED <<q, enabled, dnsFailed, public, ipCC, result, asked, hits>>
  BY DEF RejectBogon, RefuseHost, Goto, input, found
<1>2. StrongestFirst'
  BY <1>1, SameOrder DEF Descent
<1>3. result.tier = ""
  BY <1>1 DEF IInv, Empty
<1>4. Over' /\ Sited(layer)'
  BY <1>1 DEF Over, Sited, Apex
<1> QED
  BY <1>1, <1>2, <1>3, <1>4 DEF Descent, SignalTiersInTurn, SignalTiers

\* The layers that only look at what is known.
LEMMA SignalsDescend ==
  ASSUME IInv, Descent,
         IPOnly \/ Agree \/ Mismatch \/ GenericIDHost \/ SingleSignal \/ DnsDomain
  PROVE  Descent'
<1>1. CASE IPOnly \/ SingleSignal \/ DnsDomain
  <2>1. layer \in {"ip", "single", "dnsDomain"}
    BY <1>1 DEF IPOnly, SingleSignal, DnsDomain
  <2>2. Position(layer) = 12 /\ ~ Over
    BY <2>1 DEF Position, Over
  <2>3. PICK f, t : t \in {"low-dns-failed", "ip-only", "unknown"} /\ Finish(f, t)
    BY <1>1 DEF IPOnly, SingleSignal, DnsDomain
  <2>4. Turn(t) = 12
    BY <2>3, Rungs DEF Turn
  <2> QED
    BY <2>2, <2>3, <2>4, FinishDescends
<1>2. CASE Agree
  <2>1. layer = "agree" /\ Position("agree") = 1 /\ Position("mismatch") = 1
    BY <1>2 DEF Agree, Position
  <2>2. Sited("mismatch") /\ ~ Over /\ Turn("high") = 1
    BY <2>1 DEF Sited, Apex, Over, Turn
  <2>3. Finish(q.domCC, "high") \/ Goto("mismatch")
    BY <1>2 DEF Agree
  <2> QED
    BY <2>1, <2>2, <2>3, FinishDescends, GotoDescends
<1>3. CASE Mismatch
  <2>1. /\ layer = "mismatch" /\ Position("mismatch") = 1
        /\ Position("dnsRdap") = 5 /\ Position("asn") = 1
    BY <1>3 DEF Mismatch, Position
  <2>2. /\ ~ Over
        /\ Turn("medium-domain-id-offshore-host") = 1 /\ Turn("medium-domain-cc-mismatch") = 1
    BY <2>1 DEF Over, Turn
  <2>3. \/ \E t \in {"medium-domain-id-offshore-host", "medium-domain-cc-mismatch"} :
              Finish(q.domCC, t)
        \/ dnsFailed /\ Goto("dnsRdap")
        \/ ~ dnsFailed /\ Goto("asn")
    BY <1>3 DEF Mismatch
  <2>4. dnsFailed => AvailableBefore(5) = AvailableBefore(1)
    <3>1. dnsFailed => \A k \in 1..4 : ~ Askable(Ladder[k][1], Ladder[k][2])
      BY Rungs DEF Askable
    <3> QED
      BY <3>1, NoRungs
  <2>5. ~ dnsFailed => Sited("asn")
    BY DEF Sited, Apex
  <2>6. Sited("dnsRdap")
    BY DEF Sited, Apex
  <2> QED
    BY <2>1, <2>2, <2>3, <2>4, <2>5, <2>6, FinishDescends, GotoDescends
<1>4. CASE GenericIDHost
  <2>1. /\ layer = "genericID" /\ Position("genericID") = 6
        /\ Position("apexTls") = 6 /\ Position("wayback") = 11
    BY <1>4 DEF GenericIDHost, Position
  <2>2. ~ Over /\ Turn("medium-generic-tld-id-host") = 6
    BY <2>1 DEF Over, Turn
  <2>3. \/ Finish(ID, "medium-generic-tld-id-host")
        \/ q.domCC # None \/ ipCC # ID
    BY <1>4 DEF GenericIDHost
  <2>4. \/ Finish(ID, "medium-generic-tld-id-host")
        \/ q.subdomain /\ Goto("apexTls")
        \/ ~ q.subdomain /\ Goto("wayback")
    BY <1>4 DEF GenericIDHost
  <2>5. ~ q.subdomain => AvailableBefore(11) = AvailableBefore(6)
    <3>1. ~ q.subdomain => \A k \in 6..10 : ~ Askable(Ladder[k][1], Ladder[k][2])
      BY Rungs DEF Askable
    <3> QED
      BY <3>1, NoRungs
  <2>6. q.domCC # None \/ ipCC # ID => Sited("wayback") /\ (q.subdomain => Sited("apexTls"))
    BY DEF Sited, Apex
  <2> QED
    BY <2>1, <2>2, <2>3, <2>4, <2>5, <2>6, FinishDescends, GotoDescends
<1> QED
  BY <1>1, <1>2, <1>3, <1>4

\* A layer that asks the source of its rung.
LEMMA LookupDescends ==
  ASSUME IInv, Descent, ~ Over, NEW k \in 1..11, Position(layer) = k,
         NEW s \in Sources, NEW h \in {"input", "apex"}, Ladder[k] = <<s, h>>,
         NEW m, m \notin {"done", "rejected"}, Sited(m), Lookup(s, h, m),
         s \in enabled => Askable(s, h),
         AvailableBefore(Position(m)) = AvailableBefore(k + 1)
  PROVE  Descent'
<1>1. TierOf(s) \notin SignalTiers
  BY TierFacts DEF SignalTiers
<1>2. Asks(s, h, m, TierOf(s))
  BY DEF Asks, Lookup, Consult, input, found
<1> QED
  BY <1>1, <1>2, ConsultDescends

\* Only an address has the brand as its one source.
LEMMA AskASNDescends == ASSUME IInv, Descent, AskASN PROVE Descent'
<1> DEFINE m == IF q.kind = "ip" THEN "ip" ELSE "tls"
<1>1. layer = "asn" /\ IF public THEN Lookup("asn", "input", m) ELSE Goto(m)
  BY DEF AskASN
<1>2. /\ m \in {"ip", "tls"} /\ (m = "ip" <=> q.kind = "ip") /\ Position(layer) = 1
      /\ Position("tls") = 2 /\ Position("ip") = 12 /\ ~ Over
  BY <1>1 DEF Position, Over
<1> HIDE DEF m
<1>3. ~ dnsFailed /\ Sited(m)
  BY <1>1, <1>2 DEF Descent, Sited, Apex
<1>4. AvailableBefore(Position(m)) = AvailableBefore(2)
  <2>1. q.kind = "ip" => \A k \in 2..11 : ~ Askable(Ladder[k][1], Ladder[k][2])
    BY Rungs DEF Askable
  <2>2. q.kind = "ip" => AvailableBefore(12) = AvailableBefore(2)
    BY <2>1, NoRungs
  <2> QED
    BY <1>2, <2>2
<1>5. CASE public
  <2>1. "asn" \in enabled => Askable("asn", "input")
    BY <1>3, <1>5 DEF Askable
  <2>2. Ladder[1] = <<"asn", "input">> /\ "asn" \in Sources
    BY Rungs DEF Sources
  <2>3. m \notin {"done", "rejected"} /\ AvailableBefore(Position(m)) = AvailableBefore(1 + 1)
    BY <1>2, <1>4
  <2> QED
    BY <1>1, <1>2, <1>3, <1>5, <2>1, <2>2, <2>3, LookupDescends
<1>6. CASE ~ public
  <2>1. ~ Askable("asn", "input")
    BY <1>6 DEF Askable
  <2>2. AvailableBefore(2) = AvailableBefore(1)
    <3>1. \A k \in 1..1 : ~ Askable(Ladder[k][1], Ladder[k][2])
      BY <2>1, Rungs
    <3> QED
      BY <3>1, NoRungs
  <2>3. m \notin {"done", "rejected"}
    BY <1>2
  <2> QED
    BY <1>1, <1>2, <1>3, <1>4, <1>6, <2>2, <2>3, GotoDescends
<1> QED
  BY <1>5, <1>6

\* What a layer that asks the k-th rung's source has to show.
LEMMA RungDescends ==
  ASSUME IInv, Descent, ~ Over, NEW k \in 1..11, Position(layer) = k,
         NEW s \in Sources, NEW h \in {"input", "apex"}, Ladder[k] = <<s, h>>,
         NEW m, m \notin {"done", "rejected"}, Sited(m), Lookup(s, h, m),
         Position(m) = k + 1,
         q.kind # "ip", s # "asn",
         dnsFailed /\ h = "input" => s \in {"rdap", "wayback"},
         h = "apex" => q.subdomain
  PROVE  Descent'
<1>1. s \in enabled => Askable(s, h)
  BY DEF Askable
<1> QED
  BY <1>1, LookupDescends

\* The host's own certificate, CT log and page, and its registrant.
LEMMA InputDescends ==
  ASSUME IInv, Descent, AskTLS \/ AskCTLog \/ AskScan \/ AskRDAP
  PROVE  Descent'
<1>1. layer \in {"tls", "ctlog", "scan", "rdap"} /\ ~ Over
  BY DEF AskTLS, AskCTLog, AskScan, AskRDAP, Over
<1>2. q.kind # "ip" /\ (layer # "rdap" => ~ dnsFailed)
  BY <1>1, Known DEF AddressLayers, Descent, Sited
<1>3. /\ Position("tls") = 2 /\ Position("ctlog") = 3 /\ Position("scan") = 4
      /\ Position("rdap") = 5 /\ Position("genericID") = 6
  BY DEF Position
<1>4. /\ layer # "rdap" => Sited("ctlog") /\ Sited("scan") /\ Sited("rdap")
      /\ Sited("genericID")
  BY <1>2 DEF Sited, Apex
<1>5. {"tls", "ctlog", "scan", "rdap"} \subseteq Sources
  BY DEF Sources
<1>6. CASE AskTLS
  <2>1. layer = "tls" /\ Lookup("tls", "input", "ctlog")
    BY <1>6 DEF AskTLS
  <2> QED
    BY <1>1, <1>2, <1>3, <1>4, <1>5, <2>1, Rungs, RungDescends
<1>7. CASE AskCTLog
  <2>1. layer = "ctlog" /\ Lookup("ctlog", "input", "scan")
    BY <1>7 DEF AskCTLog
  <2> QED
    BY <1>1, <1>2, <1>3, <1>4, <1>5, <2>1, Rungs, RungDescends
<1>8. CASE AskScan
  <2>1. layer = "scan" /\ Lookup("scan", "input", "rdap")
    BY <1>8 DEF AskScan
  <2> QED
    BY <1>1, <1>2, <1>3, <1>4, <1>5, <2>1, Rungs, RungDescends
<1>9. CASE AskRDAP
  <2>1. layer = "rdap" /\ Lookup("rdap", "input", "genericID")
    BY <1>9 DEF AskRDAP
  <2> QED
    BY <1>1, <1>2, <1>3, <1>4, <1>5, <2>1, Rungs, RungDescends
<1> QED
  BY <1>6, <1>7, <1>8, <1>9

\* The parent's certificate, CT log, page and registrant.
LEMMA ApexDescends ==
  ASSUME IInv, Descent, ApexTLS \/ ApexCTLog \/ ApexScan \/ ApexRDAP
  PROVE  Descent'
<1>1. layer \in Apex /\ ~ Over
  BY DEF ApexTLS, ApexCTLog, ApexScan, ApexRDAP, Over, Apex
<1>2. q.kind # "ip" /\ q.subdomain
  BY <1>1, Known DEF AddressLayers, Descent, Sited, Apex
<1>3. /\ Position("apexTls") = 6 /\ Position("apexCtlog") = 7 /\ Position("apexScan") = 8
      /\ Position("apexRdap") = 9 /\ Position("apexWayback") = 10
  BY DEF Position
<1>4. \A m \in Apex : Sited(m)
  BY <1>1 DEF Descent, Sited, Apex
<1>5. {"tls", "ctlog", "scan", "rdap"} \subseteq Sources
  BY DEF Sources
<1>6. /\ {"apexCtlog", "apexScan", "apexRdap", "apexWayback"} \subseteq Apex
      /\ Apex \cap {"done", "rejected"} = {}
  BY DEF Apex
<1>7. CASE ApexTLS
  <2>1. layer = "apexTls" /\ Lookup("tls", "apex", "apexCtlog")
    BY <1>7 DEF ApexTLS
  <2> QED
    BY <1>1, <1>2, <1>3, <1>4, <1>5, <1>6, <2>1, Rungs, RungDescends
<1>8. CASE ApexCTLog
  <2>1. layer = "apexCtlog" /\ Lookup("ctlog", "apex", "apexScan")
    BY <1>8 DEF ApexCTLog
  <2> QED
    BY <1>1, <1>2, <1>3, <1>4, <1>5, <1>6, <2>1, Rungs, RungDescends
<1>9. CASE ApexScan
  <2>1. layer = "apexScan" /\ Lookup("scan", "apex", "apexRdap")
    BY <1>9 DEF ApexScan
  <2> QED
    BY <1>1, <1>2, <1>3, <1>4, <1>5, <1>6, <2>1, Rungs, RungDescends
<1>10. CASE ApexRDAP
  <2>1. layer = "apexRdap" /\ Lookup("rdap", "apex", "apexWayback")
    BY <1>10 DEF ApexRDAP
  <2> QED
    BY <1>1, <1>2, <1>3, <1>4, <1>5, <1>6, <2>1, Rungs, RungDescends
<1> QED
  BY <1>7, <1>8, <1>9, <1>10

\* The archive, of the parent and of the host, on both branches.
LEMMA ArchiveDescends ==
  ASSUME IInv, Descent, ApexWayback \/ AskWayback \/ DnsWayback
  PROVE  Descent'
<1>1. layer \in {"apexWayback", "wayback", "dnsWayback"} /\ ~ Over
  BY DEF ApexWayback, AskWayback, DnsWayback, Over
<1>2. q.kind # "ip"
  BY <1>1, Known DEF AddressLayers
<1>3. /\ Position("apexWayback") = 10 /\ Position("wayback") = 11
      /\ Position("dnsWayback") = 11 /\ Position("single") = 12 /\ Position("dnsDomain") = 12
  BY DEF Position
<1>4. "wayback" \in Sources
  BY DEF Sources
<1>5. /\ layer # "dnsWayback" => Sited("wayback") /\ Sited("single")
      /\ Sited("dnsWayback") /\ Sited("dnsDomain")
      /\ layer = "apexWayback" => q.subdomain
  BY <1>1 DEF Descent, Sited, Apex
<1>6. CASE ApexWayback
  <2>1. /\ layer = "apexWayback"
        /\ \/ Consult("wayback", "apex", "dnsWayback", "", FALSE)
           \/ Lookup("wayback", "apex", "wayback")
    BY <1>6 DEF ApexWayback
  <2>2. "wayback" \in enabled => Askable("wayback", "apex")
    BY <1>2, <1>5, <2>1 DEF Askable
  <2>5. /\ Position(layer) = 10 /\ Ladder[10] = <<"wayback", "apex">> /\ Sited("wayback")
        /\ AvailableBefore(Position("wayback")) = AvailableBefore(10 + 1)
    <3>1. Position(layer) = 10
      BY <1>3, <2>1
    <3>2. Ladder[10] = <<"wayback", "apex">>
      BY Rungs
    <3>3. Sited("wayback")
      BY <1>5, <2>1
    <3>4. AvailableBefore(Position("wayback")) = AvailableBefore(10 + 1)
      BY <1>3
    <3> QED
      BY <3>1, <3>2, <3>3, <3>4
  <2>3. CASE Lookup("wayback", "apex", "wayback")
    BY <1>1, <1>4, <2>2, <2>3, <2>5, LookupDescends
  <2>4. CASE Consult("wayback", "apex", "dnsWayback", "", FALSE)
    <3>1. AvailableBefore(Position("dnsWayback")) = AvailableBefore(10 + 1)
      BY <1>3
    <3>2. Sited("dnsWayback")
      BY <1>5
    <3>3. Asks("wayback", "apex", "dnsWayback", "")
      <4>1. CASE "wayback" \notin enabled
        BY <2>4, <4>1 DEF Asks, Consult
      <4>2. CASE "wayback" \in enabled
        <5>1. /\ asked' = Append(asked, <<"wayback", "apex">>)
              /\ UNCHANGED <<q, enabled, dnsFailed, public, ipCC>>
          BY <2>4, <4>2 DEF Consult, input, found
        <5>2. \/ layer' = "dnsWayback" /\ UNCHANGED <<result, hits>>
              \/ layer' = "done" /\ result'.tier = ""
          BY <2>4, <4>2, TierGiven, Zenon DEF Consult
        <5> QED
          BY <4>2, <5>1, <5>2 DEF Asks
      <4> QED
        BY <4>1, <4>2
    <3>4. 10 \in 1..11 /\ "apex" \in {"input", "apex"} /\ "dnsWayback" \notin {"done", "rejected"}
      OBVIOUS
    <3>5. "" \notin SignalTiers
      BY DEF SignalTiers
    <3> QED
      BY <1>1, <1>4, <2>2, <2>5, <3>1, <3>2, <3>3, <3>4, <3>5, ConsultDescends
  <2> QED
    BY <2>1, <2>3, <2>4
<1>7. CASE AskWayback
  <2>1. layer = "wayback" /\ Lookup("wayback", "input", "single")
    BY <1>7 DEF AskWayback
  <2> QED
    BY <1>1, <1>2, <1>3, <1>4, <1>5, <2>1, Rungs, RungDescends
<1>8. CASE DnsWayback
  <2>1. layer = "dnsWayback" /\ Lookup("wayback", "input", "dnsDomain")
    BY <1>8 DEF DnsWayback
  <2> QED
    BY <1>1, <1>2, <1>3, <1>4, <1>5, <2>1, Rungs, RungDescends
<1> QED
  BY <1>6, <1>7, <1>8

\* After a DNS failure the registrant comes first, then the parent, if there is one.
LEMMA DnsRDAPDescends == ASSUME IInv, Descent, DnsRDAP PROVE Descent'
<1> DEFINE m == IF q.subdomain THEN "apexTls" ELSE "dnsWayback"
<1>1. layer = "dnsRdap" /\ Lookup("rdap", "input", m) /\ ~ Over
  BY DEF DnsRDAP, Over
<1>2. m \in {"apexTls", "dnsWayback"} /\ (m = "apexTls" <=> q.subdomain)
  OBVIOUS
<1> HIDE DEF m
<1>3. q.kind # "ip" /\ dnsFailed
  BY <1>1, Known DEF AddressLayers
<1>4. Position("dnsRdap") = 5 /\ Position("apexTls") = 6 /\ Position("dnsWayback") = 11
  BY DEF Position
<1>5. Sited(m)
  BY <1>2, <1>3 DEF Sited, Apex
<1>6. AvailableBefore(Position(m)) = AvailableBefore(5 + 1)
  <2>1. ~ q.subdomain => \A k \in 6..10 : ~ Askable(Ladder[k][1], Ladder[k][2])
    BY Rungs DEF Askable
  <2>2. ~ q.subdomain => AvailableBefore(11) = AvailableBefore(6)
    BY <2>1, NoRungs
  <2> QED
    BY <1>2, <1>4, <2>2
<1>7. "rdap" \in Sources /\ ("rdap" \in enabled => Askable("rdap", "input"))
  BY <1>3 DEF Sources, Askable
<1>8. m \notin {"done", "rejected"}
  BY <1>2
<1> QED
  BY <1>1, <1>4, <1>5, <1>6, <1>7, <1>8, Rungs, LookupDescends

LEMMA StepDescends == IInv /\ Descent /\ [Next]_vars => Descent'
<1> SUFFICES ASSUME IInv, Descent, [Next]_vars PROVE Descent'
  OBVIOUS
<1>1. CASE Step
  <2>1. CASE RejectBogon \/ RefuseHost \/ LookupAddress \/ Resolve
    BY <2>1, RejectDescends, StartDescends
  <2>2. CASE IPOnly \/ Agree \/ Mismatch \/ GenericIDHost \/ SingleSignal \/ DnsDomain
    BY <2>2, SignalsDescend
  <2>3. CASE AskASN \/ DnsRDAP
    BY <2>3, AskASNDescends, DnsRDAPDescends
  <2>4. CASE AskTLS \/ AskCTLog \/ AskScan \/ AskRDAP
    BY <2>4, InputDescends
  <2>5. CASE ApexTLS \/ ApexCTLog \/ ApexScan \/ ApexRDAP
    BY <2>5, ApexDescends
  <2>6. CASE ApexWayback \/ AskWayback \/ DnsWayback
    BY <2>6, ArchiveDescends
  <2> QED
    BY <1>1, <2>1, <2>2, <2>3, <2>4, <2>5, <2>6 DEF Step
<1>2. CASE UNCHANGED vars
  <2>1. UNCHANGED <<q, enabled, layer, dnsFailed, public, ipCC, result, asked, hits>>
    BY <1>2 DEF vars
  <2>2. \A k : AvailableBefore(k)' = AvailableBefore(k)
    BY <2>1, SameAvailable
  <2>3. StrongestFirst'
    BY <2>1, SameOrder DEF Descent
  <2>4. SignalTiersInTurn'
    BY <2>1, <2>2 DEF Descent, SignalTiersInTurn, SignalTiers, Turn, Ladder
  <2> QED
    BY <2>1, <2>2, <2>3, <2>4 DEF Descent, Over, Sited, AskedSet
<1> QED
  BY <1>1, <1>2 DEF Next

----------------------------------------------------------------------------
(* The ladder and the table.                                               *)

\* A host's signals when every source has missed.
Missed(d, i, failed, isIP) ==
  [domCC |-> d, ipCC |-> i, asnCC |-> None, rdapCC |-> None,
   generic |-> d = None, dnsFailed |-> failed, isIP |-> isIP]

\* Two voters are left then: a country has both votes, or one, or none.
LEMMA TwoVoters ==
  ASSUME NEW d \in CC, NEW i \in CC, NEW failed \in BOOLEAN, NEW isIP \in BOOLEAN,
         NEW cc \in Countries
  PROVE  Votes(Missed(d, i, failed, isIP), cc) =
           IF d = cc /\ i = cc THEN 2 ELSE IF d = cc \/ i = cc THEN 1 ELSE 0
<1> DEFINE s == Missed(d, i, failed, isIP)
           V == {v \in Voters : s[v] = cc}
<1>1. s["domCC"] = d /\ s["ipCC"] = i /\ s["asnCC"] = None /\ s["rdapCC"] = None
  BY DEF Missed
<1> HIDE DEF s
<1>2. cc # None
  BY CountryFacts
<1>3. \A v : v \in V <=> (v = "domCC" /\ d = cc) \/ (v = "ipCC" /\ i = cc)
  BY <1>1, <1>2 DEF Voters
<1> HIDE DEF V
<1>4. CASE d = cc /\ i = cc
  <2>1. V = {"domCC"} \cup {"ipCC"}
    BY <1>3, <1>4
  <2>2. IsFiniteSet({"domCC"}) /\ Cardinality({"domCC"}) = 1
    BY FS_Singleton
  <2>3. Cardinality({"domCC"} \cup {"ipCC"}) = 1 + 1
    BY <2>2, FS_AddElement
  <2> QED
    BY <1>4, <2>1, <2>3 DEF V, Votes, s
<1>5. CASE ~ (d = cc /\ i = cc) /\ (d = cc \/ i = cc)
  <2>1. V = {"domCC"} \/ V = {"ipCC"}
    BY <1>3, <1>5
  <2>2. Cardinality(V) = 1
    BY <2>1, FS_Singleton
  <2> QED
    BY <1>5, <2>2 DEF V, Votes, s
<1>6. CASE ~ (d = cc \/ i = cc)
  <2>1. V = {}
    BY <1>3, <1>6
  <2>2. Cardinality(V) = 0
    BY <2>1, FS_EmptySet
  <2> QED
    BY <1>6, <2>2 DEF V, Votes, s
<1> QED
  BY <1>4, <1>5, <1>6

\* They have a majority only if they agree.
LEMMA MajorityOfTwo ==
  ASSUME NEW d \in CC, NEW i \in CC, NEW failed \in BOOLEAN, NEW isIP \in BOOLEAN
  PROVE  Majority(Missed(d, i, failed, isIP)) = IF d # None /\ d = i THEN {d} ELSE {}
<1> DEFINE s == Missed(d, i, failed, isIP)
<1> HIDE DEF s
<1>1. \A cc \in Countries :
        Votes(s, cc) = IF d = cc /\ i = cc THEN 2 ELSE IF d = cc \/ i = cc THEN 1 ELSE 0
  BY TwoVoters DEF s
<1>2. d # None => d \in Countries
  BY DEF CC
<1>3. None \notin Countries
  BY CountryFacts
<1>4. Majority(s) = {cc \in Countries : cc = d /\ cc = i}
  BY <1>1 DEF Majority, Leaders
<1> QED
  BY <1>2, <1>3, <1>4 DEF s

\* What the table is down to, then.
Ruling(d, i, failed, isIP) ==
  IF isIP THEN Decided(i, IF i # None THEN "ip-only" ELSE "unknown")
  ELSE IF d # None /\ d = i THEN Decided(d, "high")
  ELSE IF failed THEN Decided(d, IF d # None THEN "low-dns-failed" ELSE "unknown")
  ELSE IF d # None /\ i # None
    THEN Decided(d, IF d = ID THEN "medium-domain-id-offshore-host"
                              ELSE "medium-domain-cc-mismatch")
  ELSE IF d = None /\ i = ID THEN Decided(ID, "medium-generic-tld-id-host")
  ELSE IF d # None THEN Decided(d, "low-dns-failed")
  ELSE Decided(i, IF i # None THEN "ip-only" ELSE "unknown")

LEMMA DecideMissed ==
  ASSUME NEW d \in CC, NEW i \in CC, NEW failed \in BOOLEAN, NEW isIP \in BOOLEAN
  PROVE  Decide(Missed(d, i, failed, isIP)) = {Ruling(d, i, failed, isIP)}
<1> DEFINE s == Missed(d, i, failed, isIP)
<1>1. /\ s.domCC = d /\ s.ipCC = i /\ s.asnCC = None /\ s.rdapCC = None
      /\ s.generic = (d = None) /\ s.dnsFailed = failed /\ s.isIP = isIP
  BY DEF Missed
<1>2. Majority(s) = IF d # None /\ d = i THEN {d} ELSE {}
  BY MajorityOfTwo
<1> HIDE DEF s
<1>3. {Decided(cc, "high") : cc \in {d}} = {Decided(d, "high")}
  OBVIOUS
<1>4. Decide(s) =
        IF isIP THEN {Decided(i, IF i # None THEN "ip-only" ELSE "unknown")}
        ELSE IF d # None /\ d = i THEN {Decided(d, "high")}
        ELSE {Fallback(s)}
  BY <1>1, <1>2, <1>3 DEF Decide
<1>5. Fallback(s) =
        IF failed THEN Decided(d, IF d # None THEN "low-dns-failed" ELSE "unknown")
        ELSE IF d # None /\ i # None
          THEN Decided(d, IF d = ID THEN "medium-domain-id-offshore-host"
                                    ELSE "medium-domain-cc-mismatch")
        ELSE IF d = None /\ i = ID THEN Decided(ID, "medium-generic-tld-id-host")
        ELSE IF d # None THEN Decided(d, "low-dns-failed")
        ELSE Decided(i, IF i # None THEN "ip-only" ELSE "unknown")
  BY <1>1 DEF Fallback
<1> QED
  BY <1>4, <1>5 DEF s, Ruling

\* The property, in these terms.
LEMMA AgreesMeans ==
  DecideAgrees <=>
    (layer = "done" /\ hits = {} =>
       Decide(Missed(q.domCC, ipCC, dnsFailed, q.kind = "ip"))
         = {Decided(result.final, result.tier)})
BY DEF DecideAgrees, Missed

\* A step that does not end the classification, or ends it with a hit, or leaves
\* it as it is.
LEMMA NoDecision ==
  ASSUME layer' # "done" \/ hits' # {}
  PROVE  DecideAgrees'
BY DEF DecideAgrees

\* What a layer ends with is what Decide says.
LEMMA FinishAgrees ==
  ASSUME IInv, NEW f, NEW t, Finish(f, t),
         Decide(Missed(q.domCC, ipCC, dnsFailed, q.kind = "ip")) = {Decided(f, t)}
  PROVE  DecideAgrees'
<1>1. UNCHANGED <<q, dnsFailed, ipCC>> /\ result'.final = f /\ result'.tier = t
  <2> DEFINE g == result.field
  <2>1. result' = [final |-> f, tier |-> t, field |-> g]
    BY DEF Finish
  <2> HIDE DEF g
  <2>2. result'.final = f /\ result'.tier = t
    BY <2>1
  <2> QED
    BY <2>2 DEF Finish, input, found
<1>2. Decide(Missed(q.domCC, ipCC, dnsFailed, q.kind = "ip"))'
        = Decide(Missed(q.domCC, ipCC, dnsFailed, q.kind = "ip"))
  BY <1>1
<1>3. Decided(result.final, result.tier)' = Decided(f, t)
  BY <1>1
<1> QED
  BY <1>2, <1>3 DEF DecideAgrees, Missed

LEMMA SignalsAgree ==
  ASSUME IInv, Descent,
         IPOnly \/ Agree \/ Mismatch \/ GenericIDHost \/ SingleSignal \/ DnsDomain
  PROVE  DecideAgrees'
<1> DEFINE isIP == q.kind = "ip"
           s == Missed(q.domCC, ipCC, dnsFailed, isIP)
<1>1. /\ q.domCC \in CC /\ ipCC \in CC /\ dnsFailed \in BOOLEAN /\ isIP \in BOOLEAN
      /\ ID # None /\ (isIP => q.domCC = None)
  BY Known DEF IInv, TypeOK
<1> HIDE DEF isIP
<1>2. Decide(s) = {Ruling(q.domCC, ipCC, dnsFailed, isIP)}
  BY <1>1, DecideMissed
<1> HIDE DEF s
<1> USE DEF isIP, Ruling
<1>3. CASE IPOnly
  <2>1. isIP /\ layer = "ip"
    BY <1>3, Known DEF IPOnly
  <2>2. \/ ipCC # None /\ Finish(ipCC, "ip-only")
        \/ ipCC = None /\ Finish(None, "unknown")
    BY <1>3 DEF IPOnly
  <2>3. \/ ipCC # None /\ Decide(s) = {Decided(ipCC, "ip-only")}
        \/ ipCC = None /\ Decide(s) = {Decided(None, "unknown")}
    BY <1>2, <2>1
  <2> QED
    BY <2>2, <2>3, FinishAgrees DEF s
<1>4. CASE Agree
  <2>1. ~ isIP /\ layer = "agree"
    BY <1>4, Known DEF Agree, AddressLayers
  <2>2. \/ q.domCC # None /\ ipCC = q.domCC /\ Finish(q.domCC, "high")
        \/ Goto("mismatch")
    BY <1>4 DEF Agree
  <2>3. q.domCC # None /\ ipCC = q.domCC => Decide(s) = {Decided(q.domCC, "high")}
    BY <1>2, <2>1
  <2>4. Goto("mismatch") => layer' # "done"
    BY DEF Goto
  <2> QED
    BY <2>2, <2>3, <2>4, FinishAgrees, NoDecision DEF s
<1>5. CASE Mismatch
  <2> DEFINE t == IF q.domCC = ID THEN "medium-domain-id-offshore-host"
                                  ELSE "medium-domain-cc-mismatch"
  <2>1. ~ isIP /\ layer = "mismatch" /\ (q.domCC = None \/ ipCC # q.domCC)
    BY <1>5, Known DEF Mismatch, AddressLayers
  <2>2. \/ q.domCC # None /\ ipCC # None /\ Finish(q.domCC, t)
        \/ Goto("dnsRdap") \/ Goto("asn")
    BY <1>5 DEF Mismatch
  <2>3. dnsFailed => ipCC = None
    BY Known
  <2>4. q.domCC # None /\ ipCC # None => Decide(s) = {Decided(q.domCC, t)}
    BY <1>2, <2>1, <2>3
  <2>5. Goto("dnsRdap") \/ Goto("asn") => layer' # "done"
    BY DEF Goto
  <2> HIDE DEF t
  <2> QED
    BY <2>2, <2>4, <2>5, FinishAgrees, NoDecision DEF s
<1>6. CASE GenericIDHost
  <2>1. ~ isIP /\ layer = "genericID" /\ (dnsFailed => ipCC = None)
    BY <1>6, Known DEF GenericIDHost, AddressLayers
  <2>2. \/ q.domCC = None /\ ipCC = ID /\ Finish(ID, "medium-generic-tld-id-host")
        \/ Goto("apexTls") \/ Goto("wayback")
    BY <1>6 DEF GenericIDHost
  <2>3. q.domCC = None /\ ipCC = ID => Decide(s) = {Decided(ID, "medium-generic-tld-id-host")}
    BY <1>1, <1>2, <2>1
  <2>4. Goto("apexTls") \/ Goto("wayback") => layer' # "done"
    BY DEF Goto
  <2> QED
    BY <2>2, <2>3, <2>4, FinishAgrees, NoDecision DEF s
<1>7. CASE SingleSignal
  <2>1. /\ ~ isIP /\ layer = "single" /\ (dnsFailed => ipCC = None)
        /\ q.domCC = None \/ ipCC = None
    BY <1>7, Known DEF SingleSignal, AddressLayers, Early
  <2>2. dnsFailed \/ q.domCC # None \/ ipCC # ID
    BY <2>1 DEF Descent, Sited
  <2>3. \/ q.domCC # None /\ ipCC = None /\ Finish(q.domCC, "low-dns-failed")
        \/ q.domCC = None /\ ipCC # None /\ Finish(ipCC, "ip-only")
        \/ q.domCC = None /\ ipCC = None /\ Finish(None, "unknown")
    BY <1>7, <2>1 DEF SingleSignal
  <2>4. /\ q.domCC # None /\ ipCC = None => Decide(s) = {Decided(q.domCC, "low-dns-failed")}
        /\ q.domCC = None /\ ipCC # None => Decide(s) = {Decided(ipCC, "ip-only")}
        /\ q.domCC = None /\ ipCC = None => Decide(s) = {Decided(None, "unknown")}
    BY <1>1, <1>2, <2>1, <2>2
  <2> QED
    BY <2>3, <2>4, FinishAgrees DEF s
<1>8. CASE DnsDomain
  <2>1. ~ isIP /\ layer = "dnsDomain" /\ dnsFailed /\ ipCC = None
    BY <1>8, Known DEF DnsDomain, AddressLayers
  <2>2. \/ q.domCC # None /\ Finish(q.domCC, "low-dns-failed")
        \/ q.domCC = None /\ Finish(None, "unknown")
    BY <1>8 DEF DnsDomain
  <2>3. /\ q.domCC # None => Decide(s) = {Decided(q.domCC, "low-dns-failed")}
        /\ q.domCC = None => Decide(s) = {Decided(None, "unknown")}
    BY <1>2, <2>1
  <2> QED
    BY <2>2, <2>3, FinishAgrees DEF s
<1> QED
  BY <1>3, <1>4, <1>5, <1>6, <1>7, <1>8

\* A source that is asked ends the classification with a hit, or not at all.
LEMMA LookupAgrees ==
  ASSUME NEW s, NEW h, NEW m, m # "done", NEW t, NEW recorded, Consult(s, h, m, t, recorded)
  PROVE  DecideAgrees'
<1>1. layer' # "done" \/ hits' # {}
  BY DEF Consult, Goto
<1> QED
  BY <1>1, NoDecision

LEMMA StepAgrees == IInv /\ Descent /\ DecideAgrees /\ [Next]_vars => DecideAgrees'
<1> SUFFICES ASSUME IInv, Descent, DecideAgrees, [Next]_vars PROVE DecideAgrees'
  OBVIOUS
<1>1. CASE Step
  <2>1. CASE RejectBogon \/ RefuseHost \/ LookupAddress \/ Resolve
    <3>1. layer' # "done"
      BY <2>1 DEF RejectBogon, RefuseHost, LookupAddress, Resolve, Goto
    <3> QED
      BY <3>1, NoDecision
  <2>2. CASE IPOnly \/ Agree \/ Mismatch \/ GenericIDHost \/ SingleSignal \/ DnsDomain
    BY <2>2, SignalsAgree
  <2>3. CASE \/ AskASN \/ AskTLS \/ AskCTLog \/ AskScan \/ AskRDAP \/ AskWayback
             \/ ApexTLS \/ ApexCTLog \/ ApexScan \/ ApexRDAP \/ ApexWayback
             \/ DnsRDAP \/ DnsWayback
    <3>1. layer' # "done" \/ hits' # {}
      BY <2>3
      DEF AskASN, AskTLS, AskCTLog, AskScan, AskRDAP, AskWayback, ApexTLS, ApexCTLog,
          ApexScan, ApexRDAP, ApexWayback, DnsRDAP, DnsWayback, Lookup, Consult, Goto
    <3> QED
      BY <3>1, NoDecision
  <2> QED
    BY <1>1, <2>1, <2>2, <2>3 DEF Step
<1>2. CASE UNCHANGED vars
  BY <1>2 DEF vars, DecideAgrees
<1> QED
  BY <1>1, <1>2 DEF Next

----------------------------------------------------------------------------
(* The theorems.                                                           *)

\* Every step keeps the invariant.
LEMMA StepKeeps == IInv /\ [Next]_vars => IInv'
<1> SUFFICES ASSUME IInv, [Next]_vars PROVE IInv'
  OBVIOUS
<1>1. CASE Step
  <2>1. CASE \/ RejectBogon \/ RefuseHost \/ LookupAddress \/ IPOnly
             \/ Resolve \/ Agree \/ Mismatch
    BY <2>1, RejectKeeps, LookupAddressKeeps, IPOnlyKeeps, ResolveKeeps, AgreeKeeps,
       MismatchKeeps
  <2>2. CASE AskASN \/ GenericIDHost \/ SingleSignal \/ ApexWayback
    BY <2>2, AskASNKeeps, GenericIDHostKeeps, SingleSignalKeeps, ApexWaybackKeeps
  <2>3. CASE \/ AskTLS \/ AskCTLog \/ AskScan \/ AskRDAP \/ AskWayback
             \/ ApexTLS \/ ApexCTLog \/ ApexScan \/ ApexRDAP
    BY <2>3, AskKeeps
  <2>4. CASE DnsRDAP \/ DnsWayback \/ DnsDomain
    BY <2>4, DnsKeeps, DnsDomainKeeps
  <2> QED
    BY <1>1, <2>1, <2>2, <2>3, <2>4 DEF Step
<1>2. CASE UNCHANGED vars
  <2>1. (TypeOK /\ Placed /\ OneAtMost /\ Empty)'
    BY <1>2 DEF vars, IInv, TypeOK, Placed, OneAtMost, Empty
  <2>2. (DomainOverAddress /\ NoSignalLost)'
    BY <1>2 DEF vars, IInv, DomainOverAddress, NoSignalLost
  <2>3. EvidenceMatches'
    BY <1>2 DEF vars, IInv, EvidenceMatches
  <2> QED
    BY <2>1, <2>2, <2>3 DEF IInv
<1> QED
  BY <1>1, <1>2 DEF Next

LEMMA Invariance == Spec => []IInv
BY InitIInv, StepKeeps, PTL DEF Spec

\* Every variable keeps its type: the result's country and tier among them.
THEOREM TypeCorrect == Spec => []TypeOK
<1>1. IInv => TypeOK
  BY DEF IInv
<1> QED
  BY <1>1, Invariance, PTL

\* The ccTLD is the answer when it and the address's country are both known, and
\* no enrichment source is asked then (classifyHost's first three layers).
THEOREM DomainWins == Spec => []DomainOverAddress
<1>1. IInv => DomainOverAddress
  BY DEF IInv
<1> QED
  BY <1>1, Invariance, PTL

\* A source's tier is given only with that source's field and as the last source
\* asked, down every branch of the ladder and for the parent's sources too.
THEOREM TierHasItsEvidence == Spec => []EvidenceMatches
<1>1. IInv => EvidenceMatches
  BY DEF IInv
<1> QED
  BY <1>1, Invariance, PTL

\* No branch of the ladder drops the country it has: the answer is "unknown"
\* when nothing at all has been found, and only then.
THEOREM SignalsAreKept == Spec => []NoSignalLost
<1>1. IInv => NoSignalLost
  BY DEF IInv
<1> QED
  BY <1>1, Invariance, PTL

LEMMA OrderInvariance == Spec => [](Descent /\ DecideAgrees)
<1>1. Init => DecideAgrees
  BY DEF Init, DecideAgrees
<1> QED
  BY <1>1, InitDescends, StepDescends, StepAgrees, Invariance, PTL DEF Spec

\* Down every branch, a source is asked only when every available source that
\* ranks above it has been asked and has missed, and none is asked twice.
THEOREM StrongerSourcesComeFirst == Spec => []StrongestFirst
<1>1. Descent => StrongestFirst
  BY DEF Descent
<1> QED
  BY <1>1, OrderInvariance, PTL

\* Every branch gives a tier without a source at that tier's place in the ladder:
\* the available sources above it, and no others, have been asked and have missed.
THEOREM SignalTiersComeInTurn == Spec => []SignalTiersInTurn
<1>1. Descent => SignalTiersInTurn
  BY DEF Descent
<1> QED
  BY <1>1, OrderInvariance, PTL

\* Without a hit the ladder of Classify and the table of Decide have one result,
\* and Decide's does not depend on the order of its map.
THEOREM LadderIsTable == Spec => []DecideAgrees
BY OrderInvariance, PTL

----------------------------------------------------------------------------
(* Decide and the order of its map.                                        *)

\* Two pairs of signals that agree, and not with each other.
Pairs(s) == \E c, d \in Countries : c # d /\ Votes(s, c) = 2 /\ Votes(s, d) = 2

For(s, c) == {v \in Voters : s[v] = c}

LEMMA FourVoters == IsFiniteSet(Voters) /\ Cardinality(Voters) = 4
<1>1. IsFiniteSet({"domCC"}) /\ Cardinality({"domCC"}) = 1
  BY FS_Singleton
<1>2. /\ IsFiniteSet({"domCC"} \cup {"ipCC"})
      /\ Cardinality({"domCC"} \cup {"ipCC"}) = 2
  BY <1>1, FS_AddElement
<1>3. /\ IsFiniteSet(({"domCC"} \cup {"ipCC"}) \cup {"asnCC"})
      /\ Cardinality(({"domCC"} \cup {"ipCC"}) \cup {"asnCC"}) = 3
  BY <1>2, FS_AddElement
<1>4. /\ IsFiniteSet((({"domCC"} \cup {"ipCC"}) \cup {"asnCC"}) \cup {"rdapCC"})
      /\ Cardinality((({"domCC"} \cup {"ipCC"}) \cup {"asnCC"}) \cup {"rdapCC"}) = 4
  BY <1>3, FS_AddElement
<1>5. Voters = (({"domCC"} \cup {"ipCC"}) \cup {"asnCC"}) \cup {"rdapCC"}
  BY DEF Voters
<1> QED
  BY <1>4, <1>5

\* A signal is one vote, for one country.
LEMMA VotesAreShared ==
  ASSUME NEW s, NEW c, NEW d, c # d
  PROVE  /\ Votes(s, c) \in Nat
         /\ Votes(s, c) + Votes(s, d) <= 4
         /\ Votes(s, c) + Votes(s, d) = 4 => For(s, c) \cup For(s, d) = Voters
<1>1. For(s, c) \in SUBSET Voters /\ For(s, d) \in SUBSET Voters
  BY DEF For
<1>2. For(s, c) \cap For(s, d) = {}
  BY DEF For
<1>3. IsFiniteSet(For(s, c)) /\ IsFiniteSet(For(s, d))
  BY <1>1, FourVoters, FS_Subset
<1>4. Cardinality(For(s, c)) \in Nat /\ Cardinality(For(s, d)) \in Nat
  BY <1>3, FS_CardinalityType
<1>5. Cardinality(For(s, c) \cap For(s, d)) = 0
  BY <1>2, FS_EmptySet
<1>6. Cardinality(For(s, c) \cup For(s, d))
        = Cardinality(For(s, c)) + Cardinality(For(s, d))
  <2> DEFINE S == For(s, c)
             T == For(s, d)
  <2> HIDE DEF S, T
  <2>1. Cardinality(S \cup T)
          = Cardinality(S) + Cardinality(T) - Cardinality(S \cap T)
    BY <1>3, FS_Union DEF S, T
  <2>2. /\ Cardinality(S) \in Nat /\ Cardinality(T) \in Nat
        /\ Cardinality(S \cap T) = 0
    BY <1>4, <1>5 DEF S, T
  <2>3. Cardinality(S \cup T) = Cardinality(S) + Cardinality(T)
    BY <2>1, <2>2
  <2> QED
    BY <2>3 DEF S, T
<1>7. For(s, c) \cup For(s, d) \in SUBSET Voters
  BY <1>1
<1>8. /\ Cardinality(For(s, c) \cup For(s, d)) <= 4
      /\ Cardinality(For(s, c) \cup For(s, d)) = 4
           => For(s, c) \cup For(s, d) = Voters
  BY <1>7, FourVoters, FS_Subset
<1>9. Votes(s, c) = Cardinality(For(s, c)) /\ Votes(s, d) = Cardinality(For(s, d))
  BY DEF Votes, For
<1> QED
  BY <1>4, <1>6, <1>8, <1>9

\* Two pairs leave no vote to anybody else.
LEMMA PairsTakeAll ==
  ASSUME NEW s, NEW c, NEW d, c # d, Votes(s, c) = 2, Votes(s, d) = 2
  PROVE  /\ \A v \in Voters : s[v] \in {c, d}
         /\ \A e : e \notin {c, d} => Votes(s, e) = 0
<1>1. For(s, c) \cup For(s, d) = Voters
  BY VotesAreShared
<1>2. \A v \in Voters : s[v] \in {c, d}
  BY <1>1 DEF For
<1>3. ASSUME NEW e, e \notin {c, d} PROVE Votes(s, e) = 0
  <2>1. {v \in Voters : s[v] = e} = {}
    BY <1>2, <1>3
  <2> QED
    BY <2>1, FS_EmptySet DEF Votes
<1> QED
  BY <1>2, <1>3

\* Only two pairs make two leaders with a majority.
LEMMA LeadersArePairs ==
  ASSUME NEW s, NEW c \in Majority(s), NEW d \in Majority(s), c # d
  PROVE  Pairs(s)
<1>1. /\ c \in Countries /\ Votes(s, c) >= 2 /\ Votes(s, d) <= Votes(s, c)
      /\ d \in Countries /\ Votes(s, d) >= 2 /\ Votes(s, c) <= Votes(s, d)
  BY DEF Majority, Leaders
<1>2. Votes(s, c) \in Nat /\ Votes(s, d) \in Nat /\ Votes(s, c) + Votes(s, d) <= 4
  BY VotesAreShared
<1>3. Votes(s, c) = 2 /\ Votes(s, d) = 2
  BY <1>1, <1>2
<1> QED
  BY <1>1, <1>3 DEF Pairs

\* Decide's loop over a map (decision.go:65) can end in two ways exactly when
\* two signals agree on one country and the other two on another; it takes all
\* four signals, and Classify, which stops at the first source that hits, never
\* has them all.
THEOREM DecideIsDetermined ==
  \A s \in Signals :
    /\ (\E r : Decide(s) = {r}) <=> ~ Pairs(s)
    /\ Pairs(s) => \A v \in Voters : s[v] # None
<1> SUFFICES ASSUME NEW s \in Signals
             PROVE  /\ (\E r : Decide(s) = {r}) <=> ~ Pairs(s)
                    /\ Pairs(s) => \A v \in Voters : s[v] # None
  OBVIOUS
<1>1. ASSUME Pairs(s)
      PROVE  (\A v \in Voters : s[v] # None) /\ ~ \E r : Decide(s) = {r}
  <2>1. PICK c, d \in Countries : c # d /\ Votes(s, c) = 2 /\ Votes(s, d) = 2
    BY <1>1 DEF Pairs
  <2>2. \A v \in Voters : s[v] \in {c, d}
    BY <2>1, PairsTakeAll
  <2>3. \A v \in Voters : s[v] # None
    BY <2>2, CountryFacts
  <2>4. \A e \in Countries : Votes(s, e) <= 2
    BY <2>1, PairsTakeAll
  <2>5. c \in Majority(s) /\ d \in Majority(s)
    BY <2>1, <2>4 DEF Majority, Leaders
  <2>6. s.asnCC # None
    BY <2>3 DEF Voters
  <2>7. Decide(s) = {Decided(cc, "high") : cc \in Majority(s)}
    BY <2>5, <2>6 DEF Decide
  <2>8. Decided(c, "high") \in Decide(s) /\ Decided(d, "high") \in Decide(s)
    BY <2>5, <2>7
  <2>9. Decided(c, "high") # Decided(d, "high")
    BY <2>1 DEF Decided
  <2> QED
    BY <2>3, <2>8, <2>9
<1>2. ASSUME ~ Pairs(s) PROVE \E r : Decide(s) = {r}
  <2>1. CASE s.isIP /\ s.asnCC = None /\ s.rdapCC = None
    BY <2>1 DEF Decide
  <2>2. CASE ~ (s.isIP /\ s.asnCC = None /\ s.rdapCC = None) /\ Majority(s) = {}
    BY <2>2 DEF Decide
  <2>3. CASE ~ (s.isIP /\ s.asnCC = None /\ s.rdapCC = None) /\ Majority(s) # {}
    <3>1. PICK c : c \in Majority(s)
      BY <2>3
    <3>2. Majority(s) = {c}
      BY <1>2, <3>1, LeadersArePairs
    <3>3. Decide(s) = {Decided(cc, "high") : cc \in {c}}
      BY <2>3, <3>2 DEF Decide
    <3> QED
      BY <3>3
  <2> QED
    BY <2>1, <2>2, <2>3
<1> QED
  BY <1>1, <1>2
=============================================================================
