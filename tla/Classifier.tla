----------------------------- MODULE Classifier -----------------------------
(***************************************************************************)
(* classifier.Classify (internal/classifier/classifier.go): one input goes *)
(* down the early-exit ladder.  Every layer is an action; what DNS, the    *)
(* RIR table and the enrichment sources answer is chosen when they are     *)
(* asked, and any subset of the sources may be configured (`check` drops   *)
(* some for --fast, --offline and the --no-... flags, `serve` has none).   *)
(*                                                                         *)
(* A source that is asked answers with a country or misses: its timeout,   *)
(* its network errors and its redacted records all look like a miss here.  *)
(***************************************************************************)
EXTENDS Decision, Sequences, SequencesExt

VARIABLES
  q,           \* the input: an address or a host, its ccTLD, is it a subdomain
  enabled,     \* the sources this classifier has
  layer,       \* the layer that runs next
  dnsFailed,   \* local variables of classifyHost
  public,      \*   is there a public address (firstPublic.IsValid())
  ipCC,        \*   its country in the RIR table
  result,      \* FinalCountry, Confidence and the per-source country fields
  asked,       \* history: the lookups made, as <<source, host>>, in order
  hits         \* history: the countries the sources have answered

vars == <<q, enabled, layer, dnsFailed, public, ipCC, result, asked, hits>>

----------------------------------------------------------------------------
Layers ==
  {"start", "agree", "mismatch", "done", "rejected", "ip",
   "asn", "tls", "ctlog", "scan", "rdap", "genericID", "wayback", "single",
   "dnsRdap", "dnsWayback", "dnsDomain",
   "apexTls", "apexCtlog", "apexScan", "apexRdap", "apexWayback"}

\* A host without a ccTLD is generic: domain.Country returns no country only
\* with the types "generic" and "" (suffix.go:12), the two that classifyHost
\* accepts for its host heuristic.  A subdomain is a host whose registrable
\* parent, the apex, is another host.
Init ==
  /\ q \in [kind : {"ip", "host"}, domCC : CC, subdomain : BOOLEAN]
  /\ q.kind = "ip" => q.domCC = None /\ ~ q.subdomain
  /\ enabled \in SUBSET Sources
  /\ layer = "start"
  /\ dnsFailed = FALSE
  /\ public = FALSE
  /\ ipCC = None
  /\ result = [final |-> None, tier |-> "", field |-> [s \in Sources |-> None]]
  /\ asked = <<>>
  /\ hits = {}

input == <<q, enabled>>
found == <<dnsFailed, public, ipCC>>

Finish(final, tier) ==
  /\ layer' = "done"
  /\ result' = [final |-> final, tier |-> tier, field |-> result.field]
  /\ UNCHANGED <<input, found, asked, hits>>

Goto(l) ==
  /\ layer' = l
  /\ UNCHANGED <<input, found, result, asked, hits>>

\* Ask source s about host h.  A source that is not configured and a miss lead
\* to the layer onMiss; a hit ends the ladder with `tier` and, if `recorded`,
\* with the country in the source's own field.
Consult(s, h, onMiss, tier, recorded) ==
  \/ s \notin enabled /\ Goto(onMiss)
  \/ /\ s \in enabled
     /\ asked' = Append(asked, <<s, h>>)
     /\ UNCHANGED <<input, found>>
     /\ \/ layer' = onMiss /\ UNCHANGED <<result, hits>>
        \/ \E cc \in Countries :
             /\ layer' = "done"
             /\ hits' = hits \cup {cc}
             /\ result' =
                  [final |-> cc, tier |-> tier,
                   field |-> IF recorded THEN [result.field EXCEPT ![s] = cc]
                             ELSE result.field]

Lookup(s, h, onMiss) == Consult(s, h, onMiss, TierOf(s), TRUE)

----------------------------------------------------------------------------
(* An address: classifyIP.                                                 *)

\* Reserved ranges are refused with ErrBogon.
RejectBogon ==
  /\ layer = "start" /\ q.kind = "ip"
  /\ Goto("rejected")

\* A public address: look it up, then ask for its network's brand.
LookupAddress ==
  /\ layer = "start" /\ q.kind = "ip"
  /\ public' = TRUE
  /\ ipCC' \in CC
  /\ layer' = "asn"
  /\ UNCHANGED <<input, dnsFailed, result, asked, hits>>

IPOnly ==
  /\ layer = "ip"
  /\ IF ipCC # None THEN Finish(ipCC, "ip-only") ELSE Finish(None, "unknown")

----------------------------------------------------------------------------
(* A host: classifyHost.                                                   *)

\* A classifier without a resolver (`check --offline`) refuses it with
\* ErrInvalidInput.
RefuseHost ==
  /\ layer = "start" /\ q.kind = "host"
  /\ Goto("rejected")

\* DNS fails, or finds only reserved addresses, or a public one, whose country
\* the RIR table may not know.
Resolve ==
  /\ layer = "start" /\ q.kind = "host"
  /\ \/ dnsFailed' = TRUE  /\ public' = FALSE /\ ipCC' = None
     \/ dnsFailed' = FALSE /\ public' = FALSE /\ ipCC' = None
     \/ dnsFailed' = FALSE /\ public' = TRUE  /\ ipCC' \in CC
  /\ layer' = "agree"
  /\ UNCHANGED <<input, result, asked, hits>>

\* Layer 1: the ccTLD and the address agree.
Agree ==
  /\ layer = "agree"
  /\ IF q.domCC # None /\ ipCC = q.domCC
     THEN Finish(q.domCC, "high")
     ELSE Goto("mismatch")

\* Faulty variant: only the .id mismatch returns.
MismatchOnlyID ==
  /\ layer = "mismatch"
  /\ IF q.domCC = ID /\ ipCC # None
     THEN Finish(ID, "medium-domain-id-offshore-host")
     ELSE Goto(IF dnsFailed THEN "dnsRdap" ELSE "asn")

\* Layers 2 and 3: they disagree, and the ccTLD wins.  Otherwise the ladder
\* forks on whether DNS failed.
Mismatch ==
  /\ layer = "mismatch"
  /\ IF q.domCC # None /\ ipCC # None
     THEN Finish(q.domCC, IF q.domCC = ID THEN "medium-domain-id-offshore-host"
                                          ELSE "medium-domain-cc-mismatch")
     ELSE Goto(IF dnsFailed THEN "dnsRdap" ELSE "asn")

(* The sources, when DNS answered (and, at first, for an address).         *)

\* The brand of the public address's network.
AskASN ==
  /\ layer = "asn"
  /\ LET next == IF q.kind = "ip" THEN "ip" ELSE "tls"
     IN  IF public THEN Lookup("asn", "input", next) ELSE Goto(next)

AskTLS == layer = "tls" /\ Lookup("tls", "input", "ctlog")

AskCTLog == layer = "ctlog" /\ Lookup("ctlog", "input", "scan")

\* Faulty variant: a miss of the content scan skips the registry.
AskScanLast == layer = "scan" /\ Lookup("scan", "input", "genericID")

AskScan == layer = "scan" /\ Lookup("scan", "input", "rdap")

AskRDAP == layer = "rdap" /\ Lookup("rdap", "input", "genericID")

\* A generic name on a host in Indonesia.
GenericIDHost ==
  /\ layer = "genericID"
  /\ IF q.domCC = None /\ ipCC = ID
     THEN Finish(ID, "medium-generic-tld-id-host")
     ELSE Goto(IF q.subdomain THEN "apexTls" ELSE "wayback")

AskWayback == layer = "wayback" /\ Lookup("wayback", "input", "single")

\* One signal or none.
SingleSignal ==
  /\ layer = "single"
  /\ IF q.domCC # None /\ ipCC = None THEN Finish(q.domCC, "low-dns-failed")
     ELSE IF ipCC # None THEN Finish(ipCC, "ip-only")
     ELSE Finish(None, "unknown")

(* enrichApex: the sources again, for the registrable parent.  Both        *)
(* branches run it; each returns to its own next layer.                    *)

ApexTLS == layer = "apexTls" /\ Lookup("tls", "apex", "apexCtlog")

ApexCTLog == layer = "apexCtlog" /\ Lookup("ctlog", "apex", "apexScan")

ApexScan == layer = "apexScan" /\ Lookup("scan", "apex", "apexRdap")

\* Faulty variant: the hit is filed as the input's certificate.
ApexRDAPMisfiled ==
  layer = "apexRdap" /\ Consult("rdap", "apex", "apexWayback", "high-ssl-cert", TRUE)

ApexRDAP == layer = "apexRdap" /\ Lookup("rdap", "apex", "apexWayback")

\* The switch on the source that follows enrichApex has a case for Wayback
\* after a DNS answer, and none after a DNS failure.
ApexWayback ==
  /\ layer = "apexWayback"
  /\ IF dnsFailed
     THEN Consult("wayback", "apex", "dnsWayback", "", FALSE)
     ELSE Lookup("wayback", "apex", "wayback")

(* The sources, when DNS failed: those that need no address.               *)

\* Faulty variant: the ccTLD is taken as soon as the registry misses.
DnsRDAPOnly ==
  /\ layer = "dnsRdap"
  /\ Lookup("rdap", "input", IF q.domCC # None THEN "dnsDomain" ELSE "dnsWayback")

DnsRDAP ==
  /\ layer = "dnsRdap"
  /\ Lookup("rdap", "input", IF q.subdomain THEN "apexTls" ELSE "dnsWayback")

DnsWayback == layer = "dnsWayback" /\ Lookup("wayback", "input", "dnsDomain")

\* Faulty variant: without the fallback to the ccTLD.
DnsUnknown == layer = "dnsDomain" /\ Finish(None, "unknown")

DnsDomain ==
  /\ layer = "dnsDomain"
  /\ IF q.domCC # None THEN Finish(q.domCC, "low-dns-failed")
     ELSE Finish(None, "unknown")

----------------------------------------------------------------------------
Step ==
  \/ RejectBogon \/ LookupAddress \/ IPOnly
  \/ RefuseHost \/ Resolve \/ Agree \/ Mismatch
  \/ AskASN \/ AskTLS \/ AskCTLog \/ AskScan \/ AskRDAP
  \/ GenericIDHost \/ AskWayback \/ SingleSignal
  \/ ApexTLS \/ ApexCTLog \/ ApexScan \/ ApexRDAP \/ ApexWayback
  \/ DnsRDAP \/ DnsWayback \/ DnsDomain

Over == layer \in {"done", "rejected"}

\* One classification; when it is over nothing happens any more.
Next == Step \/ (Over /\ UNCHANGED vars)

Spec == Init /\ [][Next]_vars

----------------------------------------------------------------------------
(* Properties.                                                             *)

TypeOK ==
  /\ q \in [kind : {"ip", "host"}, domCC : CC, subdomain : BOOLEAN]
  /\ enabled \subseteq Sources
  /\ layer \in Layers
  /\ dnsFailed \in BOOLEAN
  /\ public \in BOOLEAN
  /\ ipCC \in CC
  /\ result \in [final : CC, tier : Tiers \cup {""}, field : [Sources -> CC]]
  /\ asked \in Seq(Sources \X {"input", "apex"})
  /\ hits \subseteq Countries

\* When both the ccTLD and the host's address give a country the ccTLD's is
\* the answer, and no source is asked (and none can overrule it).
DomainOverAddress ==
  q.domCC # None /\ ipCC # None =>
    /\ asked = <<>>
    /\ layer = "done" =>
         /\ result.final = q.domCC
         /\ result.tier = "high" <=> ipCC = q.domCC

\* The code's order of the sources (classifier.go:341-472 and enrichApex, with
\* the reasons its comments give: the live certificate before the logged ones,
\* and both before the page), and what this input allows of it: the brand needs
\* an address, the host's own certificate, CT log and page are asked only after
\* a DNS answer, the apex only for a subdomain.
Ladder ==
  << <<"asn", "input">>, <<"tls", "input">>, <<"ctlog", "input">>,
     <<"scan", "input">>, <<"rdap", "input">>,
     <<"tls", "apex">>, <<"ctlog", "apex">>, <<"scan", "apex">>,
     <<"rdap", "apex">>, <<"wayback", "apex">>, <<"wayback", "input">> >>

Askable(s, h) ==
  /\ s \in enabled
  /\ q.kind = "ip" => s = "asn"
  /\ s = "asn" => public
  /\ dnsFailed /\ h = "input" => s \in {"rdap", "wayback"}
  /\ h = "apex" => q.subdomain

\* The lookups that rank above the k-th and that this input allows.
AvailableBefore(k) == {Ladder[j] : j \in {i \in 1..k - 1 : Askable(Ladder[i][1], Ladder[i][2])}}

\* One order on every branch: after a DNS answer and after a DNS failure, for the
\* host and for its parent, every lookup was made when just the available ones
\* that rank above it had been.  No branch skips a source that the code ranks
\* above the one it asks, and none asks a source twice.
StrongestFirst ==
  \A n \in DOMAIN asked : \E k \in DOMAIN Ladder :
    /\ asked[n] = Ladder[k]
    /\ Askable(Ladder[k][1], Ladder[k][2])
    /\ {asked[j] : j \in 1..n - 1} = AvailableBefore(k)

\* The tiers that the ccTLD and the address give by themselves, without a source,
\* and the rung each is given before: the first three before any source, the host
\* in Indonesia after the sources about the input up to RDAP (classifier.go:421),
\* the others when no rung is left.
SignalTiers ==
  {"high", "medium-domain-id-offshore-host", "medium-domain-cc-mismatch",
   "medium-generic-tld-id-host", "low-dns-failed", "ip-only", "unknown"}

Turn(tier) ==
  IF tier \in {"high", "medium-domain-id-offshore-host", "medium-domain-cc-mismatch"} THEN 1
  ELSE IF tier = "medium-generic-tld-id-host" THEN 6
  ELSE Len(Ladder) + 1

\* A tier without a source is given in its turn on every branch: just the
\* available lookups that rank above its rung have been made, and all have missed.
\* So the fallbacks low-dns-failed, ip-only and unknown leave no available source
\* unasked, whether DNS failed or not, and the host heuristic is never tried
\* after the parent or the archive.
SignalTiersInTurn ==
  result.tier \in SignalTiers =>
    {asked[n] : n \in DOMAIN asked} = AvailableBefore(Turn(result.tier)) /\ hits = {}

\* The tier and the per-source fields tell where the country came from: a
\* source's tier is the tier of the last source asked, whose field holds the
\* final country, and no other source's field is set.
EvidenceMatches ==
  layer = "done" =>
    \A s \in Sources :
      /\ result.tier = TierOf(s) =>
           /\ result.field[s] = result.final
           /\ Last(asked)[1] = s
      /\ result.field[s] # None => result.tier = TierOf(s)

\* The result has no country, and says so, only when there was none to be had;
\* and its country is one that was found.
NoSignalLost ==
  layer = "done" =>
    /\ result.final \in {q.domCC, ipCC} \cup hits \cup {None}
    /\ result.final = None => q.domCC = None /\ ipCC = None /\ hits = {}
    /\ result.final = None <=> result.tier = "unknown"

\* A classification in which every source missed ends as Decide would have it
\* of the same signals, whatever order its map has: the ladder and the table are
\* two ways to the same tiers.
DecideAgrees ==
  layer = "done" /\ hits = {} =>
    Decide([domCC |-> q.domCC, ipCC |-> ipCC, asnCC |-> None, rdapCC |-> None,
            generic |-> q.domCC = None, dnsFailed |-> dnsFailed, isIP |-> q.kind = "ip"])
      = {Decided(result.final, result.tier)}

----------------------------------------------------------------------------
(* What the documents say, and the code does not do.                       *)

\* docs/confidence-tiers.md:3, "Each `Result.Confidence` is one of the tiers
\* below".
ConfidenceIsATier == layer = "done" => result.tier \in Tiers
=============================================================================
