------------------------------ MODULE Decision ------------------------------
(***************************************************************************)
(* The tiers of internal/classifier/decision.go and Decide, which weighs   *)
(* all signals at once where Classify asks for one after the other.  The   *)
(* winner of the votes is found by a loop over a Go map, whose order       *)
(* changes from run to run: Decide is the set of what it can return.       *)
(***************************************************************************)
EXTENDS Naturals, FiniteSets

CONSTANTS
  Countries,   \* the country codes
  ID,          \* the one the ladder treats specially
  None         \* the empty country code

ASSUME CountriesAssumption == ID \in Countries /\ None \notin Countries

----------------------------------------------------------------------------
Sources == {"asn", "tls", "ctlog", "scan", "rdap", "wayback"}

CC == Countries \cup {None}

\* The tier a source's answer earns (decision.go:6).
TierOf(s) ==
  CASE s = "asn"     -> "high-asn-brand"
    [] s = "tls"     -> "high-ssl-cert"
    [] s = "ctlog"   -> "high-ct-log"
    [] s = "scan"    -> "high-content-scan"
    [] s = "rdap"    -> "high-rdap-registrant"
    [] s = "wayback" -> "medium-wayback-snapshot"

Tiers ==
  {TierOf(s) : s \in Sources}
    \cup {"high", "medium-domain-id-offshore-host", "medium-domain-cc-mismatch",
          "medium-generic-tld-id-host", "low-dns-failed", "ip-only", "unknown"}

----------------------------------------------------------------------------
Voters == {"domCC", "ipCC", "asnCC", "rdapCC"}

\* The signals; generic: the domain's type is "generic" or "".
Signals == [domCC : CC, ipCC : CC, asnCC : CC, rdapCC : CC,
            generic : BOOLEAN, dnsFailed : BOOLEAN, isIP : BOOLEAN]

Decided(cc, tier) == [final |-> cc, tier |-> tier]

Votes(s, cc) == Cardinality({v \in Voters : s[v] = cc})

\* The countries with the most votes: the map's order says which is `best`.
Leaders(s) ==
  {cc \in Countries : Votes(s, cc) > 0 /\ \A d \in Countries : Votes(s, d) <= Votes(s, cc)}

\* Faulty variant: one signal agrees with itself.
MajorityOfOne(s) == {cc \in Leaders(s) : Votes(s, cc) >= 1}

Majority(s) == {cc \in Leaders(s) : Votes(s, cc) >= 2}

\* No two signals agree: the first that counts.
Fallback(s) ==
  IF s.asnCC # None THEN Decided(s.asnCC, "high-asn-brand")
  ELSE IF s.rdapCC # None THEN Decided(s.rdapCC, "high-rdap-registrant")
  ELSE IF s.dnsFailed
    THEN Decided(s.domCC, IF s.domCC # None THEN "low-dns-failed" ELSE "unknown")
  ELSE IF s.domCC # None /\ s.ipCC # None
    THEN Decided(s.domCC, IF s.domCC = ID THEN "medium-domain-id-offshore-host"
                                          ELSE "medium-domain-cc-mismatch")
  ELSE IF s.domCC = None /\ s.generic /\ s.ipCC = ID
    THEN Decided(ID, "medium-generic-tld-id-host")
  ELSE IF s.domCC # None THEN Decided(s.domCC, "low-dns-failed")
  ELSE Decided(s.ipCC, IF s.ipCC # None THEN "ip-only" ELSE "unknown")

Decide(s) ==
  IF s.isIP /\ s.asnCC = None /\ s.rdapCC = None
    THEN {Decided(s.ipCC, IF s.ipCC # None THEN "ip-only" ELSE "unknown")}
  ELSE IF Majority(s) # {} THEN {Decided(cc, "high") : cc \in Majority(s)}
  ELSE {Fallback(s)}

=============================================================================
