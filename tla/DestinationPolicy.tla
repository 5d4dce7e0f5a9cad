-------------------------- MODULE DestinationPolicy --------------------------
(***************************************************************************)
(* internal/sources, destination_policy.go: which Prometheus URLs a        *)
(* manager started with given flags may send requests to.  Pure            *)
(* definitions; module Measurement gives the manager and the passes.       *)
(***************************************************************************)
EXTENDS Integers

CONSTANTS
  HostNames,  \* the DNS names and addresses that texts can denote
  Searched,   \* the names that the resolver extends with a search domain
  Ports,      \* the port numbers that texts can name
  NoPort      \* no port, or an empty one

ASSUME PortsAssumption    == Ports \subseteq Nat /\ NoPort \in Int \ Nat
ASSUME SearchedAssumption == Searched \subseteq HostNames

(***************************************************************************)
(* A host as it is written: what it denotes, whether its letters, or the   *)
(* groups of an IPv6 address, are spelled otherwise than net.IP.String or  *)
(* ToLower would, and its trailing dots.  "numeric" is a text of digits    *)
(* and dots that is no address, "scoped" holds a %, "illegal" any other    *)
(* text that is no DNS subdomain.                                          *)
(***************************************************************************)
HostKinds == {"dns", "ip", "numeric", "scoped", "illegal", "empty"}

Host == [kind : HostKinds, name : HostNames, variant : BOOLEAN, dots : 0..2]

(* A URL as it is written.  A scheme is compared after ToLower; "other" is *)
(* a scheme that is neither, "none" a text that url.Parse gives no scheme  *)
(* or an opaque part.  A port counts as its number, which is how Atoi and  *)
(* the dialer read it.                                                     *)
URL == [padded : BOOLEAN, scheme : {"http", "https", "HTTP", "HTTPS", "other", "none"},
        host : Host, port : Ports \cup {NoPort}, path : {"", "/", "/sub"},
        extras : SUBSET {"user", "query", "fragment"}]

ToLower(scheme) ==
  IF scheme = "HTTP" THEN "http" ELSE IF scheme = "HTTPS" THEN "https" ELSE scheme

(* One trailing dot goes, and a name or an address that keeps another one  *)
(* is refused.                                                             *)
canonicalHostname(h) ==
  [kind |-> h.kind, name |-> h.name, variant |-> FALSE,
   dots |-> IF h.dots = 0 THEN 0 ELSE h.dots - 1]

Canonicalizable(h) == h.kind \in {"dns", "ip"} /\ canonicalHostname(h).dots = 0

MutDefaultPort(u) == 80

DefaultPort(u) == IF ToLower(u.scheme) = "http" THEN 80 ELSE 443

Port(u) == IF u.port = NoPort THEN DefaultPort(u) ELSE u.port

PortRange == 1..65535

Parses(u) ==
  /\ ~u.padded
  /\ ToLower(u.scheme) \in {"http", "https"}
  /\ u.host.kind # "empty"
  /\ u.extras = {}
  /\ Canonicalizable(u.host)
  /\ Port(u) \in PortRange

Origin(u) ==
  [scheme |-> ToLower(u.scheme), host |-> canonicalHostname(u.host), port |-> Port(u)]

(***************************************************************************)
(* The flags of the manager: --prometheus-allowed-destination, repeated,   *)
(* and --prometheus-allow-any-destination.  The slash that ends a rule is  *)
(* trimmed before its path is looked at.                                   *)
(***************************************************************************)
TrimRight(path) == IF path = "/" THEN "" ELSE path

ValidRule(u) == Parses(u) /\ TrimRight(u.path) = ""

(* A constructor that keeps the good rules of a command line and the       *)
(* origins of the bad ones with them.                                      *)
MutValidFlags(f) == \A u \in f.rules : Parses(u)

ValidFlags(f) == ~(f.any /\ f.rules # {}) /\ \A u \in f.rules : ValidRule(u)

NewDestinationPolicy(f) ==
  [allowAny |-> f.any, allowed |-> {Origin(u) : u \in f.rules}]

Validate(p, u) == Parses(u) /\ (p.allowAny \/ Origin(u) \in p.allowed)

(***************************************************************************)
(* Where net/http connects to, given a URL that was let through: it dials  *)
(* the host as it is written, without regard to case, and an omitted port  *)
(* is the one of the scheme.  A trailing dot makes a name absolute, so a   *)
(* name that would have been searched leads elsewhere with it; an address  *)
(* with a dot is neither an address nor a name that can be resolved.       *)
(***************************************************************************)
Rooted(h) == h.dots = 1 /\ h.name \in Searched

Connects(u) == Parses(u) /\ ~(u.host.kind = "ip" /\ u.host.dots = 1)

Endpoint(u) ==
  [tls    |-> u.scheme \in {"https", "HTTPS"},
   host   |-> <<u.host.kind, u.host.name>>,
   rooted |-> Rooted(u.host),
   port   |-> IF u.port # NoPort THEN u.port
              ELSE IF u.scheme \in {"https", "HTTPS"} THEN 443 ELSE 80]

Nowhere == [tls |-> FALSE, host |-> <<"", "">>, rooted |-> FALSE, port |-> 0]

(* What a command line says of an endpoint, whether or not it is one that  *)
(* the manager accepts: rules, where there are any, are all that counts,   *)
(* and a rule with a path is none.                                         *)
Declares(f, e) ==
  IF f.rules = {} THEN f.any
  ELSE \E r \in f.rules : Connects(r) /\ TrimRight(r.path) = "" /\ Endpoint(r) = e

(* A rule whose dot says something that the policy does not look at.       *)
DotMatters(u) == Rooted(u.host) \/ (u.host.kind = "ip" /\ u.host.dots = 1)
=============================================================================
