--------------------------- MODULE MCMeasurement ---------------------------
(***************************************************************************)
(* Measurement, instantiated for TLC.                                      *)
(***************************************************************************)
EXTENDS Measurement

MCNoPort == -1

At(kind, name, variant, dots) ==
  [kind |-> kind, name |-> name, variant |-> variant, dots |-> dots]

Link(scheme, host, port) ==
  [padded |-> FALSE, scheme |-> scheme, host |-> host, port |-> port,
   path |-> "", extras |-> {}]

Prom  == At("dns", "prom", FALSE, 0)
Addr  == At("ip", "addr", FALSE, 0)
Svc   == At("dns", "svc", FALSE, 0)

(* Rules that name an endpoint as a user would not, an address, another    *)
(* scheme on the default port of http with a name that the resolver        *)
(* extends; a rule that is refused beside a good one.                      *)
Plain    == Link("http", Prom, NoPort)
Spelled  == Link("HTTP", At("dns", "prom", TRUE, 1), 80)
Numbered == Link("http", Addr, 65535)
TLS      == Link("HTTPS", Svc, NoPort)
TLSAt80  == Link("https", Svc, 80)
Absolute == [TLSAt80 EXCEPT !.host.dots = 1]
Pathed   == [Plain EXCEPT !.path = "/sub"]

MCFlags ==
  {[up |-> TRUE, any |-> FALSE, rules |-> r] :
     r \in {{}, {Spelled, Numbered}, {TLSAt80}, {Numbered, Pathed}}}
  \cup {[up |-> TRUE, any |-> TRUE, rules |-> r] : r \in {{}, {Plain}}}

(* The rules and other spellings of them, the ports at the edges, and each *)
(* way in which a URL is refused.                                          *)
MCBackends ==
  {Spelled, Numbered, TLS, TLSAt80, Absolute, Pathed,
   Link("http", At("ip", "addr", TRUE, 0), 65535), Link("http", At("ip", "addr", FALSE, 1), 65535),
   Link("http", Addr, 0), Link("http", Addr, 65536),
   Link("http", At("numeric", "addr", FALSE, 0), 80),
   Link("http", At("dns", "prom", FALSE, 2), 80),
   Link("http", At("empty", "prom", FALSE, 0), 80),
   [Plain EXCEPT !.padded = TRUE], [Plain EXCEPT !.scheme = "other"],
   [Plain EXCEPT !.extras = {"user"}]}

(* Four declarations of the workload, all on the one cAdvisor target, one  *)
(* that passes admission and cannot be resolved, and raw PromQL.           *)
Declared(type, job, unit, form) ==
  [type |-> type, block |-> TRUE, job |-> job, instance |-> "host", unit |-> unit,
   form |-> form, window |-> TRUE]

MCSources ==
  {Declared("docker", "", "u", "plain"), Declared("cgroup", "cadvisor", "u", "glob"),
   Declared("systemd", "", "u", "plain"), Declared("cgroup", "", "u", "doubled"),
   [Declared("promql", "", "u", "plain") EXCEPT !.instance = ""]}
=============================================================================
