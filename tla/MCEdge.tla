------------------------------- MODULE MCEdge -------------------------------
(***************************************************************************)
(* One browser and nine environments, most of which a process refuses.     *)
(***************************************************************************)
EXTENDS Edge

Base == <<"forge", ".", "tech">>
Of(sub) == <<sub, ".">> \o Base
H(name, upper, port) == [name |-> name, upper |-> upper, port |-> port]
Bare(name) == H(name, FALSE, 0)

Line(host, target, roles) ==
  [host |-> host, url |-> [scheme |-> "http", host |-> target, comma |-> FALSE], roles |-> roles]
EmptyLine == [host |-> None, url |-> None, roles |-> None]
SSHLine(lo, hi, isRange, target, roles) ==
  [lo |-> lo, hi |-> hi, isRange |-> isRange, target |-> target, roles |-> roles]
Target(host, port) == [host |-> host, port |-> port]

Apps == <<Line(Bare(Of("app")), "t1", None), EmptyLine, Line(Bare(Of("ops")), "t2", {"ops"})>>
Ranges == <<SSHLine(1, 2, TRUE, Target("s1", 0), {"dev"}), SSHLine(3, 3, FALSE, Target("s2", 1), {"ops"})>>

Good ==
  [base |-> Base, auth |-> Bare(Of("auth")), upstreams |-> Apps, ssh |-> Ranges, sshPaths |-> TRUE,
   landing |-> None, lifetime |-> None, idle |-> None, others |-> TRUE]

Elsewhere == [scheme |-> "http", userinfo |-> FALSE, host |-> Bare(<<"other", ".", "org">>)]
Envs == {
  Good,
  \* BASE_DOMAIN with a dot, a host in capitals, a line with a port, an app
  \* and a landing page elsewhere
  [Good EXCEPT !.base = <<".">> \o Base, !.landing = Elsewhere,
     !.upstreams = <<Line(H(Of("app"), TRUE, 0), "t1", {"dev"}), Line(H(Of("ops"), FALSE, 8080), "t2", None),
                    Line(Elsewhere.host, "t3", None)>>,
     !.ssh = <<>>, !.sshPaths = FALSE],
  \* AUTH_HOST ends in BASE_DOMAIN but is not under it
  [Good EXCEPT !.auth = Bare(<<"not">> \o Base)],
  \* one host twice, the second time in capitals and open to all
  [Good EXCEPT !.upstreams = <<Line(Bare(Of("app")), "t1", {"ops"}), Line(H(Of("app"), TRUE, 0), "t2", None)>>],
  \* the old format, an idle timeout beyond the lifetime
  [Good EXCEPT !.upstreams[1].url.comma = TRUE],
  [Good EXCEPT !.lifetime = 1],
  \* a range over another line's port, one too wide, no paths
  [Good EXCEPT !.ssh = <<SSHLine(2, 2, FALSE, Target("s2", 1), {"ops"}), SSHLine(1, 2, TRUE, Target("s1", 0), {"dev"})>>],
  [Good EXCEPT !.ssh[1].hi = 4],
  [Good EXCEPT !.sshPaths = FALSE]}

URLs == {Https(h) : h \in {Bare(Of("app")), H(Of("app"), TRUE, 8080), Bare(Of("ops")), Bare(Of("auth")), Elsewhere.host}}
Asked == {None, Elsewhere, Https(Bare(<<"not">> \o Base)), Https(Bare(<<"xn--", "a", ".">> \o Base)),
          [Https(Bare(Base)) EXCEPT !.userinfo = TRUE], Https(H(Of("ops"), FALSE, 443))}

Forged == [h \in {"X-Forge-Roles", "X-Forge-Next", "Accept"} |-> <<"client", h>>]
Inbounds == {
  [header |-> Without(Forged, ForgeHeader), announced |-> {}, trailer |-> <<>>, cookies |-> {"theme"}],
  [header |-> Forged, announced |-> {"X-Forge-Roles", "Digest"}, cookies |-> {},
   trailer |-> [h \in {"X-Forge-Roles", "Digest"} |-> <<"client", h>>]]}

Addresses == [c \in Client |-> "a1"]
Keys == {"login", "callback"} \X {"a1"}
Rate == [k \in Key |-> IF k[1] = "login" THEN 2 ELSE 1]
People == [c \in Client |-> [roles |-> {"dev"}, name |-> <<"a", "hi", "%">>]]
=============================================================================
