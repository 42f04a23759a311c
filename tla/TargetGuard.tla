----------------------------- MODULE TargetGuard ----------------------------
(***************************************************************************)
(* Where the proxy may connect to (internal/proxy/guard.go).  A host is a  *)
(* sequence of labels, a pattern a host that may begin with a wildcard;    *)
(* upper and lower case are one.  An address is a record: whether it is an *)
(* IPv4 one, and which of the special ranges it lies in, "local" if it is  *)
(* one of this machine at a port the proxy listens on.                     *)
(***************************************************************************)
EXTENDS Naturals, Sequences, SequencesExt

\* Exact, or "*.suffix", which the suffix itself does not match.
matchHost(p, host) ==
  /\ p.name # << >> /\ host # << >>
  /\ IF p.wild THEN IsSuffix(p.name, host) /\ host # p.name ELSE p.name = host

matchHostList(patterns, host) == \E p \in patterns : matchHost(p, host)

denyIP(targets, a) ==
  \/ targets.denyCloudMetadata /\ "metadata" \in a.in
  \/ targets.denyLinkLocal /\ "linkLocal" \in a.in
  \/ "loopback" \in a.in /\ ~targets.allowLoopback

\* The addresses of a name, all of them acceptable, or none: one that is denied
\* denies the name.  A failed lookup finds no address.
resolvedAndGuarded(targets, host, looked) ==
  IF \/ host = << >> \/ matchHostList(targets.denyHosts, host)
     \/ targets.allowHosts # {} /\ ~matchHostList(targets.allowHosts, host)
     \/ \E k \in DOMAIN looked : denyIP(targets, looked[k])
  THEN << >> ELSE looked

\* The address is one of the proxy's own listeners; one without a host of its
\* own listens on every local address.
isHairpin(listeners, a) ==
  \E l \in listeners :
    IF l.wild THEN a.in \cap {"local", "loopback", "linkLocal"} # {} ELSE l.id = a.id
=============================================================================
