----------------------------- MODULE UrlPolicy -----------------------------
(***************************************************************************)
(* defaultUrlPolicy (packages/core/src/security/url-policy.ts): the order  *)
(* of its tests and the IPv4 ranges it refuses.                            *)
(*                                                                         *)
(* A URL is what new URL() makes of it: whether it parses, its scheme and  *)
(* its host.  A host is a record: a name, an IPv4 literal with its four    *)
(* octets, a number that is no address, or an IPv6 literal with the answer *)
(* isBlockedIpv6 gives for it, whose matching of text is not modelled.     *)
(***************************************************************************)
EXTENDS Integers, Sequences

\* UrlPolicyOptions, and the options of defaultUrlPolicy().
policy(allowHttp, extraDeny) == [allowHttp |-> allowHttp, deny |-> extraDeny]
defaultPolicy == policy(TRUE, {})

name(n) == [kind |-> "name", name |-> n]
ipv4(a, b, c, d) == [kind |-> "ipv4", octets |-> <<a, b, c, d>>]
numeric == [kind |-> "numeric"]
ipv6(reserved) == [kind |-> "ipv6", reserved |-> reserved]

url(scheme, host) == [parses |-> TRUE, scheme |-> scheme, host |-> host]
invalid == [parses |-> FALSE]

isBlockedIpv4(octets) ==
    LET a == octets[1]
        b == octets[2]
    IN  \/ a \in {10, 127, 0}
        \/ a = 169 /\ b = 254
        \/ a = 172 /\ b \in 16..31
        \/ a = 192 /\ b = 168
        \/ a = 100 /\ b \in 64..127
        \/ a >= 224

\* The reason of the refusal, or allowed.  name("localhost") stands for its
\* subdomains too.
check(u, p) ==
    CASE ~u.parses                                            -> "invalid_url"
      [] u.parses /\ ~(\/ u.scheme = "https"
                       \/ p.allowHttp /\ u.scheme = "http")    -> "blocked_scheme"
      [] OTHER ->
         LET h == u.host
         IN  CASE h \in p.deny                                -> "denied_host"
               [] h \notin p.deny /\ h = name("localhost")    -> "loopback_hostname"
               [] OTHER ->
                  CASE h.kind = "ipv4" /\ isBlockedIpv4(h.octets) -> "private_or_reserved_ipv4"
                    [] h.kind = "numeric"                         -> "ambiguous_numeric_host"
                    [] h.kind = "ipv6" /\ h.reserved              -> "private_or_reserved_ipv6"
                    [] OTHER                                      -> "allowed"

allowed(u, p) == check(u, p) = "allowed"
=============================================================================
