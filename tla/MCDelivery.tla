----------------------------- MODULE MCDelivery -----------------------------
\* Instance of Delivery: a target, one that both policies refuse, and one that
\* only the stricter policy of the HTTP client refuses.
EXTENDS Delivery, TLC

CONSTANTS c1, c2, c3

MCCall == {c1, c2, c3}
MCUrl == {url("https", name("public")), url("http", name("public")),
          url("https", ipv4(192, 168, 0, 1))}
MCSubscription == {{<<"payment", "*">>}, {<<"payment", "paid", "*">>}}
\* Patches of one field, and of two together.
MCPatch ==
    {[NoChange EXCEPT !.url = u] : u \in MCUrl}
    \cup {[NoChange EXCEPT !.disabled = b] : b \in BOOLEAN}
    \cup {[NoChange EXCEPT !.eventTypes = t, !.disabled = FALSE] : t \in MCSubscription}
MCEventType == <<"payment", "paid">>
MCSchedule == <<1, 2>>
MCEnginePolicy == defaultPolicy
MCClientPolicy == policy(FALSE, {})

Symmetry == Permutations(MCCall)
=============================================================================
