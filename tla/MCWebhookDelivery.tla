------------------------ MODULE MCWebhookDelivery ---------------------------
(* WebhookDelivery for TLC: the delivery of the first run to e1 is followed. *)
EXTENDS WebhookDelivery

CONSTANTS e1, e2

FirstRow == <<1, e1>>

V4(a, b) == [v |-> 4, octets |-> <<a, b>>]
V6(f, g) == [v |-> 6, form |-> f, group |-> g]

\* A public name, one that also has a private address, one that is repointed at
\* the metadata endpoint (mapped), one that is gone, and a plain http URL.
MCTargets ==
    { [https |-> TRUE, addresses |-> {V4(93, 184), V6("other", 9734)}],
      [https |-> TRUE, addresses |-> {V4(93, 184), V4(10, 1)}],
      [https |-> TRUE, addresses |-> {V6("mapped", 169 * 256 + 254)}],
      [https |-> TRUE, addresses |-> {}],
      [https |-> FALSE, addresses |-> {V4(93, 184)}] }

\* The event's type, another one, none, and one with a type that no webhook is sent for.
MCAsked == { {"job.completed"}, {"budget.warning"}, {}, {"job.completed", "usage.recorded"} }

\* An event that is dispatched, one without an organization, one of no webhook's type.
MCEvents == { [type |-> "job.completed", org |-> TRUE], [type |-> "job.completed", org |-> FALSE],
              [type |-> "usage.recorded", org |-> TRUE] }

\* The mask arithmetic against the ranges written out, for every pair of octets.
ASSUME GuardAgrees ==
    \A a \in 0..255, b \in 0..255 :
        IsSafeIPv4(<<a, b>>) <=>
            /\ a \notin {0, 10, 127} \cup (224..239)
            /\ a = 172 => b \notin 16..31
            /\ a = 192 => b # 168
            /\ a = 169 => b # 254
            /\ a = 100 => b \notin 64..127

\* Every group of fe80::/10 and fc00::/7 is refused, and a mapped address is
\* judged as the IPv4 address it stands for.
ASSUME GuardCovers ==
    /\ \A g \in (65152..65215) \cup (64512..65023) : ~IsSafeIPv6(V6("other", g))
    /\ \A a \in 0..255, b \in 0..255 : UnwrapIPv4Mapped(a * 256 + b) = <<a, b>>
=============================================================================
