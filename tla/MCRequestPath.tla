---------------------------- MODULE MCRequestPath ----------------------------
(* Small instances of RequestPath for TLC. *)
EXTENDS RequestPath

CONSTANTS logging, logging2, governance, cache

\* logging2 is a new instance of the plugin of the same name as logging.
MCNameOf == [p \in {logging, logging2, governance, cache} |->
               CASE p \in {logging, logging2} -> "logging"
                 [] p = governance -> "governance" [] p = cache -> "cache"]
MCInit == <<governance, logging>>
MCOrders == {<<"logging", "governance">>, <<"cache">>}

\* One new order is enough where the orders race with other changes.
MCOrder == {<<"logging", "governance">>}

\* Bound: with more than one fallback left to try the list changes once.
FewChanges == link + fallbacks > 1 => changes <= 1
====
