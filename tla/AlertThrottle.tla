---------------------------- MODULE AlertThrottle ----------------------------
(***************************************************************************)
(* What the alert cooldown promises, with no buffer, no threads and no     *)
(* cache: a cooldown key is granted (may be announced on the notification  *)
(* channels) at most once in any interval of Cooldown seconds, the instant *)
(* of a grant being the clock reading it was decided with.  AlertPipeline  *)
(* is shown to implement this specification.                               *)
(***************************************************************************)
EXTENDS Integers

CONSTANTS Times,      \* the clock readings
          Cooldown    \* ALERT_COOLDOWN_INTERVAL_SEC

VARIABLE granted      \* the grants so far: a set of <<key, instant>> pairs

\* A key is free at t when each of its grants is at least Cooldown old.
Free(k, t) == \A g \in granted : g[1] = k => g[2] + Cooldown <= t

\* One announcement is granted all the keys it names, or none of them.
Grant(K, t) ==
    /\ \A k \in K : Free(k, t)
    /\ granted' = granted \cup {<<k, t>> : k \in K}

\* The keys granted by a step are the ones the grants of the next state add.
Init == granted = {}
Next == \E t \in Times : Grant({g[1] : g \in granted' \ granted}, t)
Spec == Init /\ [][Next]_granted

\* Two grants of one key are never less than Cooldown apart.
Spaced(G) ==
    \A g, h \in G :
        g[1] = h[1] /\ g # h => g[2] + Cooldown <= h[2] \/ h[2] + Cooldown <= g[2]
==============================================================================
