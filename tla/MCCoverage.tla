------------------------------ MODULE MCCoverage ------------------------------
EXTENDS Dashboard

CONSTANTS s1, s2, i1, i2, x, y, messages, notifications, auth

\* Two sessions that share an element, which only the first decoded; the other
\* element is observed by both of its keys.
MCSource == (s1 :> s1) @@ (s2 :> s2) @@ (i1 :> s1) @@ (i2 :> s2)
MCSeen ==
  (s1 :> {[element |-> x, decoded |-> TRUE]}) @@
  (s2 :> {[element |-> x, decoded |-> FALSE],
          [element |-> y, decoded |-> FALSE], [element |-> y, decoded |-> TRUE]})

\* Both sessions play the same scenario.
MCKind == (x :> messages) @@ (y :> notifications)
MCScenario == (s1 :> auth) @@ (s2 :> auth)
=============================================================================
