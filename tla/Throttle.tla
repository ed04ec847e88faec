------------------------------ MODULE Throttle ------------------------------
(***************************************************************************)
(* The throttler that guards every route, as one address meets it: requests *)
(* are counted per handler, a count is forgotten THROTTLER_TTL after it was *)
(* made, and the request that exceeds THROTTLER_LIMIT blocks the handler.   *)
(* With it, the clock of the machine.                                       *)
(***************************************************************************)
EXTENDS Integers, Sequences

CONSTANTS
  Handlers,  \* the routes, which are counted apart
  Ttl,       \* THROTTLER_TTL
  Limit,     \* THROTTLER_LIMIT
  MaxClock   \* bound: the time at which the clock stops

ASSUME ThrottleAssumption ==
  /\ Ttl \in Nat \ {0}
  /\ Limit \in Nat \ {0}
  /\ MaxClock \in Nat

VARIABLES
  now,     \* the clock
  hits,    \* handler -> times of the requests that still count, oldest first
  blocked  \* handlers that refuse every request

throttleVars == <<now, hits, blocked>>

ThrottleInit ==
  /\ now = 0
  /\ hits = [h \in Handlers |-> <<>>]
  /\ blocked = {}

\* One request too few.
WithinLimit_OffByOne(n) == n + 1 < Limit

\* The limit is what may be counted, not the first number refused.
WithinLimit(n) == n < Limit

Admits(h) == h \notin blocked /\ WithinLimit(Len(hits[h]))

\* What a request does to the counters, be it admitted or not: a blocked
\* handler counts no further. A block has no end but a restart: its end is
\* Date.now() + THROTTLER_TTL, a number and the text that the configuration
\* hands on, which are joined to a time that is never reached.
Count(h) ==
  IF h \in blocked THEN UNCHANGED <<hits, blocked>>
  ELSE /\ hits' = [hits EXCEPT ![h] = Append(@, now)]
       /\ blocked' = IF Admits(h) THEN blocked ELSE blocked \cup {h}

\* The oldest count of a handler is due to be forgotten.
Expired(h) == hits[h] # <<>> /\ now >= Head(hits[h]) + Ttl

\* A timer takes the count back.
Forget(h) ==
  /\ h \notin blocked
  /\ Expired(h)
  /\ hits' = [hits EXCEPT ![h] = Tail(@)]
  /\ UNCHANGED <<now, blocked>>

\* Time passes when no timer is due.
Tick ==
  /\ now < MaxClock
  /\ \A h \in Handlers \ blocked : ~Expired(h)
  /\ now' = now + 1
  /\ UNCHANGED <<hits, blocked>>

\* The counters are in the memory of the process.
ForgetHits ==
  /\ hits' = [h \in Handlers |-> <<>>]
  /\ blocked' = {}

=============================================================================
