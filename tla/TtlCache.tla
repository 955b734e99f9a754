------------------------------ MODULE TtlCache ------------------------------
(***************************************************************************)
(* What a CacheStore promises its callers, with none of its machinery: an  *)
(* entry is there until it expires, is deleted, or - when a limit is set - *)
(* is lost to a later write, least recently used entries first.  An entry  *)
(* vanishes at the instant it expires; when its memory is reclaimed, and   *)
(* by whom, cannot be seen.                                                *)
(***************************************************************************)
EXTENDS KeyOrder, Functions

CONSTANTS Keys, Values, Null, Limited, Exs, MsPerSecond, MaxTime

VARIABLES
    live,       \* the entries a caller can see: key -> [value, expiresAt]
    recency,    \* the order in which they were last read or written
    clock, reply

vars == <<live, recency, clock, reply>>

Init ==
    /\ live = [k \in {} |-> Null]
    /\ recency = {}
    /\ clock = 0
    /\ reply = [outcome |-> "none", key |-> Null, ok |-> FALSE, value |-> Null, seconds |-> 0]

Present == DOMAIN live

Answer(outcome, k, ok, value) ==
    /\ reply'.outcome = outcome /\ reply'.key = k
    /\ reply'.ok = ok /\ reply'.value = value

\* The clock moves to t: of the entries f only those still alive remain, in the order.
Become(f, order, t) ==
    LET dead == {k \in DOMAIN f : f[k].expiresAt # Null /\ t >= f[k].expiresAt}
    IN  /\ clock' = t
        /\ live' = Restrict(f, DOMAIN f \ dead)
        /\ recency' = Unlink(order, dead)

Readings == clock..MaxTime

Refuse(k, v) ==
    /\ Limited
    /\ Answer("tooLarge", k, FALSE, v)
    /\ UNCHANGED <<live, recency, clock>>

\* The written entry itself is never what a write loses.
Write(k, v, ex, t) ==
    LET expiresAt == IF ex = Null THEN Null ELSE clock + ex * MsPerSecond
        order     == AddLast(recency, k)
    IN  /\ Answer("stored", k, TRUE, v)
        /\ \E lost \in Prefixes(order) :
              /\ k \notin lost
              /\ lost # {} => Limited
              /\ Become([j \in (Present \cup {k}) \ lost |->
                            IF j = k THEN [value |-> v, expiresAt |-> expiresAt] ELSE live[j]],
                        Unlink(order, lost), t)

Read(k) ==
    /\ IF k \in Present THEN Answer("value", k, TRUE, live[k].value)
                        ELSE Answer("value", k, FALSE, Null)
    /\ recency' = Touch(recency, k)
    /\ UNCHANGED <<live, clock>>

Remove(k) ==
    /\ Answer("deleted", k, k \in Present, Null)
    /\ Become(Restrict(live, Present \ {k}), Unlink(recency, {k}), clock)

Test(k) ==
    /\ Answer("exists", k, k \in Present, Null)
    /\ UNCHANGED <<live, recency, clock>>

\* -2 is "missing", -1 "no expiry"; an expiring entry has between 0 and its whole
\* remaining seconds left, however the clock moves while it is asked.
TimeLeft(k, t) ==
    /\ Answer("ttl", k, k \in Present, Null)
    /\ \/ k \notin Present /\ reply'.seconds = -2
       \/ k \in Present /\ live[k].expiresAt = Null /\ reply'.seconds = -1
       \/ /\ k \in Present /\ live[k].expiresAt # Null
          /\ reply'.seconds \in 0..((live[k].expiresAt - clock) \div MsPerSecond)
    /\ Become(live, recency, t)

Pass(t) == Become(live, recency, t) /\ UNCHANGED reply

Next ==
    \/ \E k \in Keys, v \in Values : Refuse(k, v)
    \/ \E k \in Keys, v \in Values, ex \in Exs, t \in Readings : Write(k, v, ex, t)
    \/ \E k \in Keys : Read(k) \/ Remove(k) \/ Test(k)
    \/ \E k \in Keys, t \in Readings : TimeLeft(k, t)
    \/ \E t \in Readings : Pass(t)

Spec == Init /\ [][Next]_vars
=============================================================================
