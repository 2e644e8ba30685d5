----------------------------- MODULE Idempotency -----------------------------
(***************************************************************************)
(* benzene-resilience, idempotency.py: the middleware in front of a        *)
(* handler, over the in-memory store, fed by a transport that delivers the *)
(* same logical message more than once.  The store's get and put never     *)
(* suspend, so the code before next() and the code after it are one step   *)
(* each; the handler in between is where other deliveries interleave.      *)
(***************************************************************************)
EXTENDS Naturals, FiniteSets, Sequences

CONSTANTS Deliveries,   \* delivery attempts; several may carry the same key
          HeaderOf,     \* HeaderOf[d][h]: the value of header h, or Absent
          Absent,       \* a header that is missing or empty
          KeyHeaders,   \* key_headers, in order of preference
          HasTtl, Ttl,  \* InMemoryIdempotencyStore's ttl in ticks, if any
          MaxOverlap,   \* how many deliveries the transport runs at a time
          MaxTime       \* bound on the clock, for model checking

ASSUME KeyHeadersAssumption == KeyHeaders \in Seq(STRING)
ASSUME HeadersAssumption ==
    \A d \in Deliveries : DOMAIN HeaderOf[d] = {KeyHeaders[i] : i \in DOMAIN KeyHeaders}
ASSUME TtlAssumption == HasTtl \in BOOLEAN /\ Ttl \in Nat /\ MaxTime \in Nat

VARIABLES pc,       \* where each delivery is
          entries,  \* InMemoryIdempotencyStore._entries: key -> [by, expires]
          now,      \* the store's clock
          source,   \* history: the delivery whose result this one ended with
          done_at   \* history: when the handler run of this delivery succeeded

vars == <<pc, entries, now, source, done_at>>

-----------------------------------------------------------------------------
\* _key_of: the first of the candidate headers that has a value.
KeyOf(d) ==
    LET present == {i \in DOMAIN KeyHeaders : HeaderOf[d][KeyHeaders[i]] # Absent}
    IN  IF present = {} THEN Absent
        ELSE HeaderOf[d][KeyHeaders[CHOOSE i \in present : \A j \in present : i <= j]]

Keys == {KeyOf(d) : d \in Deliveries} \ {Absent}

\* Results are told apart by the delivery whose handler run produced them.
Nobody == "nobody"
Never == MaxTime + Ttl + 1   \* expires_at is None

Handling == {d \in Deliveries : pc[d] = "handling"}

\* Fault: an entry is still served at the instant it expires.
RemembersTooLong(k) == k \in DOMAIN entries /\ now <= entries[k].expires

\* get: the entry is there and has not expired.
Remembers(k) == k \in DOMAIN entries /\ now < entries[k].expires

Init == /\ pc = [d \in Deliveries |-> "new"]
        /\ entries = <<>>
        /\ now = 0
        /\ source = [d \in Deliveries |-> Nobody]
        /\ done_at = [d \in Deliveries |-> Never]

-----------------------------------------------------------------------------
\* The middleware finds a remembered result and replays it.
Replay(d) ==
    /\ pc[d] = "new"
    /\ Cardinality(Handling) < MaxOverlap
    /\ KeyOf(d) # Absent
    /\ Remembers(KeyOf(d))
    /\ pc' = [pc EXCEPT ![d] = "replayed"]
    /\ source' = [source EXCEPT ![d] = entries[KeyOf(d)].by]
    /\ UNCHANGED <<entries, now, done_at>>

\* No key, or nothing remembered for it (an expired entry is deleted by the
\* look-up): the handler starts.
Begin(d) ==
    /\ pc[d] = "new"
    /\ Cardinality(Handling) < MaxOverlap
    /\ KeyOf(d) = Absent \/ ~Remembers(KeyOf(d))
    /\ pc' = [pc EXCEPT ![d] = "handling"]
    /\ entries' = [k \in DOMAIN entries \ {KeyOf(d)} |-> entries[k]]
    /\ UNCHANGED <<now, source, done_at>>

\* Fault: every result is remembered, whatever remember_when says.
PutAnything(d, outcome) ==
    IF KeyOf(d) # Absent /\ outcome # "raised"
    THEN entries' = [k \in DOMAIN entries \cup {KeyOf(d)} |->
                       IF k # KeyOf(d) THEN entries[k]
                       ELSE [by |-> d, expires |-> IF HasTtl THEN now + Ttl ELSE Never]]
    ELSE UNCHANGED entries

\* Fault: a keyless message is remembered under its missing key.
PutKeyless(d, outcome) ==
    IF outcome = "ok"
    THEN entries' = [k \in DOMAIN entries \cup {KeyOf(d)} |->
                       IF k # KeyOf(d) THEN entries[k]
                       ELSE [by |-> d, expires |-> IF HasTtl THEN now + Ttl ELSE Never]]
    ELSE UNCHANGED entries

\* Fault: the result is not put into the store.
PutForgets(d, outcome) == UNCHANGED entries

\* The tail of the middleware and put: a result that satisfies remember_when
\* (by default: it is successful) replaces whatever is stored for the key.
PutWhenSuccessful(d, outcome) ==
    IF KeyOf(d) # Absent /\ outcome = "ok"
    THEN entries' = [k \in DOMAIN entries \cup {KeyOf(d)} |->
                       IF k # KeyOf(d) THEN entries[k]
                       ELSE [by |-> d, expires |-> IF HasTtl THEN now + Ttl ELSE Never]]
    ELSE UNCHANGED entries

\* The handler ends: successfully, with a failure, without a result, or by
\* raising.  Only a success is an effect in the outside world.
End(d, outcome) ==
    /\ pc[d] = "handling"
    /\ pc' = [pc EXCEPT ![d] = IF outcome = "ok" THEN "succeeded" ELSE "failed"]
    /\ PutWhenSuccessful(d, outcome)
    /\ source' = [source EXCEPT ![d] = IF outcome \in {"raised", "none"} THEN Nobody ELSE d]
    /\ done_at' = [done_at EXCEPT ![d] = IF outcome = "ok" THEN now ELSE Never]
    /\ UNCHANGED now

\* time.monotonic.
Tick == /\ now < MaxTime
        /\ now' = now + 1
        /\ UNCHANGED <<pc, entries, source, done_at>>

Outcomes == {"ok", "failed", "none", "raised"}

Next == \/ \E d \in Deliveries :
              Replay(d) \/ Begin(d) \/ \E outcome \in Outcomes : End(d, outcome)
        \/ Tick

Spec == Init /\ [][Next]_vars

-----------------------------------------------------------------------------
\* The deliveries whose handler run succeeded for key k.
Effects(k) == {d \in Deliveries : KeyOf(d) = k /\ pc[d] = "succeeded"}

TypeOK == /\ pc \in [Deliveries -> {"new", "handling", "succeeded", "failed", "replayed"}]
          /\ DOMAIN entries \subseteq Keys
          /\ \A k \in DOMAIN entries : /\ entries[k].by \in Deliveries
                                       /\ entries[k].expires \in 0 .. Never
          /\ now \in 0 .. MaxTime
          /\ source \in [Deliveries -> Deliveries \cup {Nobody}]
          /\ done_at \in [Deliveries -> 0 .. Never]

\* A replay hands out the result of a run that succeeded for the same key: a
\* failure, an exception or a missing result is never pinned in place, and a
\* message never gets another message's result.
ReplaysSuccess ==
    \A d \in Deliveries : pc[d] = "replayed" => source[d] \in Effects(KeyOf(d))

\* While a success is remembered, the handler does not start again for its key.
DedupWhileRemembered ==
    [][\A d, e \in Deliveries :
          /\ pc[d] = "new" /\ pc'[d] = "handling"
          /\ pc[e] = "succeeded" /\ KeyOf(e) = KeyOf(d) /\ KeyOf(d) # Absent
          => HasTtl /\ now >= done_at[e] + Ttl]_vars

\* Once the ttl has passed, the remembered result is not replayed any more.
NoStaleReplay ==
    [][\A d \in Deliveries :
          pc[d] = "new" /\ pc'[d] = "replayed"
          => ~HasTtl \/ now < done_at[source'[d]] + Ttl]_vars

\* What the middleware replays, it may: the result of a run that succeeded for the
\* same key and that the store has not outlived.
ReplaysHonestly == [](TypeOK /\ ReplaysSuccess) /\ NoStaleReplay
=============================================================================
