------------------------------ MODULE Webhooks ------------------------------
(***************************************************************************)
(* The outbox and its dispatcher.  A ledger write leaves one delivery per  *)
(* subscribed endpoint; workers claim due deliveries under a lease, send   *)
(* them one after another outside any transaction, and record each         *)
(* outcome.  Workers crash, are slow and overlap; subscribers fail; people *)
(* register, disable and remove endpoints and replay deliveries.           *)
(*                                                                         *)
(* Times are counted down: `wait` is how long until next_attempt_at.       *)
(***************************************************************************)
EXTENDS Integers, FiniteSets, Sequences

CONSTANTS Event,         \* event ids (bounds the outbox)
          NoEvent,
          Endpoint,      \* endpoint ids (bounds registrations)
          Subscribed,    \* pairs <<event, endpoint>> the subscriptions cover
          Worker,        \* cron runs that may overlap
          BatchSize,     \* 20
          MaxAttempts,   \* 8
          FailureThreshold,  \* 20
          Lease,         \* CLAIM_LEASE_MS, 60 s
          RequestTimeout,    \* 10 s
          Backoff,       \* possible delays before a retry
          MaxCrashes     \* crashes considered (bound)

ASSUME CountsAssumption ==
  /\ BatchSize \in Nat \ {0} /\ MaxAttempts \in Nat \ {0}
  /\ FailureThreshold \in Nat \ {0} /\ MaxCrashes \in Nat
ASSUME TimesAssumption ==
  /\ Lease \in Nat \ {0} /\ RequestTimeout \in Nat \ {0}
  /\ RequestTimeout < Lease
  /\ Backoff \subseteq Nat /\ Backoff # {}
ASSUME NamesAssumption == /\ NoEvent \notin Event /\ Subscribed \subseteq Event \X Endpoint
                          /\ IsFiniteSet(Event) /\ IsFiniteSet(Endpoint)

VARIABLES writer,    \* ledger writes that announce an event
          endpoint,  \* rows of webhook_endpoints
          delivery,  \* rows of webhook_deliveries, by event and endpoint
          queue,     \* what each worker has claimed and not yet finished
          elapsed,   \* how long its present request has been out
          crashes,
          since,     \* history: how long ago a delivering row was last claimed
          lapsed     \* history: how often its claim has outlived its lease

vars == <<writer, endpoint, delivery, queue, elapsed, crashes, since, lapsed>>

Delivery == Event \X Endpoint

WriterRow == [step : {"idle", "inserting", "done"}, targets : SUBSET Endpoint]
NoWriter == [step |-> "idle", targets |-> {}]

EndpointRow == [state : {"absent", "enabled", "disabled", "removed"}, failures : Nat]

DeliveryRow == [status : {"absent", "pending", "delivering", "succeeded", "failed"},
                attempts : Nat, wait : Nat, replayOf : Event \cup {NoEvent}]
NoDelivery == [status |-> "absent", attempts |-> 0, wait |-> 0, replayOf |-> NoEvent]
Queued == [NoDelivery EXCEPT !.status = "pending"]

\* A claimed row, with the attempt count RETURNING answered.
Claim == [id : Delivery, attempts : Nat]

Init ==
  /\ writer = [v \in Event |-> NoWriter]
  /\ endpoint = [p \in Endpoint |-> [state |-> "absent", failures |-> 0]]
  /\ delivery = [d \in Delivery |-> NoDelivery]
  /\ queue = [w \in Worker |-> <<>>]
  /\ elapsed = [w \in Worker |-> 0]
  /\ crashes = 0
  /\ since = [d \in Delivery |-> 0]
  /\ lapsed = [d \in Delivery |-> 0]

Enabled(p) == endpoint[p].state = "enabled"
Exists(p) == endpoint[p].state \in {"enabled", "disabled"}
Unused(v) == writer[v].step = "idle" /\ \A p \in Endpoint : delivery[<<v, p>>].status = "absent"

(***************************************************************************)
(* The ledger write's side: enqueue, inside its transaction.               *)
(***************************************************************************)
ReadEndpoints(v) ==
  /\ Unused(v)
  /\ writer' = [writer EXCEPT ![v] =
       [step |-> "inserting",
        targets |-> {p \in Endpoint : Enabled(p) /\ <<v, p>> \in Subscribed}]]
  /\ UNCHANGED <<endpoint, delivery, queue, elapsed, crashes, since, lapsed>>

\* The rows commit with the entry.
CommitEvent(v) ==
  /\ writer[v].step = "inserting"
  /\ \A p \in writer[v].targets : Exists(p)
  /\ delivery' = [d \in Delivery |->
       IF d[1] = v /\ d[2] \in writer[v].targets THEN Queued ELSE delivery[d]]
  /\ writer' = [writer EXCEPT ![v] = [step |-> "done", targets |-> {}]]
  /\ UNCHANGED <<endpoint, queue, elapsed, crashes, since, lapsed>>

\* The transaction fails, for a reason of its own or because an endpoint it
\* read has been removed (webhook_deliveries_endpoint_fk): no entry, no rows.
AbortEvent(v) ==
  /\ writer[v].step = "inserting"
  /\ writer' = [writer EXCEPT ![v] = [step |-> "done", targets |-> {}]]
  /\ UNCHANGED <<endpoint, delivery, queue, elapsed, crashes, since, lapsed>>

(***************************************************************************)
(* The webhook service.                                                    *)
(***************************************************************************)
Register(p) ==
  /\ endpoint[p].state = "absent"
  /\ endpoint' = [endpoint EXCEPT ![p].state = "enabled"]
  /\ UNCHANGED <<writer, delivery, queue, elapsed, crashes, since, lapsed>>

\* Mutant: enabling again keeps the count.
SetEnabledKeepingCount(p, on) ==
  /\ Exists(p)
  /\ endpoint' = [endpoint EXCEPT ![p].state = IF on THEN "enabled" ELSE "disabled"]
  /\ UNCHANGED <<writer, delivery, queue, elapsed, crashes, since, lapsed>>

SetEnabled(p, on) ==
  /\ Exists(p)
  /\ endpoint' = [endpoint EXCEPT ![p] =
       [state |-> IF on THEN "enabled" ELSE "disabled", failures |-> 0]]
  /\ UNCHANGED <<writer, delivery, queue, elapsed, crashes, since, lapsed>>

\* The deliveries go with their endpoint.
Remove(p) ==
  /\ Exists(p)
  /\ endpoint' = [endpoint EXCEPT ![p] = [state |-> "removed", failures |-> 0]]
  /\ delivery' = [d \in Delivery |-> IF d[2] = p THEN NoDelivery ELSE delivery[d]]
  /\ UNCHANGED <<writer, queue, elapsed, crashes, since, lapsed>>

\* A new row under a new event id `v`; the old id travels in the payload.
Replay(d, v) ==
  /\ delivery[d].status # "absent"
  /\ Unused(v)
  /\ delivery' = [delivery EXCEPT ![<<v, d[2]>>] = [Queued EXCEPT !.replayOf = d[1]]]
  /\ writer' = [writer EXCEPT ![v].step = "done"]
  /\ UNCHANGED <<endpoint, queue, elapsed, crashes, since, lapsed>>

(***************************************************************************)
(* The dispatcher.                                                         *)
(***************************************************************************)
\* Mutant: `delivering` is a flag with no lease.
ClaimableUnlessClaimed(d) ==
  /\ delivery[d].status = "pending"
  /\ delivery[d].wait = 0
  /\ Enabled(d[2])

Claimable(d) ==
  /\ delivery[d].status \in {"pending", "delivering"}
  /\ delivery[d].wait = 0
  /\ Enabled(d[2])

\* LIMIT: as many as are due, up to the batch.  Which ones and in what order
\* depends on due times no longer kept here.
Batches ==
  LET due == {d \in Delivery : Claimable(d)}
      size == IF Cardinality(due) < BatchSize THEN Cardinality(due) ELSE BatchSize
  IN  {q \in [1..size -> due] : \A i, j \in 1..size : q[i] = q[j] => i = j}

\* Mutant: the lease is not pushed out.
LeasedForNoTime(row) ==
  [status |-> "delivering", attempts |-> row.attempts + 1, wait |-> 0,
   replayOf |-> row.replayOf]

Leased(row) ==
  [status |-> "delivering", attempts |-> row.attempts + 1, wait |-> Lease,
   replayOf |-> row.replayOf]

\* Claimed a lease ago or longer, and no outcome yet.
RunOut(d) == delivery[d].status = "delivering" /\ since[d] >= Lease

\* `claim`: one UPDATE over rows it locks.
ClaimBatch(w) ==
  /\ queue[w] = <<>>
  /\ \E batch \in Batches :
       /\ batch # <<>>
       /\ queue' = [queue EXCEPT ![w] =
            [i \in DOMAIN batch |->
               [id |-> batch[i], attempts |-> delivery[batch[i]].attempts + 1]]]
       /\ delivery' = [d \in Delivery |->
            IF \E i \in DOMAIN batch : batch[i] = d THEN Leased(delivery[d]) ELSE delivery[d]]
       /\ since' = [d \in Delivery |-> IF \E i \in DOMAIN batch : batch[i] = d THEN 0 ELSE since[d]]
       /\ lapsed' = [d \in Delivery |->
            IF RunOut(d) /\ \E i \in DOMAIN batch : batch[i] = d THEN lapsed[d] + 1 ELSE lapsed[d]]
  /\ elapsed' = [elapsed EXCEPT ![w] = 0]
  /\ UNCHANGED <<writer, endpoint, crashes>>

\* How a request ends: a 2xx; something worth trying again (5xx, 408, 425,
\* 429, a transport error, the timeout); a refusal, or an address not allowed.
Outcomes == {"ok", "retry", "refused"}

\* Mutant: one attempt too many.
ExhaustedAfterMax(claim, outcome) == outcome = "refused" \/ claim.attempts > MaxAttempts

Exhausted(claim, outcome) ==
  \/ outcome = "refused"
  \/ outcome = "retry" /\ claim.attempts >= MaxAttempts

\* `finish` on the delivery's row, whoever holds it by now.
Recorded(row, claim, outcome, delay) ==
  IF row.status = "absent" THEN row
  ELSE CASE outcome = "ok"             -> [row EXCEPT !.status = "succeeded", !.wait = 0]
         [] Exhausted(claim, outcome)  -> [row EXCEPT !.status = "failed", !.wait = 0]
         [] OTHER                      -> [row EXCEPT !.status = "pending", !.wait = delay]

\* The circuit breaker, in the same transaction.
Counted(row, outcome) ==
  IF row.state \notin {"enabled", "disabled"} THEN row
  ELSE IF outcome = "ok" THEN [row EXCEPT !.failures = 0]
  ELSE [state |-> IF row.failures + 1 >= FailureThreshold THEN "disabled" ELSE row.state,
        failures |-> row.failures + 1]

FinishAttempt(w) ==
  /\ queue[w] # <<>>
  /\ \E outcome \in Outcomes, delay \in Backoff :
       LET claim == Head(queue[w]) IN
       /\ delivery' = [delivery EXCEPT ![claim.id] = Recorded(@, claim, outcome, delay)]
       /\ endpoint' = [endpoint EXCEPT ![claim.id[2]] = Counted(@, outcome)]
       /\ since' = [since EXCEPT ![claim.id] = 0]
  /\ queue' = [queue EXCEPT ![w] = Tail(@)]
  /\ elapsed' = [elapsed EXCEPT ![w] = 0]
  /\ UNCHANGED <<writer, crashes, lapsed>>

\* The function instance is killed with a batch in hand.
Crash(w) ==
  /\ queue[w] # <<>>
  /\ crashes < MaxCrashes
  /\ crashes' = crashes + 1
  /\ queue' = [queue EXCEPT ![w] = <<>>]
  /\ elapsed' = [elapsed EXCEPT ![w] = 0]
  /\ UNCHANGED <<writer, endpoint, delivery, since, lapsed>>

Aged(row) == [row EXCEPT !.wait = IF @ > 0 THEN @ - 1 ELSE 0]

\* Time passes; no request outlives its AbortSignal.
Tick ==
  /\ \A w \in Worker : queue[w] # <<>> => elapsed[w] < RequestTimeout
  /\ \/ \E d \in Delivery : delivery[d].wait > 0
     \/ \E w \in Worker : queue[w] # <<>>
  /\ delivery' = [d \in Delivery |-> Aged(delivery[d])]
  /\ elapsed' = [w \in Worker |-> IF queue[w] # <<>> THEN elapsed[w] + 1 ELSE 0]
  /\ since' = [d \in Delivery |->
       IF delivery[d].status = "delivering" /\ since[d] < Lease THEN since[d] + 1 ELSE since[d]]
  /\ UNCHANGED <<writer, endpoint, queue, crashes, lapsed>>

Outbox == \E v \in Event : ReadEndpoints(v) \/ CommitEvent(v) \/ AbortEvent(v)

Service ==
  \/ \E p \in Endpoint : \/ Register(p) \/ Remove(p)
                         \/ \E on \in BOOLEAN : SetEnabled(p, on)
  \/ \E d \in Delivery, v \in Event : Replay(d, v)

Dispatch(w) == ClaimBatch(w) \/ FinishAttempt(w)

Next == \/ Outbox \/ Service \/ Tick
        \/ \E w \in Worker : Dispatch(w) \/ Crash(w)

Spec == Init /\ [][Next]_vars

\* The cron keeps firing, a request ends within its timeout, and time passes.
FairSpec ==
  /\ Spec
  /\ \A w \in Worker : WF_vars(ClaimBatch(w)) /\ WF_vars(FinishAttempt(w))
  /\ WF_vars(Tick)

(***************************************************************************)
(* Properties.                                                             *)
(***************************************************************************)
TypeOK ==
  /\ writer \in [Event -> WriterRow]
  /\ endpoint \in [Endpoint -> EndpointRow]
  /\ delivery \in [Delivery -> DeliveryRow]
  /\ queue \in [Worker -> Seq(Claim)]
  /\ elapsed \in [Worker -> 0..RequestTimeout]
  /\ crashes \in 0..MaxCrashes
  /\ since \in [Delivery -> 0..Lease]
  /\ lapsed \in [Delivery -> Nat]

Holds(w, d) == \E i \in DOMAIN queue[w] : queue[w][i].id = d

\* "Two workers take disjoint sets rather than both sending the same delivery"
\* (the dispatcher's first point): what one worker has claimed and not finished,
\* no other has claimed.
ClaimsAreDisjoint ==
  \A w, x \in Worker, d \in Delivery : Holds(w, d) /\ Holds(x, d) => w = x

\* What the lease does give, however long a batch takes: a delivery is in the
\* hands of two workers only once a claim of it has outlived its lease
\* (`delivering` rows come due again a lease after their claim).
SharedOnceLapsed ==
  \A w, x \in Worker, d \in Delivery :
    Holds(w, d) /\ Holds(x, d) => w = x \/ lapsed[d] > 0

\* The delivery log is evidence: an outcome once recorded is not unmade, short
\* of removing the endpoint, unless a claim of the delivery has outlived its
\* lease and two workers may have sent it (`finish` updates by id alone).
FinalAnswersStand ==
  [][\A d \in Delivery :
       delivery[d].status \in {"succeeded", "failed"} =>
         delivery'[d].status \in {delivery[d].status, "absent"} \/ lapsed[d] > 0]_delivery

\* MAX_ATTEMPTS: a delivery is tried MAX_ATTEMPTS times, and once more for each
\* claim of it that outlived its lease, be its worker dead or only slow, and in
\* whatever order the outcomes of those claims come in.
AttemptsAreBounded == \A d \in Delivery : delivery[d].attempts <= MaxAttempts + lapsed[d]

\* The circuit opens: an endpoint that has failed FAILURE_THRESHOLD times in a
\* row is not enabled, whichever workers counted the failures.
BreakerOpens == \A p \in Endpoint : Enabled(p) => endpoint[p].failures < FailureThreshold

\* "A crash costs one duplicate delivery rather than a permanently stalled
\* queue": a delivery to an endpoint that stays enabled is settled in the end.
DeliveriesEnd ==
  \A d \in Delivery :
    delivery[d].status \in {"pending", "delivering"} ~>
      \/ delivery[d].status \in {"succeeded", "failed", "absent"}
      \/ ~Enabled(d[2])

=============================================================================
