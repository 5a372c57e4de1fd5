--------------------------- MODULE WebhooksProofs ---------------------------
(***************************************************************************)
(* What holds of the outbox and its dispatcher for every set of events,    *)
(* endpoints and workers, whether or not a batch can be sent within its    *)
(* lease.                                                                  *)
(***************************************************************************)
EXTENDS Webhooks, FiniteSetTheorems, SequenceTheorems, TLAPS

(***************************************************************************)
(* Types.                                                                  *)
(***************************************************************************)
LEMMA DeliveryIsFinite == IsFiniteSet(Delivery)
BY NamesAssumption, FS_Product DEF Delivery

LEMMA NullTypes == NoDelivery \in DeliveryRow /\ Queued \in DeliveryRow /\ NoWriter \in WriterRow
BY DEF NoDelivery, Queued, DeliveryRow, NoWriter, WriterRow

LEMMA RowFields ==
  ASSUME NEW row \in DeliveryRow
  PROVE  /\ row.attempts \in Nat /\ row.wait \in Nat
         /\ row.status \in {"absent", "pending", "delivering", "succeeded", "failed"}
BY DEF DeliveryRow

\* A batch: claimable deliveries, none twice, no more than BATCH_SIZE.
LEMMA BatchShape ==
  ASSUME NEW q \in Batches
  PROVE  \E n \in Nat : /\ n <= BatchSize
                        /\ q \in [1..n -> Delivery]
                        /\ \A i \in 1..n : Claimable(q[i])
                        /\ \A i, j \in 1..n : q[i] = q[j] => i = j
<1> DEFINE due  == {d \in Delivery : Claimable(d)}
           size == IF Cardinality(due) < BatchSize THEN Cardinality(due) ELSE BatchSize
<1>1. IsFiniteSet(due)
  BY DeliveryIsFinite, FS_Subset
<1>2. Cardinality(due) \in Nat
  BY <1>1, FS_CardinalityType
<1>3. size \in Nat /\ size <= BatchSize
  BY <1>2, CountsAssumption
<1>4. q \in [1..size -> due] /\ \A i, j \in 1..size : q[i] = q[j] => i = j
  BY DEF Batches
<1> HIDE DEF size
<1> QED BY <1>3, <1>4

\* Leasing and ageing a row keep it a row.
LEMMA LeasedType ==
  ASSUME NEW row \in DeliveryRow
  PROVE  /\ Leased(row) \in DeliveryRow
         /\ Leased(row).status = "delivering" /\ Leased(row).wait = Lease
         /\ Leased(row).attempts = row.attempts + 1
BY RowFields, TimesAssumption DEF Leased, DeliveryRow

LEMMA AgedType ==
  ASSUME NEW row \in DeliveryRow
  PROVE  /\ Aged(row) \in DeliveryRow
         /\ Aged(row).status = row.status /\ Aged(row).attempts = row.attempts
         /\ row.wait > 0 => Aged(row).wait = row.wait - 1
<1>1. Aged(row) = [status |-> row.status, attempts |-> row.attempts,
                   wait |-> IF row.wait > 0 THEN row.wait - 1 ELSE 0,
                   replayOf |-> row.replayOf]
  BY DEF Aged, DeliveryRow
<1>2. (IF row.wait > 0 THEN row.wait - 1 ELSE 0) \in Nat
  BY RowFields
<1> QED BY <1>1, <1>2 DEF DeliveryRow

\* Recording an outcome keeps the delivery's row a row.
LEMMA RecordedType ==
  ASSUME NEW row \in DeliveryRow, NEW claim \in Claim, NEW outcome \in Outcomes,
         NEW delay \in Backoff
  PROVE  Recorded(row, claim, outcome, delay) \in DeliveryRow
<1>1. delay \in Nat
  BY TimesAssumption
<1> QED BY <1>1 DEF Recorded, DeliveryRow

LEMMA CountedType ==
  ASSUME NEW row \in EndpointRow, NEW outcome \in Outcomes
  PROVE  Counted(row, outcome) \in EndpointRow
BY DEF Counted, EndpointRow

LEMMA TypeInit == Init => TypeOK
<1> SUFFICES ASSUME Init PROVE TypeOK
  OBVIOUS
<1>1. queue \in [Worker -> Seq(Claim)]
  BY EmptySeq DEF Init
<1> QED BY <1>1, NullTypes, TimesAssumption, CountsAssumption DEF Init, TypeOK, EndpointRow

\* What a claim of the `n` deliveries of `q` leaves behind.
Claimed(w, n, q) ==
  /\ n <= BatchSize
  /\ \A i \in 1..n : Claimable(q[i])
  /\ \A i, j \in 1..n : q[i] = q[j] => i = j
  /\ queue' = [queue EXCEPT ![w] =
       [i \in 1..n |-> [id |-> q[i], attempts |-> delivery[q[i]].attempts + 1]]]
  /\ delivery' = [d \in Delivery |->
       IF \E i \in 1..n : q[i] = d THEN Leased(delivery[d]) ELSE delivery[d]]
  /\ since' = [d \in Delivery |-> IF \E i \in 1..n : q[i] = d THEN 0 ELSE since[d]]
  /\ lapsed' = [d \in Delivery |->
       IF RunOut(d) /\ \E i \in 1..n : q[i] = d THEN lapsed[d] + 1 ELSE lapsed[d]]

LEMMA ClaimEffect ==
  ASSUME NEW w \in Worker, ClaimBatch(w)
  PROVE  /\ \E n \in Nat : \E q \in [1..n -> Delivery] : Claimed(w, n, q)
         /\ queue[w] = <<>>
         /\ elapsed' = [elapsed EXCEPT ![w] = 0]
         /\ UNCHANGED <<writer, endpoint, crashes>>
<1>1. PICK batch \in Batches :
        /\ queue' = [queue EXCEPT ![w] =
             [i \in DOMAIN batch |->
                [id |-> batch[i], attempts |-> delivery[batch[i]].attempts + 1]]]
        /\ delivery' = [d \in Delivery |->
             IF \E i \in DOMAIN batch : batch[i] = d THEN Leased(delivery[d]) ELSE delivery[d]]
        /\ since' = [d \in Delivery |->
             IF \E i \in DOMAIN batch : batch[i] = d THEN 0 ELSE since[d]]
        /\ lapsed' = [d \in Delivery |->
             IF RunOut(d) /\ \E i \in DOMAIN batch : batch[i] = d
             THEN lapsed[d] + 1 ELSE lapsed[d]]
  BY DEF ClaimBatch
<1>2. PICK n \in Nat : /\ n <= BatchSize
                       /\ batch \in [1..n -> Delivery]
                       /\ \A i \in 1..n : Claimable(batch[i])
                       /\ \A i, j \in 1..n : batch[i] = batch[j] => i = j
  BY BatchShape
<1>3. DOMAIN batch = 1..n
  BY <1>2
<1>4. Claimed(w, n, batch)
  BY <1>1, <1>2, <1>3 DEF Claimed
<1> QED BY <1>2, <1>4 DEF ClaimBatch

LEMMA TypeStep == TypeOK /\ [Next]_vars => TypeOK'
<1> SUFFICES ASSUME TypeOK, [Next]_vars PROVE TypeOK'
  OBVIOUS
<1> USE DEF TypeOK
<1>1. CASE Outbox
  <2>1. PICK v \in Event : ReadEndpoints(v) \/ CommitEvent(v) \/ AbortEvent(v)
    BY <1>1 DEF Outbox
  <2>2. CASE ReadEndpoints(v)
    BY <2>2 DEF ReadEndpoints, WriterRow
  <2>3. CASE CommitEvent(v)
    BY <2>3, NullTypes DEF CommitEvent, WriterRow
  <2>4. CASE AbortEvent(v)
    BY <2>4 DEF AbortEvent, WriterRow
  <2> QED BY <2>1, <2>2, <2>3, <2>4
<1>2. CASE Service
  <2>1. ASSUME NEW p \in Endpoint, Register(p) PROVE TypeOK'
    BY <2>1 DEF Register, EndpointRow
  <2>2. ASSUME NEW p \in Endpoint, Remove(p) PROVE TypeOK'
    BY <2>2, NullTypes DEF Remove, EndpointRow
  <2>3. ASSUME NEW p \in Endpoint, NEW on \in BOOLEAN, SetEnabled(p, on) PROVE TypeOK'
    BY <2>3 DEF SetEnabled, EndpointRow
  <2>4. ASSUME NEW d \in Delivery, NEW v \in Event, Replay(d, v) PROVE TypeOK'
    <3>1. [Queued EXCEPT !.replayOf = d[1]] \in DeliveryRow
      BY DEF Queued, NoDelivery, DeliveryRow, Delivery
    <3> QED BY <2>4, <3>1 DEF Replay, WriterRow
  <2> QED BY <1>2, <2>1, <2>2, <2>3, <2>4 DEF Service
<1>3. ASSUME NEW w \in Worker, ClaimBatch(w) PROVE TypeOK'
  <2>1. PICK n \in Nat : \E q \in [1..n -> Delivery] : Claimed(w, n, q)
    BY <1>3, ClaimEffect
  <2>2. PICK q \in [1..n -> Delivery] : Claimed(w, n, q)
    BY <2>1
  <2> DEFINE told == [i \in 1..n |-> [id |-> q[i], attempts |-> delivery[q[i]].attempts + 1]]
  <2>3. \A d \in Delivery : delivery[d].attempts + 1 \in Nat
    BY RowFields
  <2>4. told \in Seq(Claim)
    BY <2>3, SeqDef DEF Claim
  <2>5. queue' \in [Worker -> Seq(Claim)]
    BY <2>2, <2>4 DEF Claimed
  <2>6. delivery' \in [Delivery -> DeliveryRow]
    BY <2>2, LeasedType DEF Claimed
  <2>7. /\ elapsed' = [elapsed EXCEPT ![w] = 0]
        /\ UNCHANGED <<writer, endpoint, crashes>>
    BY <1>3, ClaimEffect
  <2>8. since' \in [Delivery -> 0..Lease] /\ lapsed' \in [Delivery -> Nat]
    BY <2>2, TimesAssumption DEF Claimed
  <2> QED BY <2>5, <2>6, <2>7, <2>8, TimesAssumption
<1>4. ASSUME NEW w \in Worker, FinishAttempt(w) PROVE TypeOK'
  <2>1. queue[w] \in Seq(Claim) /\ queue[w] # <<>>
    BY <1>4 DEF FinishAttempt
  <2>2. Head(queue[w]) \in Claim /\ Tail(queue[w]) \in Seq(Claim)
    BY <2>1, HeadTailProperties
  <2>3. PICK outcome \in Outcomes, delay \in Backoff :
          /\ delivery' = [delivery EXCEPT ![Head(queue[w]).id] =
                            Recorded(@, Head(queue[w]), outcome, delay)]
          /\ endpoint' = [endpoint EXCEPT ![Head(queue[w]).id[2]] = Counted(@, outcome)]
          /\ since' = [since EXCEPT ![Head(queue[w]).id] = 0]
    BY <1>4 DEF FinishAttempt
  <2>4. delivery' \in [Delivery -> DeliveryRow]
    BY <2>2, <2>3, RecordedType DEF Claim
  <2>5. endpoint' \in [Endpoint -> EndpointRow]
    BY <2>2, <2>3, CountedType DEF Claim, Delivery
  <2>6. since' \in [Delivery -> 0..Lease]
    BY <2>2, <2>3, TimesAssumption DEF Claim
  <2> QED BY <1>4, <2>2, <2>4, <2>5, <2>6, TimesAssumption DEF FinishAttempt
<1>5. ASSUME NEW w \in Worker, Crash(w) PROVE TypeOK'
  BY <1>5, EmptySeq, TimesAssumption, CountsAssumption DEF Crash
<1>6. CASE Tick
  <2>1. delivery' \in [Delivery -> DeliveryRow]
    BY <1>6, AgedType DEF Tick
  <2>2. elapsed' \in [Worker -> 0..RequestTimeout]
    BY <1>6, TimesAssumption DEF Tick
  <2>3. since' \in [Delivery -> 0..Lease]
    BY <1>6, TimesAssumption DEF Tick
  <2> QED BY <1>6, <2>1, <2>2, <2>3 DEF Tick
<1>7. CASE UNCHANGED vars
  BY <1>7 DEF vars
<1> QED BY <1>1, <1>2, <1>3, <1>4, <1>5, <1>6, <1>7 DEF Next, Dispatch

\* Every variable of the outbox has its type in every reachable state.
THEOREM TypeCorrect == Spec => []TypeOK
BY TypeInit, TypeStep, PTL DEF Spec

(***************************************************************************)
(* Claims and leases.  Nothing keeps a batch within its lease, so a slow   *)
(* worker's delivery may be claimed again; what follows is that a lapse is *)
(* the only way, and what each lapse can cost.                             *)
(***************************************************************************)
\* The i-th delivery of those a worker still has, and which attempt it is.
Position(w) == 1..Len(queue[w])
At(w, i) == queue[w][i].id
Number(w, i) == queue[w][i].attempts

(***************************************************************************)
(* The invariant.  A row exists only for an event already announced, so a  *)
(* removed one is never created again under the same name.  The claims in  *)
(* hand for a delivery have numbers of their own, none above its count.  A *)
(* delivering row comes due no sooner than a lease after its claim; until  *)
(* a first claim has lapsed, whoever holds the delivery is alone with it   *)
(* and no outcome is recorded meanwhile.                                   *)
(*                                                                         *)
(* Attempts are counted in tokens.  A pending row, and a claim in hand     *)
(* whose number is below MAX_ATTEMPTS, is a token: it can become one more  *)
(* claim.  A finish or a claim turns one token into one or none, and only  *)
(* a lapse makes one, so beyond MAX_ATTEMPTS the attempts made and the     *)
(* tokens left are at most the lapses.                                     *)
(***************************************************************************)
Announced ==
  /\ \A d \in Delivery : delivery[d].status # "absent" => writer[d[1]].step = "done"
  /\ \A w \in Worker : \A i \in Position(w) : writer[At(w, i)[1]].step = "done"

Numbered ==
  \A w \in Worker : \A i \in Position(w) :
    /\ Number(w, i) >= 1
    /\ delivery[At(w, i)].status # "absent" => Number(w, i) <= delivery[At(w, i)].attempts

Distinct ==
  \A w, x \in Worker : \A i \in Position(w), j \in Position(x) :
    At(w, i) = At(x, j) /\ Number(w, i) = Number(x, j) => w = x /\ i = j

Timed ==
  \A d \in Delivery : delivery[d].status = "delivering" => since[d] + delivery[d].wait >= Lease

Sole ==
  /\ \A w \in Worker : \A i \in Position(w) :
       lapsed[At(w, i)] = 0 => delivery[At(w, i)].status \in {"delivering", "absent"}
  /\ \A w, x \in Worker : \A i \in Position(w), j \in Position(x) :
       At(w, i) = At(x, j) /\ lapsed[At(w, i)] = 0 => w = x /\ i = j

\* The claims of `d` in hand that may yet be tried again.
Spare(d) ==
  {n \in 1..(MaxAttempts - 1) :
     \E w \in Worker : \E i \in Position(w) : At(w, i) = d /\ Number(w, i) = n}

Pending(d) == IF delivery[d].status = "pending" THEN 1 ELSE 0

Excess(d) ==
  IF delivery[d].attempts < MaxAttempts THEN -1 ELSE delivery[d].attempts - MaxAttempts

Tokens(d) == Excess(d) + Cardinality(Spare(d)) + Pending(d) <= lapsed[d]

ClaimInv ==
  /\ Announced /\ Numbered /\ Distinct /\ Timed /\ Sole
  /\ \A d \in Delivery : Tokens(d)

(***************************************************************************)
(* Facts about queues and counts.                                          *)
(***************************************************************************)
LEMMA CountTypes ==
  /\ MaxAttempts \in Nat /\ MaxAttempts > 0 /\ Lease \in Nat /\ Lease > 0
BY CountsAssumption, TimesAssumption

LEMMA QueueTypes ==
  ASSUME TypeOK, NEW w \in Worker
  PROVE  /\ Len(queue[w]) \in Nat
         /\ \A i \in Position(w) :
              At(w, i) \in Delivery /\ queue[w][i] \in Claim /\ Number(w, i) \in Nat
<1>1. queue[w] \in Seq(Claim)
  BY DEF TypeOK
<1>2. Len(queue[w]) \in Nat
  BY <1>1, LenProperties
<1>3. \A i \in Position(w) : queue[w][i] \in Claim
  BY <1>1, ElementOfSeq DEF Position
<1> QED BY <1>2, <1>3 DEF At, Number, Claim

LEMMA SpareIsFinite ==
  ASSUME NEW d
  PROVE  IsFiniteSet(Spare(d)) /\ Cardinality(Spare(d)) \in Nat
<1>1. IsFiniteSet(1..(MaxAttempts - 1))
  BY CountTypes, FS_Interval
<1>2. Spare(d) \subseteq 1..(MaxAttempts - 1)
  BY DEF Spare
<1> QED BY <1>1, <1>2, FS_Subset, FS_CardinalityType

LEMMA ExcessTypes ==
  ASSUME TypeOK, NEW d \in Delivery
  PROVE  /\ Excess(d) \in Int /\ Pending(d) \in {0, 1} /\ lapsed[d] \in Nat
         /\ delivery[d].attempts \in Nat
BY CountTypes, RowFields DEF Excess, Pending, TypeOK

\* Fewer claims in hand, fewer attempts and no pending row more: no token more.
LEMMA TokensShrink ==
  ASSUME TypeOK, TypeOK', NEW d \in Delivery, Tokens(d), lapsed'[d] = lapsed[d],
         Spare(d)' \subseteq Spare(d),
         Excess(d)' <= Excess(d), Pending(d)' <= Pending(d)
  PROVE  Tokens(d)'
<1>1. IsFiniteSet(Spare(d)) /\ Cardinality(Spare(d)) \in Nat
  BY SpareIsFinite
<1> DEFINE S == Spare(d)
           T == Spare(d)'
<1>2. IsFiniteSet(S) /\ T \subseteq S
  BY <1>1
<1> HIDE DEF S, T
<1>3. Cardinality(T) \in Nat /\ Cardinality(S) \in Nat /\ Cardinality(T) <= Cardinality(S)
  BY <1>2, FS_Subset, FS_CardinalityType
<1>4. /\ Excess(d) \in Int /\ Pending(d) \in Int /\ lapsed[d] \in Nat
      /\ Excess(d)' \in Int /\ Pending(d)' \in Int
  <2>1. Excess(d)' \in Int /\ Pending(d)' \in {0, 1}
    BY CountTypes, RowFields DEF Excess, Pending, TypeOK
  <2> QED BY <2>1, ExcessTypes
<1>5. Excess(d) + Cardinality(S) + Pending(d) <= lapsed[d]
  BY DEF Tokens, S
<1>6. Excess(d)' + Cardinality(T) + Pending(d)' <= lapsed'[d]
  BY <1>3, <1>4, <1>5
<1> QED BY <1>6 DEF Tokens, T

LEMMA ClaimInit == Init => ClaimInv
<1> SUFFICES ASSUME Init PROVE ClaimInv
  OBVIOUS
<1>1. \A w \in Worker : Position(w) = {}
  BY EmptySeq DEF Init, Position
<1>2. Announced /\ Numbered /\ Distinct /\ Timed /\ Sole
  BY <1>1 DEF Announced, Numbered, Distinct, Timed, Sole, Init, NoDelivery
<1>3. ASSUME NEW d \in Delivery PROVE Tokens(d)
  <2>1. Spare(d) = {}
    BY <1>1 DEF Spare
  <2>2. Cardinality(Spare(d)) = 0
    BY <2>1, FS_EmptySet
  <2>3. Excess(d) = -1 /\ Pending(d) = 0 /\ lapsed[d] = 0
    BY CountTypes DEF Init, NoDelivery, Excess, Pending
  <2> QED BY <2>2, <2>3 DEF Tokens
<1> QED BY <1>2, <1>3 DEF ClaimInv

(***************************************************************************)
(* While no worker does anything: a row stays or ages, goes, or appears    *)
(* under a new event.                                                      *)
(***************************************************************************)
Stays(d) ==
  /\ delivery'[d].status = delivery[d].status
  /\ delivery'[d].attempts = delivery[d].attempts
  /\ delivery[d].status = "delivering" => since'[d] + delivery'[d].wait >= Lease

Goes(d) == delivery'[d].status = "absent" /\ delivery'[d].attempts = 0

Appears(d) ==
  /\ writer[d[1]].step # "done"
  /\ delivery'[d].status = "pending" /\ delivery'[d].attempts = 0

LEMMA ClaimQuiet ==
  ASSUME TypeOK, TypeOK', ClaimInv, UNCHANGED <<queue, lapsed>>, Announced',
         \A d \in Delivery : Stays(d) \/ Goes(d) \/ Appears(d)
  PROVE  ClaimInv'
<1>1. /\ \A w \in Worker : Position(w)' = Position(w)
      /\ \A w \in Worker : \A i \in Position(w) :
           /\ At(w, i)' = At(w, i) /\ Number(w, i)' = Number(w, i) /\ At(w, i) \in Delivery
           /\ Stays(At(w, i)) \/ Goes(At(w, i))
  <2>1. \A w \in Worker : \A i \in Position(w) :
          At(w, i) \in Delivery /\ writer[At(w, i)[1]].step = "done"
    BY QueueTypes DEF ClaimInv, Announced
  <2> QED BY <2>1 DEF Position, At, Number, Appears
<1>2. Numbered'
  BY <1>1 DEF ClaimInv, Numbered, Stays, Goes
<1>3. Distinct'
  BY <1>1 DEF ClaimInv, Distinct
<1>4. Timed'
  BY DEF Timed, Stays, Goes, Appears
<1>5. Sole'
  BY <1>1 DEF ClaimInv, Sole, Stays, Goes
<1>6. ASSUME NEW d \in Delivery PROVE Tokens(d)'
  <2>1. Spare(d)' = Spare(d)
    BY <1>1 DEF Spare
  <2>2. Tokens(d) /\ lapsed'[d] = lapsed[d]
    BY DEF ClaimInv
  <2>3. CASE Stays(d)
    <3>1. Excess(d)' = Excess(d) /\ Pending(d)' = Pending(d)
      BY <2>3 DEF Stays, Excess, Pending
    <3> QED BY <2>1, <2>2, <3>1, ExcessTypes, TokensShrink
  <2>4. CASE Goes(d)
    <3>1. Excess(d)' = -1 /\ Pending(d)' = 0
      BY <2>4, CountTypes DEF Goes, Excess, Pending
    <3>2. Excess(d) >= -1 /\ Pending(d) >= 0
      BY ExcessTypes, CountTypes DEF Excess
    <3> QED BY <2>1, <2>2, <3>1, <3>2, ExcessTypes, TokensShrink
  <2>5. CASE Appears(d)
    <3>1. \A w \in Worker : \A i \in Position(w) : At(w, i) # d
      BY <2>5 DEF ClaimInv, Announced, Appears
    <3>2. Spare(d)' = {}
      BY <2>1, <3>1 DEF Spare
    <3>3. Cardinality(Spare(d)') = 0
      BY <3>2, FS_EmptySet
    <3>4. Excess(d)' = -1 /\ Pending(d)' = 1 /\ lapsed'[d] \in Nat
      BY <2>2, <2>5, CountTypes, ExcessTypes DEF Appears, Excess, Pending
    <3>5. Cardinality(Spare(d))' = 0
      BY <3>3
    <3> QED BY <3>4, <3>5 DEF Tokens
  <2> QED BY <2>3, <2>4, <2>5
<1> QED BY <1>2, <1>3, <1>4, <1>5, <1>6 DEF ClaimInv

\* No write that only announces events takes an announcement back.
LEMMA StillAnnounced ==
  ASSUME TypeOK, ClaimInv, UNCHANGED queue,
         \A u \in Event : writer[u].step = "done" => writer'[u].step = "done",
         \A d \in Delivery : delivery'[d].status # "absent" =>
                               delivery[d].status # "absent" \/ writer'[d[1]].step = "done"
  PROVE  Announced'
<1>1. \A c \in Delivery : c[1] \in Event
  BY DEF Delivery
<1>2. ASSUME NEW c \in Delivery, delivery'[c].status # "absent" PROVE writer'[c[1]].step = "done"
  BY <1>1, <1>2 DEF ClaimInv, Announced
<1>3. ASSUME NEW w \in Worker, NEW i \in Position(w)' PROVE writer'[At(w, i)'[1]].step = "done"
  <2>1. i \in Position(w) /\ At(w, i)' = At(w, i)
    BY <1>3 DEF Position, At
  <2>2. At(w, i) \in Delivery /\ writer[At(w, i)[1]].step = "done"
    BY <2>1, QueueTypes DEF ClaimInv, Announced
  <2> QED BY <1>1, <2>1, <2>2
<1> QED BY <1>2, <1>3 DEF Announced

LEMMA RowStays ==
  ASSUME ClaimInv, NEW d \in Delivery, delivery'[d] = delivery[d], since'[d] = since[d]
  PROVE  Stays(d)
BY DEF ClaimInv, Timed, Stays

LEMMA ClaimOutbox ==
  ASSUME TypeOK, TypeOK', ClaimInv, Outbox PROVE ClaimInv'
<1>1. PICK v \in Event : ReadEndpoints(v) \/ CommitEvent(v) \/ AbortEvent(v)
  BY DEF Outbox
<1>2. /\ UNCHANGED <<queue, since, lapsed>> /\ writer[v].step # "done"
      /\ \A u \in Event : writer[u].step = "done" => writer'[u].step = "done"
  BY <1>1 DEF ReadEndpoints, CommitEvent, AbortEvent, Unused, TypeOK
<1>3. ASSUME NEW d \in Delivery
      PROVE  \/ delivery'[d] = delivery[d]
             \/ d[1] = v /\ delivery'[d] = Queued /\ writer'[v].step = "done"
  BY <1>1 DEF ReadEndpoints, CommitEvent, AbortEvent, TypeOK
<1>4. \A d \in Delivery : Stays(d) \/ Appears(d)
  BY <1>2, <1>3, RowStays DEF Appears, Queued, NoDelivery
<1>5. Announced'
  BY <1>2, <1>3, StillAnnounced
<1> QED BY <1>2, <1>4, <1>5, ClaimQuiet

LEMMA ClaimService ==
  ASSUME TypeOK, TypeOK', ClaimInv, Service PROVE ClaimInv'
<1>1. UNCHANGED <<queue, since, lapsed>>
  BY DEF Service, Register, Remove, SetEnabled, Replay
<1>2. CASE UNCHANGED <<writer, delivery>>
  <2>1. Announced'
    BY <1>1, <1>2, StillAnnounced
  <2> QED BY <1>1, <1>2, <2>1, RowStays, ClaimQuiet
<1>3. ASSUME NEW p \in Endpoint, Remove(p) PROVE ClaimInv'
  <2>1. /\ UNCHANGED writer
        /\ \A d \in Delivery : delivery'[d] = delivery[d] \/ delivery'[d] = NoDelivery
    BY <1>3 DEF Remove
  <2>2. NoDelivery.status = "absent" /\ NoDelivery.attempts = 0
    BY DEF NoDelivery
  <2>3. \A d \in Delivery : Stays(d) \/ Goes(d)
    BY <1>1, <2>1, <2>2, RowStays DEF Goes
  <2>4. Announced'
    BY <1>1, <2>1, <2>2, StillAnnounced
  <2> QED BY <1>1, <2>3, <2>4, ClaimQuiet
<1>4. ASSUME NEW c \in Delivery, NEW v \in Event, Replay(c, v) PROVE ClaimInv'
  <2> DEFINE row == [Queued EXCEPT !.replayOf = c[1]]
  <2>1. row.status = "pending" /\ row.attempts = 0
    BY DEF Queued, NoDelivery
  <2>2. /\ \A u \in Event : writer'[u].step = IF u = v THEN "done" ELSE writer[u].step
        /\ writer[v].step # "done"
    BY <1>4 DEF Replay, Unused, TypeOK
  <2>3. ASSUME NEW d \in Delivery
        PROVE  \/ delivery'[d] = delivery[d]
               \/ d[1] = v /\ delivery'[d] = row
    <3>1. <<v, c[2]>>[1] = v
      OBVIOUS
    <3>2. delivery' = [delivery EXCEPT ![<<v, c[2]>>] = row]
      BY <1>4 DEF Replay
    <3> HIDE DEF row
    <3> QED BY <3>1, <3>2 DEF TypeOK
  <2> HIDE DEF row
  <2>4. \A d \in Delivery : Stays(d) \/ Appears(d)
    BY <1>1, <2>1, <2>2, <2>3, RowStays DEF Appears
  <2>5. Announced'
    BY <1>1, <2>2, <2>3, StillAnnounced
  <2> QED BY <1>1, <2>4, <2>5, ClaimQuiet
<1> QED BY <1>2, <1>3, <1>4 DEF Service, Register, SetEnabled

\* As a lease runs down, its claim ages.
LEMMA ClaimTick ==
  ASSUME TypeOK, TypeOK', ClaimInv, Tick PROVE ClaimInv'
<1>1. UNCHANGED <<writer, queue, lapsed>>
  BY DEF Tick
<1>2. ASSUME NEW d \in Delivery PROVE Stays(d)
  <2>1. /\ delivery'[d] = Aged(delivery[d]) /\ delivery[d] \in DeliveryRow
        /\ since[d] \in 0..Lease
        /\ delivery[d].status = "delivering" =>
             since'[d] = IF since[d] < Lease THEN since[d] + 1 ELSE since[d]
    BY DEF Tick, TypeOK
  <2>2. /\ delivery'[d].status = delivery[d].status
        /\ delivery'[d].attempts = delivery[d].attempts
        /\ delivery[d].wait > 0 => delivery'[d].wait = delivery[d].wait - 1
        /\ delivery[d].wait \in Nat /\ delivery'[d].wait \in Nat
    BY <2>1, AgedType, RowFields
  <2>3. delivery[d].status = "delivering" => since[d] + delivery[d].wait >= Lease
    BY DEF ClaimInv, Timed
  <2> QED BY <2>1, <2>2, <2>3, CountTypes DEF Stays
<1>3. Announced'
  BY <1>1, <1>2, StillAnnounced DEF Stays
<1> QED BY <1>1, <1>2, <1>3, ClaimQuiet

(***************************************************************************)
(* A claim: of a pending row, whose token it takes, or of one whose lease  *)
(* has run out, which makes a token.                                       *)
(***************************************************************************)
LEMMA ClaimedRow ==
  ASSUME TypeOK, ClaimInv, NEW d \in Delivery, Claimable(d)
  PROVE  delivery[d].status = "pending" \/ RunOut(d)
BY CountTypes DEF ClaimInv, Timed, Claimable, RunOut, TypeOK

LEMMA ClaimClaim ==
  ASSUME TypeOK, TypeOK', ClaimInv, NEW w \in Worker, ClaimBatch(w) PROVE ClaimInv'
<1>1. PICK n \in Nat : \E q \in [1..n -> Delivery] : Claimed(w, n, q)
  BY ClaimEffect
<1>2. PICK q \in [1..n -> Delivery] : Claimed(w, n, q)
  BY <1>1
<1>3. UNCHANGED writer /\ queue[w] = <<>> /\ Position(w) = {}
  BY ClaimEffect, EmptySeq DEF Position
<1> DEFINE Taken(d) == \E i \in 1..n : q[i] = d
<1>4. /\ Position(w)' = 1..n
      /\ \A i \in 1..n : /\ At(w, i)' = q[i] /\ q[i] \in Delivery /\ Taken(q[i])
                          /\ Number(w, i)' = delivery[q[i]].attempts + 1
      /\ \A x \in Worker : x # w => queue'[x] = queue[x]
  BY <1>2 DEF Claimed, TypeOK, Position, At, Number
<1>5. \A x \in Worker : x # w =>
        /\ Position(x)' = Position(x)
        /\ \A i \in Position(x) : /\ At(x, i)' = At(x, i) /\ Number(x, i)' = Number(x, i)
                                  /\ At(x, i) \in Delivery
  BY <1>4, QueueTypes DEF Position, At, Number
<1>6. ASSUME NEW d \in Delivery
      PROVE  \/ /\ ~Taken(d) /\ delivery'[d] = delivery[d]
                /\ since'[d] = since[d] /\ lapsed'[d] = lapsed[d]
             \/ /\ Taken(d) /\ Claimable(d) /\ delivery'[d].status = "delivering"
                /\ delivery'[d].attempts = delivery[d].attempts + 1
                /\ delivery'[d].wait = Lease /\ since'[d] = 0
                /\ lapsed'[d] = IF RunOut(d) THEN lapsed[d] + 1 ELSE lapsed[d]
  BY <1>2, LeasedType DEF Claimed, TypeOK
<1>7. \A i, j \in 1..n : q[i] = q[j] => i = j
  BY <1>2 DEF Claimed
<1> HIDE DEF Taken
<1>8. \A d \in Delivery : delivery[d].attempts \in Nat /\ lapsed[d] \in Nat /\ since[d] \in 0..Lease
  BY ExcessTypes DEF TypeOK
<1>9. Announced'
  <2>1. \A d \in Delivery : delivery'[d].status # "absent" => delivery[d].status # "absent"
    BY <1>6 DEF Claimable
  <2>2. \A i \in 1..n : delivery[q[i]].status # "absent"
    BY <1>4, <1>6 DEF Claimable
  <2>3. \A d \in Delivery : delivery'[d].status # "absent" => writer'[d[1]].step = "done"
    BY <1>3, <2>1 DEF ClaimInv, Announced
  <2>4. ASSUME NEW x \in Worker, NEW i \in Position(x)'
        PROVE  (writer[At(x, i)[1]].step = "done")'
    <3>1. CASE x = w
      BY <1>3, <1>4, <2>2, <3>1 DEF ClaimInv, Announced
    <3>2. CASE x # w
      BY <1>3, <1>5, <3>2 DEF ClaimInv, Announced
    <3> QED BY <3>1, <3>2
  <2> QED BY <2>3, <2>4 DEF Announced
<1>10. Numbered'
  <2> SUFFICES ASSUME NEW x \in Worker, NEW i \in Position(x)'
               PROVE  /\ Number(x, i)' >= 1
                      /\ delivery'[At(x, i)'].status # "absent" =>
                           Number(x, i)' <= delivery'[At(x, i)'].attempts
    BY DEF Numbered
  <2>1. CASE x = w
    BY <1>4, <1>6, <1>8, <2>1
  <2>2. CASE x # w
    <3>1. i \in Position(x) /\ At(x, i) \in Delivery /\ Number(x, i) \in Nat
      BY <1>5, <2>2, QueueTypes
    <3>2. /\ Number(x, i) >= 1
          /\ delivery[At(x, i)].status # "absent" => Number(x, i) <= delivery[At(x, i)].attempts
      BY <3>1 DEF ClaimInv, Numbered
    <3> QED BY <1>5, <1>6, <1>8, <2>2, <3>1, <3>2 DEF Claimable
  <2> QED BY <2>1, <2>2
<1>11. \A x \in Worker, i \in 1..n : \A j \in Position(x) :
         At(x, j) = q[i] => Number(x, j) <= delivery[q[i]].attempts
  BY <1>4, <1>6 DEF ClaimInv, Numbered, Claimable
<1>12. Distinct'
  <2> SUFFICES ASSUME NEW x \in Worker, NEW y \in Worker,
                      NEW i \in Position(x)', NEW j \in Position(y)',
                      At(x, i)' = At(y, j)', Number(x, i)' = Number(y, j)'
               PROVE  x = y /\ i = j
    BY DEF Distinct
  <2>1. CASE x = w /\ y = w
    BY <1>4, <1>7, <2>1
  <2>2. CASE x # w /\ y # w
    BY <1>5, <2>2 DEF ClaimInv, Distinct
  <2>3. CASE x = w /\ y # w
    <3>1. j \in Position(y) /\ At(y, j) = q[i] /\ Number(y, j) = delivery[q[i]].attempts + 1
      BY <1>4, <1>5, <2>3
    <3> QED BY <1>4, <1>8, <1>11, <2>3, <3>1, QueueTypes
  <2>4. CASE x # w /\ y = w
    <3>1. i \in Position(x) /\ At(x, i) = q[j] /\ Number(x, i) = delivery[q[j]].attempts + 1
      BY <1>4, <1>5, <2>4
    <3> QED BY <1>4, <1>8, <1>11, <2>4, <3>1, QueueTypes
  <2> QED BY <2>1, <2>2, <2>3, <2>4
<1>13. Timed'
  <2> SUFFICES ASSUME NEW d \in Delivery, delivery'[d].status = "delivering"
               PROVE  since'[d] + delivery'[d].wait >= Lease
    BY DEF Timed
  <2> QED BY <1>6, CountTypes DEF ClaimInv, Timed
\* Where no claim has lapsed, nobody held what is claimed now.
<1>14. \A d \in Delivery : Taken(d) /\ lapsed'[d] = 0 =>
         /\ lapsed[d] = 0
         /\ \A x \in Worker : \A j \in Position(x) : At(x, j) # d
  <2> SUFFICES ASSUME NEW d \in Delivery, Taken(d), lapsed'[d] = 0
               PROVE  /\ lapsed[d] = 0
                      /\ \A x \in Worker : \A j \in Position(x) : At(x, j) # d
    OBVIOUS
  <2>1. Claimable(d) /\ ~RunOut(d) /\ lapsed[d] = 0
    BY <1>6, <1>8
  <2>2. delivery[d].status = "pending"
    BY <2>1, ClaimedRow
  <2> QED BY <2>1, <2>2 DEF ClaimInv, Sole
<1>15. Sole'
  <2>1. ASSUME NEW x \in Worker, NEW i \in Position(x)', lapsed'[At(x, i)'] = 0
        PROVE  delivery'[At(x, i)'].status \in {"delivering", "absent"}
    <3>1. CASE x = w
      BY <1>4, <1>6, <3>1
    <3>2. CASE x # w
      <4>1. i \in Position(x) /\ At(x, i)' = At(x, i) /\ At(x, i) \in Delivery
        BY <1>5, <3>2
      <4>2. CASE Taken(At(x, i))
        BY <1>6, <4>1, <4>2
      <4>3. CASE ~Taken(At(x, i))
        BY <1>6, <2>1, <4>1, <4>3 DEF ClaimInv, Sole
      <4> QED BY <4>2, <4>3
    <3> QED BY <3>1, <3>2
  <2>2. ASSUME NEW x \in Worker, NEW y \in Worker,
               NEW i \in Position(x)', NEW j \in Position(y)',
               At(x, i)' = At(y, j)', lapsed'[At(x, i)'] = 0
        PROVE  x = y /\ i = j
    <3>1. CASE x = w /\ y = w
      BY <1>4, <1>7, <2>2, <3>1
    <3>2. CASE x # w /\ y # w
      <4>1. i \in Position(x) /\ j \in Position(y) /\ At(x, i) = At(y, j) /\ At(x, i) \in Delivery
        BY <1>5, <2>2, <3>2
      <4>2. ~Taken(At(x, i)) /\ lapsed[At(x, i)] = 0
        BY <1>5, <1>6, <1>14, <2>2, <3>2, <4>1
      <4> QED BY <4>1, <4>2 DEF ClaimInv, Sole
    <3>3. CASE x = w /\ y # w
      <4>1. j \in Position(y) /\ At(y, j) = q[i] /\ lapsed'[q[i]] = 0
        BY <1>4, <1>5, <2>2, <3>3
      <4> QED BY <1>4, <1>14, <3>3, <4>1
    <3>4. CASE x # w /\ y = w
      <4>1. i \in Position(x) /\ At(x, i) = q[j] /\ lapsed'[q[j]] = 0
        BY <1>4, <1>5, <2>2, <3>4
      <4> QED BY <1>4, <1>14, <3>4, <4>1
    <3> QED BY <3>1, <3>2, <3>3, <3>4
  <2> QED BY <2>1, <2>2 DEF Sole
<1>16. ASSUME NEW d \in Delivery PROVE Tokens(d)'
  <2>1. Tokens(d)
    BY DEF ClaimInv
  <2>2. CASE ~Taken(d)
    <3>1. Spare(d)' \subseteq Spare(d)
      <4> SUFFICES ASSUME NEW m \in 1..(MaxAttempts - 1), NEW x \in Worker, NEW i \in Position(x)',
                          At(x, i)' = d, Number(x, i)' = m
                   PROVE  m \in Spare(d)
        BY DEF Spare
      <4>1. x # w
        BY <1>4, <2>2
      <4> QED BY <1>5, <4>1 DEF Spare
    <3>2. Excess(d)' = Excess(d) /\ Pending(d)' = Pending(d) /\ lapsed'[d] = lapsed[d]
      BY <1>6, <2>2 DEF Excess, Pending
    <3> QED BY <2>1, <3>1, <3>2, ExcessTypes, TokensShrink
  <2>3. CASE Taken(d)
    <3> DEFINE a == delivery[d].attempts
               S == Spare(d)
               T == Spare(d)'
    <3>1. T \subseteq S \cup {a + 1}
      <4> SUFFICES ASSUME NEW m \in 1..(MaxAttempts - 1), NEW x \in Worker, NEW i \in Position(x)',
                          At(x, i)' = d, Number(x, i)' = m, m # a + 1
                   PROVE  m \in Spare(d)
        BY DEF Spare
      <4>1. x # w
        BY <1>4
      <4> QED BY <1>5, <4>1 DEF Spare
    <3>2. a + 1 >= MaxAttempts => T \subseteq S
      BY <3>1, <1>8, CountTypes DEF Spare
    <3>3. IsFiniteSet(S) /\ Cardinality(S) \in Nat
      BY SpareIsFinite
    <3>4. a \in Nat
      BY <1>8
    <3>5. Excess(d) = IF a < MaxAttempts THEN -1 ELSE a - MaxAttempts
      BY DEF Excess
    <3>6. Excess(d)' = IF a + 1 < MaxAttempts THEN -1 ELSE a + 1 - MaxAttempts
      <4>1. delivery'[d].attempts = a + 1
        BY <1>6, <2>3
      <4> QED BY <3>4, <4>1, CountTypes DEF Excess
    <3>7. Pending(d)' = 0 /\ (delivery[d].status = "pending" => Pending(d) = 1)
      BY <1>6, <2>3 DEF Pending
    <3>8. Pending(d) \in {0, 1} /\ lapsed[d] \in Nat
      BY ExcessTypes
    <3>9. \/ Pending(d) = 1 /\ lapsed'[d] >= lapsed[d]
          \/ lapsed'[d] = lapsed[d] + 1
      BY <1>6, <2>3, <3>7, <3>8, ClaimedRow
    <3>10. Excess(d) + Cardinality(S) + Pending(d) <= lapsed[d]
      BY <2>1 DEF Tokens
    <3>11. lapsed'[d] \in Nat
      BY DEF TypeOK
    <3> HIDE DEF S, T, a
    <3>12. /\ Cardinality(S \cup {a + 1}) <= Cardinality(S) + 1
           /\ IsFiniteSet(S \cup {a + 1}) /\ Cardinality(S \cup {a + 1}) \in Nat
      <4>1. /\ IsFiniteSet(S \cup {a + 1})
            /\ Cardinality(S \cup {a + 1}) =
                 IF a + 1 \in S THEN Cardinality(S) ELSE Cardinality(S) + 1
        BY <3>3, FS_AddElement
      <4> QED BY <3>3, <4>1
    <3>13. /\ Cardinality(T) \in Nat /\ Cardinality(T) <= Cardinality(S) + 1
           /\ a + 1 >= MaxAttempts => Cardinality(T) <= Cardinality(S)
      BY <3>1, <3>2, <3>3, <3>12, FS_Subset, FS_CardinalityType
    <3>14. Excess(d)' + Cardinality(T) + Pending(d)' <= lapsed'[d]
      BY <3>3, <3>4, <3>5, <3>6, <3>7, <3>8, <3>9, <3>10, <3>11, <3>13, CountTypes
    <3> QED BY <3>14 DEF Tokens, T
  <2> QED BY <2>2, <2>3
<1> QED BY <1>9, <1>10, <1>12, <1>13, <1>15, <1>16 DEF ClaimInv

(***************************************************************************)
(* A finish: its claim's token becomes the row's, or is spent.             *)
(***************************************************************************)
LEMMA HeadIsFirst == ASSUME NEW S, NEW s \in Seq(S), s # <<>> PROVE Head(s) = s[1]
OBVIOUS

\* The first of the queue is done with, and the others move up one.
LEMMA TailPositions ==
  ASSUME TypeOK, NEW w \in Worker, queue[w] # <<>>, queue' = [queue EXCEPT ![w] = Tail(@)]
  PROVE  /\ 1 \in Position(w) /\ At(w, 1) = Head(queue[w]).id
         /\ Len(queue'[w]) = Len(queue[w]) - 1
         /\ \A i \in Position(w)' : i + 1 \in Position(w) /\ queue'[w][i] = queue[w][i + 1]
         /\ \A x \in Worker : x # w => queue'[x] = queue[x]
<1>1. queue[w] \in Seq(Claim)
  BY DEF TypeOK
<1>2. Len(queue[w]) \in Nat /\ Len(queue[w]) > 0
  BY <1>1, EmptySeq
<1>3. queue'[w] = Tail(queue[w]) /\ \A x \in Worker : x # w => queue'[x] = queue[x]
  BY DEF TypeOK
<1>4. /\ Len(Tail(queue[w])) = Len(queue[w]) - 1
      /\ \A i \in 1..Len(Tail(queue[w])) : Tail(queue[w])[i] = queue[w][i + 1]
  BY <1>1, HeadTailProperties
<1>5. Head(queue[w]) = queue[w][1]
  BY <1>1, HeadIsFirst
<1>6. 1 \in Position(w) /\ At(w, 1) = Head(queue[w]).id
  BY <1>2, <1>5 DEF Position, At
<1>7. Len(queue'[w]) = Len(queue[w]) - 1
  BY <1>3, <1>4
<1>8. \A i \in Position(w)' : i + 1 \in Position(w) /\ queue'[w][i] = queue[w][i + 1]
  <2> SUFFICES ASSUME NEW i \in Position(w)'
               PROVE  i + 1 \in Position(w) /\ queue'[w][i] = queue[w][i + 1]
    OBVIOUS
  <2>1. i \in 1..Len(Tail(queue[w]))
    BY <1>3 DEF Position
  <2>2. i + 1 \in 1..Len(queue[w])
    BY <1>2, <1>4, <2>1
  <2>3. queue'[w][i] = queue[w][i + 1]
    BY <1>3, <1>4, <2>1
  <2> QED BY <2>2, <2>3 DEF Position
<1> QED BY <1>3, <1>6, <1>7, <1>8

\* The one row a finish can change, and the others in hand.
LEMMA FinishedRow ==
  ASSUME TypeOK, NEW w \in Worker, FinishAttempt(w)
  PROVE  /\ UNCHANGED <<writer, lapsed>>
         /\ 1 \in Position(w) /\ At(w, 1) \in Delivery /\ queue[w][1] \in Claim
         /\ \A i \in Position(w)' : /\ i + 1 \in Position(w) /\ i \in Nat /\ i >= 1
                                    /\ queue'[w][i] = queue[w][i + 1]
         /\ \A x \in Worker : x # w => queue'[x] = queue[x]
         /\ \A d \in Delivery : d # At(w, 1) =>
              delivery'[d] = delivery[d] /\ since'[d] = since[d]
         /\ \E outcome \in Outcomes, delay \in Backoff :
              delivery'[At(w, 1)] = Recorded(delivery[At(w, 1)], queue[w][1], outcome, delay)
<1>1. queue[w] # <<>> /\ queue' = [queue EXCEPT ![w] = Tail(@)]
  BY DEF FinishAttempt
<1>2. /\ 1 \in Position(w) /\ At(w, 1) = Head(queue[w]).id
      /\ \A i \in Position(w)' : i + 1 \in Position(w) /\ queue'[w][i] = queue[w][i + 1]
      /\ \A x \in Worker : x # w => queue'[x] = queue[x]
  BY <1>1, TailPositions
<1>3. At(w, 1) \in Delivery /\ queue[w][1] \in Claim
  BY <1>2, QueueTypes
<1>4. queue[w][1] = Head(queue[w])
  BY <1>1, HeadIsFirst DEF TypeOK
<1>5. PICK outcome \in Outcomes, delay \in Backoff :
        /\ delivery' = [delivery EXCEPT ![At(w, 1)] = Recorded(@, queue[w][1], outcome, delay)]
        /\ since' = [since EXCEPT ![At(w, 1)] = 0]
  BY <1>2, <1>4 DEF FinishAttempt
<1>6. delivery'[At(w, 1)] = Recorded(delivery[At(w, 1)], queue[w][1], outcome, delay)
  BY <1>3, <1>5 DEF TypeOK
<1>7. \A d \in Delivery : d # At(w, 1) => delivery'[d] = delivery[d] /\ since'[d] = since[d]
  BY <1>3, <1>5 DEF TypeOK
<1>8. \A i \in Position(w)' : i \in Nat /\ i >= 1
  BY DEF Position
<1> QED BY <1>2, <1>3, <1>6, <1>7, <1>8 DEF FinishAttempt

\* An outcome leaves a row pending only for a claim that may be tried again.
LEMMA RecordedRow ==
  ASSUME NEW row \in DeliveryRow, NEW claim \in Claim, NEW outcome \in Outcomes,
         NEW delay \in Backoff
  PROVE  LET new == Recorded(row, claim, outcome, delay) IN
         /\ new.attempts = row.attempts
         /\ new.status = "absent" <=> row.status = "absent"
         /\ new.status # "delivering"
         /\ new.status = "pending" => claim.attempts < MaxAttempts
<1>1. claim.attempts \in Nat
  BY DEF Claim
<1>2. CASE row.status = "absent"
  BY <1>2 DEF Recorded, DeliveryRow
<1>3. CASE row.status # "absent"
  BY <1>1, <1>3, CountTypes DEF Recorded, Exhausted, Outcomes, DeliveryRow
<1> QED BY <1>2, <1>3

LEMMA ClaimFinish ==
  ASSUME TypeOK, TypeOK', ClaimInv, NEW w \in Worker, FinishAttempt(w) PROVE ClaimInv'
<1> DEFINE f == At(w, 1)
           was(x, i) == IF x = w THEN i + 1 ELSE i
<1>1. /\ UNCHANGED <<writer, lapsed>>
      /\ 1 \in Position(w) /\ f \in Delivery /\ queue[w][1] \in Claim
      /\ \A d \in Delivery : d # f => delivery'[d] = delivery[d] /\ since'[d] = since[d]
  BY FinishedRow
<1>2. ASSUME NEW x \in Worker, NEW i \in Position(x)'
      PROVE  /\ was(x, i) \in Position(x) /\ (x = w => was(x, i) # 1) /\ i \in Int
             /\ At(x, i)' = At(x, was(x, i)) /\ Number(x, i)' = Number(x, was(x, i))
             /\ At(x, was(x, i)) \in Delivery
  <2>1. CASE x = w
    <3>1. /\ i + 1 \in Position(w) /\ i \in Nat /\ i >= 1 /\ queue'[w][i] = queue[w][i + 1]
      BY <2>1, FinishedRow
    <3> QED BY <2>1, <3>1, QueueTypes DEF At, Number
  <2>2. CASE x # w
    <3>1. queue'[x] = queue[x]
      BY <2>2, FinishedRow
    <3>2. i \in Position(x) /\ At(x, i)' = At(x, i) /\ Number(x, i)' = Number(x, i) /\ i \in Int
      BY <3>1 DEF Position, At, Number
    <3> QED BY <2>2, <3>2, QueueTypes
  <2> QED BY <2>1, <2>2
<1>3. \A x, y \in Worker : \A i \in Position(x)', j \in Position(y)' :
        x = y /\ was(x, i) = was(y, j) => i = j
  BY <1>2
<1>4. /\ delivery'[f].attempts = delivery[f].attempts
      /\ delivery'[f].status = "absent" <=> delivery[f].status = "absent"
      /\ delivery'[f].status # "delivering"
      /\ delivery'[f].status = "pending" => Number(w, 1) < MaxAttempts
  <2>1. PICK outcome \in Outcomes, delay \in Backoff :
          delivery'[f] = Recorded(delivery[f], queue[w][1], outcome, delay)
    BY FinishedRow
  <2>2. delivery[f] \in DeliveryRow
    BY <1>1 DEF TypeOK
  <2> QED BY <1>1, <2>1, <2>2, RecordedRow DEF Number
<1> HIDE DEF was
<1>5. Announced'
  <2>1. \A d \in Delivery : delivery'[d].status # "absent" => writer'[d[1]].step = "done"
    BY <1>1, <1>4 DEF ClaimInv, Announced
  <2>2. \A x \in Worker : \A i \in Position(x)' : writer'[At(x, i)'[1]].step = "done"
    BY <1>1, <1>2 DEF ClaimInv, Announced
  <2> QED BY <2>1, <2>2 DEF Announced
<1>6. Numbered'
  <2>1. \A x \in Worker : \A i \in Position(x) :
          /\ Number(x, i) >= 1
          /\ delivery'[At(x, i)].status # "absent" => Number(x, i) <= delivery'[At(x, i)].attempts
    BY <1>1, <1>4, QueueTypes DEF ClaimInv, Numbered
  <2> QED BY <1>2, <2>1 DEF Numbered
<1>7. Distinct'
  <2> SUFFICES ASSUME NEW x \in Worker, NEW y \in Worker,
                      NEW i \in Position(x)', NEW j \in Position(y)',
                      At(x, i)' = At(y, j)', Number(x, i)' = Number(y, j)'
               PROVE  x = y /\ i = j
    BY DEF Distinct
  <2>1. x = y /\ was(x, i) = was(y, j)
    BY <1>2 DEF ClaimInv, Distinct
  <2> QED BY <1>3, <2>1
<1>8. Timed'
  BY <1>1, <1>4 DEF ClaimInv, Timed
<1>9. Sole'
  <2>1. ASSUME NEW x \in Worker, NEW i \in Position(x)', lapsed'[At(x, i)'] = 0
        PROVE  delivery'[At(x, i)'].status \in {"delivering", "absent"}
    <3>1. lapsed[At(x, was(x, i))] = 0
      BY <1>1, <1>2, <2>1
    <3>2. At(x, was(x, i)) # f
      BY <1>1, <1>2, <3>1 DEF ClaimInv, Sole
    <3> QED BY <1>1, <1>2, <3>1, <3>2 DEF ClaimInv, Sole
  <2>2. ASSUME NEW x \in Worker, NEW y \in Worker,
               NEW i \in Position(x)', NEW j \in Position(y)',
               At(x, i)' = At(y, j)', lapsed'[At(x, i)'] = 0
        PROVE  x = y /\ i = j
    <3>1. x = y /\ was(x, i) = was(y, j)
      BY <1>1, <1>2, <2>2 DEF ClaimInv, Sole
    <3> QED BY <1>3, <3>1
  <2> QED BY <2>1, <2>2 DEF Sole
<1>10. ASSUME NEW d \in Delivery PROVE Tokens(d)'
  <2>1. Tokens(d) /\ lapsed'[d] = lapsed[d]
    BY <1>1 DEF ClaimInv
  <2>2. Spare(d)' \subseteq Spare(d)
    <3> SUFFICES ASSUME NEW m \in 1..(MaxAttempts - 1), NEW x \in Worker, NEW i \in Position(x)',
                        At(x, i)' = d, Number(x, i)' = m
                 PROVE  m \in Spare(d)
      BY DEF Spare
    <3> QED BY <1>2 DEF Spare
  <2>3. CASE d # f
    <3>1. Excess(d)' = Excess(d) /\ Pending(d)' = Pending(d)
      BY <1>1, <2>3 DEF Excess, Pending
    <3> QED BY <2>1, <2>2, <3>1, ExcessTypes, TokensShrink
  <2>4. CASE d = f /\ delivery'[f].status # "pending"
    <3>1. Excess(d)' = Excess(d) /\ Pending(d)' = 0
      BY <1>4, <2>4 DEF Excess, Pending
    <3>2. Pending(d) >= 0
      BY ExcessTypes
    <3> QED BY <2>1, <2>2, <3>1, <3>2, ExcessTypes, TokensShrink
  <2>5. CASE d = f /\ delivery'[f].status = "pending"
    <3> DEFINE m == Number(w, 1)
               S == Spare(d)
               T == Spare(d)'
    <3>1. m \in 1..(MaxAttempts - 1)
      <4>1. m \in Nat /\ m >= 1
        BY <1>1, QueueTypes DEF ClaimInv, Numbered
      <4> QED BY <1>4, <2>5, <4>1, CountTypes
    <3>2. m \in S
      BY <1>1, <2>5, <3>1 DEF Spare
    <3>3. m \notin T
      <4> SUFFICES ASSUME NEW x \in Worker, NEW i \in Position(x)',
                          At(x, i)' = d, Number(x, i)' = m
                   PROVE  FALSE
        BY DEF Spare
      <4>1. x = w /\ was(x, i) = 1
        BY <1>1, <1>2, <2>5 DEF ClaimInv, Distinct
      <4> QED BY <1>2, <4>1
    <3>4. IsFiniteSet(S) /\ Cardinality(S) \in Nat
      BY SpareIsFinite
    <3>5. Excess(d)' = Excess(d) /\ Pending(d)' = 1
      BY <1>4, <2>5 DEF Excess, Pending
    <3>6. Excess(d) + Cardinality(S) + Pending(d) <= lapsed[d]
      BY <2>1 DEF Tokens
    <3>7. Excess(d) \in Int /\ Pending(d) \in {0, 1} /\ lapsed[d] \in Nat
      BY ExcessTypes
    <3>8. T \subseteq S \ {m}
      BY <2>2, <3>3
    <3> HIDE DEF S, T, m
    <3>9. IsFiniteSet(S \ {m}) /\ Cardinality(S \ {m}) = Cardinality(S) - 1
      BY <3>2, <3>4, FS_RemoveElement
    <3>10. Cardinality(T) \in Nat /\ Cardinality(T) <= Cardinality(S) - 1
      BY <3>8, <3>9, FS_Subset, FS_CardinalityType
    <3>11. Excess(d)' + Cardinality(T) + Pending(d)' <= lapsed'[d]
      BY <2>1, <3>4, <3>5, <3>6, <3>7, <3>10
    <3> QED BY <3>11 DEF Tokens, T
  <2> QED BY <2>3, <2>4, <2>5
<1> QED BY <1>5, <1>6, <1>7, <1>8, <1>9, <1>10 DEF ClaimInv

\* A crash drops what its worker held, tokens included.
LEMMA ClaimCrash ==
  ASSUME TypeOK, TypeOK', ClaimInv, NEW w \in Worker, Crash(w) PROVE ClaimInv'
<1>1. /\ Position(w)' = {} /\ UNCHANGED <<writer, delivery, since, lapsed>>
      /\ \A x \in Worker : x # w => queue'[x] = queue[x]
  BY EmptySeq DEF Crash, TypeOK, Position
<1>2. \A x \in Worker : \A i \in Position(x)' :
        /\ i \in Position(x) /\ At(x, i)' = At(x, i) /\ Number(x, i)' = Number(x, i)
        /\ At(x, i) \in Delivery
  BY <1>1, QueueTypes DEF Position, At, Number
<1>3. Announced' /\ Numbered' /\ Timed'
  BY <1>1, <1>2 DEF ClaimInv, Announced, Numbered, Timed
<1>4. Distinct' /\ Sole'
  BY <1>1, <1>2 DEF ClaimInv, Distinct, Sole
<1>5. ASSUME NEW d \in Delivery PROVE Tokens(d)'
  <2>1. Spare(d)' \subseteq Spare(d)
    BY <1>2 DEF Spare
  <2>2. Excess(d)' = Excess(d) /\ Pending(d)' = Pending(d) /\ lapsed'[d] = lapsed[d] /\ Tokens(d)
    BY <1>1 DEF Excess, Pending, ClaimInv
  <2> QED BY <2>1, <2>2, ExcessTypes, TokensShrink
<1> QED BY <1>3, <1>4, <1>5 DEF ClaimInv

LEMMA ClaimStep == TypeOK /\ TypeOK' /\ ClaimInv /\ [Next]_vars => ClaimInv'
<1> SUFFICES ASSUME TypeOK, TypeOK', ClaimInv, [Next]_vars PROVE ClaimInv'
  OBVIOUS
<1>1. CASE Outbox
  BY <1>1, ClaimOutbox
<1>2. CASE Service
  BY <1>2, ClaimService
<1>3. ASSUME NEW w \in Worker, Dispatch(w) \/ Crash(w) PROVE ClaimInv'
  BY <1>3, ClaimClaim, ClaimFinish, ClaimCrash DEF Dispatch
<1>4. CASE Tick
  BY <1>4, ClaimTick
<1>5. CASE UNCHANGED vars
  <2>1. UNCHANGED <<writer, delivery, queue, since, lapsed>>
    BY <1>5 DEF vars
  <2>2. Announced'
    BY <2>1, StillAnnounced
  <2> QED BY <2>1, <2>2, RowStays, ClaimQuiet
<1> QED BY <1>1, <1>2, <1>3, <1>4, <1>5 DEF Next

LEMMA ClaimInvariant == Spec => []ClaimInv
<1>1. TypeOK /\ ClaimInv /\ [Next]_vars => ClaimInv'
  BY ClaimStep, TypeStep
<1> QED BY <1>1, ClaimInit, TypeCorrect, PTL DEF Spec

(***************************************************************************)
(* What becomes of a delivery and of an endpoint.                          *)
(***************************************************************************)

\* Two workers have the same delivery in hand only once a claim of it has
\* outlived its lease, however long their batches take and whoever crashes.
THEOREM OnlyLapsesShare == Spec => []SharedOnceLapsed
<1>1. TypeOK /\ ClaimInv => SharedOnceLapsed
  <2> SUFFICES ASSUME TypeOK, ClaimInv, NEW w \in Worker, NEW x \in Worker,
                      NEW d \in Delivery, Holds(w, d), Holds(x, d)
               PROVE  w = x \/ lapsed[d] > 0
    BY DEF SharedOnceLapsed
  <2>1. \A y \in Worker : DOMAIN queue[y] = Position(y)
    BY LenProperties DEF TypeOK, Position
  <2>2. lapsed[d] \in Nat
    BY DEF TypeOK
  <2> QED BY <2>1, <2>2 DEF Holds, ClaimInv, Sole, At
<1> QED BY <1>1, ClaimInvariant, TypeCorrect, PTL

\* The attempts made are at most MAX_ATTEMPTS and the claims that lapsed,
\* whichever of two workers finishes first and whatever it records.
THEOREM AttemptsBounded == Spec => []AttemptsAreBounded
<1>1. TypeOK /\ ClaimInv => AttemptsAreBounded
  <2> SUFFICES ASSUME TypeOK, ClaimInv, NEW d \in Delivery
               PROVE  delivery[d].attempts <= MaxAttempts + lapsed[d]
    BY DEF AttemptsAreBounded
  <2>1. Excess(d) + Cardinality(Spare(d)) + Pending(d) <= lapsed[d]
    BY DEF ClaimInv, Tokens
  <2>2. Cardinality(Spare(d)) \in Nat
    BY SpareIsFinite
  <2>3. /\ Excess(d) \in Int /\ Pending(d) \in {0, 1} /\ lapsed[d] \in Nat
        /\ delivery[d].attempts \in Nat
    BY ExcessTypes
  <2>4. Excess(d) <= lapsed[d]
    BY <2>1, <2>2, <2>3
  <2> QED BY <2>3, <2>4, CountTypes DEF Excess
<1> QED BY <1>1, ClaimInvariant, TypeCorrect, PTL

Final(d) == delivery[d].status \in {"succeeded", "failed"}

LEMMA FinalStep ==
  ASSUME TypeOK, ClaimInv, [Next]_vars, NEW d \in Delivery, Final(d), ~(lapsed[d] > 0)
  PROVE  delivery'[d].status \in {delivery[d].status, "absent"}
<1> USE DEF Final
<1>1. writer[d[1]].step = "done"
  BY DEF ClaimInv, Announced
<1>2. CASE Outbox
  <2>1. ASSUME NEW v \in Event, ReadEndpoints(v) \/ AbortEvent(v)
        PROVE  delivery'[d] = delivery[d]
    BY <2>1 DEF ReadEndpoints, AbortEvent
  <2>2. ASSUME NEW v \in Event, CommitEvent(v) PROVE delivery'[d] = delivery[d]
    <3>1. d[1] # v
      BY <1>1, <2>2 DEF CommitEvent
    <3> QED BY <2>2, <3>1 DEF CommitEvent
  <2> QED BY <1>2, <2>1, <2>2 DEF Outbox
<1>3. CASE Service
  <2>1. ASSUME NEW p \in Endpoint, Register(p) \/ \E on \in BOOLEAN : SetEnabled(p, on)
        PROVE  delivery'[d] = delivery[d]
    BY <2>1 DEF Register, SetEnabled
  <2>2. ASSUME NEW p \in Endpoint, Remove(p)
        PROVE  delivery'[d].status \in {delivery[d].status, "absent"}
    BY <2>2 DEF Remove, NoDelivery
  <2>3. ASSUME NEW c \in Delivery, NEW v \in Event, Replay(c, v)
        PROVE  delivery'[d] = delivery[d]
    <3>1. d[1] # v
      BY <1>1, <2>3 DEF Replay, Unused
    <3>2. d # <<v, c[2]>>
      BY <3>1
    <3> QED BY <2>3, <3>2 DEF Replay, TypeOK
  <2> QED BY <1>3, <2>1, <2>2, <2>3 DEF Service
<1>4. ASSUME NEW w \in Worker, ClaimBatch(w) PROVE delivery'[d] = delivery[d]
  <2>1. PICK n \in Nat : \E q \in [1..n -> Delivery] : Claimed(w, n, q)
    BY <1>4, ClaimEffect
  <2>2. PICK q \in [1..n -> Delivery] : Claimed(w, n, q)
    BY <2>1
  <2>3. ~Claimable(d)
    BY DEF Claimable
  <2> QED BY <2>2, <2>3 DEF Claimed
<1>5. ASSUME NEW w \in Worker, FinishAttempt(w) PROVE delivery'[d] = delivery[d]
  <2>1. lapsed[d] = 0
    BY DEF TypeOK
  <2>2. 1 \in Position(w)
    BY <1>5, FinishedRow
  <2>3. d # At(w, 1)
    BY <2>1, <2>2 DEF ClaimInv, Sole
  <2> QED BY <1>5, <2>3, FinishedRow
<1>6. ASSUME NEW w \in Worker, Crash(w) PROVE delivery'[d] = delivery[d]
  BY <1>6 DEF Crash
<1>7. CASE Tick
  <2>1. delivery'[d] = Aged(delivery[d]) /\ delivery[d] \in DeliveryRow
    BY <1>7 DEF Tick, TypeOK
  <2> QED BY <2>1, AgedType
<1>8. CASE UNCHANGED vars
  BY <1>8 DEF vars
<1> QED BY <1>2, <1>3, <1>4, <1>5, <1>6, <1>7, <1>8 DEF Next, Dispatch

\* A recorded outcome is overwritten only for a delivery of which a claim has
\* outlived its lease: until then nobody finishes what another has finished.
THEOREM OutcomesStand == Spec => FinalAnswersStand
<1>1. TypeOK /\ ClaimInv /\ [Next]_vars =>
        [\A d \in Delivery :
           delivery[d].status \in {"succeeded", "failed"} =>
             delivery'[d].status \in {delivery[d].status, "absent"} \/ lapsed[d] > 0]_delivery
  BY FinalStep DEF Final
<1> QED BY <1>1, ClaimInvariant, TypeCorrect, PTL DEF Spec, FinalAnswersStand

(***************************************************************************)
(* The circuit breaker.                                                    *)
(***************************************************************************)
Breaker == \A p \in Endpoint :
             endpoint[p].state # "disabled" => endpoint[p].failures < FailureThreshold

LEMMA BreakerStep == TypeOK /\ Breaker /\ [Next]_vars => Breaker'
<1> SUFFICES ASSUME TypeOK, Breaker, [Next]_vars PROVE Breaker'
  OBVIOUS
<1>1. CASE UNCHANGED endpoint
  BY <1>1 DEF Breaker
<1>2. CASE Service
  <2>1. ASSUME NEW p \in Endpoint, Register(p) PROVE Breaker'
    BY <2>1, CountsAssumption DEF Register, Breaker, TypeOK, EndpointRow
  <2>2. ASSUME NEW p \in Endpoint, Remove(p) PROVE Breaker'
    BY <2>2, CountsAssumption DEF Remove, Breaker, TypeOK
  <2>3. ASSUME NEW p \in Endpoint, NEW on \in BOOLEAN, SetEnabled(p, on) PROVE Breaker'
    BY <2>3, CountsAssumption DEF SetEnabled, Breaker, TypeOK
  <2>4. ASSUME NEW c \in Delivery, NEW v \in Event, Replay(c, v) PROVE Breaker'
    BY <1>1, <2>4 DEF Replay
  <2> QED BY <1>2, <2>1, <2>2, <2>3, <2>4 DEF Service
<1>3. ASSUME NEW w \in Worker, FinishAttempt(w) PROVE Breaker'
  <2>1. PICK outcome \in Outcomes :
          endpoint' = [endpoint EXCEPT ![Head(queue[w]).id[2]] = Counted(@, outcome)]
    BY <1>3 DEF FinishAttempt
  <2>2. \A row \in EndpointRow :
          (row.state # "disabled" => row.failures < FailureThreshold) =>
          (Counted(row, outcome).state # "disabled" =>
             Counted(row, outcome).failures < FailureThreshold)
    BY CountsAssumption DEF Counted, EndpointRow
  <2> QED BY <2>1, <2>2 DEF Breaker, TypeOK
<1> QED BY <1>1, <1>2, <1>3
        DEF Next, Outbox, ReadEndpoints, CommitEvent, AbortEvent, Dispatch, ClaimBatch,
            Crash, Tick, vars

\* An enabled endpoint has not failed FAILURE_THRESHOLD times in a row, whichever
\* workers counted and whoever enabled it.
THEOREM CircuitBreaks == Spec => []BreakerOpens
<1>1. Init => Breaker
  BY CountsAssumption DEF Init, Breaker
<1>2. Breaker => BreakerOpens
  BY DEF Breaker, BreakerOpens, Enabled
<1> QED BY <1>1, <1>2, BreakerStep, TypeCorrect, PTL DEF Spec

=============================================================================
