------------------------------ MODULE Journal -------------------------------
(***************************************************************************)
(* The journal service over Postgres: sessions, each running one request   *)
(* in one READ COMMITTED transaction (withTenant), interleaved statement   *)
(* by statement.  A statement reads what is committed; a row another       *)
(* session has updated is waited for and then re-read; unique indexes wait *)
(* for an uncommitted rival.  Nothing a session writes is visible, and     *)
(* everything it wrote disappears if it stops before COMMIT.               *)
(***************************************************************************)
EXTENDS Ledger, Sequences

CONSTANTS Session,    \* concurrent requests
          Request     \* what a client may send

NoRequest == [op |-> "none", key |-> NoKey, lines |-> NoLines,
              status |-> "posted", owned |-> FALSE, pinned |-> FALSE,
              target |-> NoEntry, account |-> -1]

\* `op`: "post" is postEntry, "sql" a writer that goes around the service,
\* "reverse", "settle" and "archive" the journal's other operations, "close"
\* accounts.close.  `pinned` asks for optimistic concurrency: the client
\* sends the versions it read.  `account` is the account a close names.
RequestType ==
  [op : {"none", "post", "sql", "reverse", "settle", "archive", "close"},
   key : Key \cup {NoKey}, lines : Lines, status : {"pending", "posted"},
   owned : BOOLEAN, pinned : BOOLEAN, target : Entry \cup {NoEntry}, account : Int]

ASSUME RequestAssumption ==
  \A r \in Request : /\ r \in RequestType
                     /\ r.op # "none"
                     /\ r.op \in {"reverse", "settle", "archive"} <=> r.target # NoEntry
                     /\ r.op = "close" => r.account \in Account
                     /\ r.op = "sql" => Touched(r.lines) # {}
                     /\ r.key # NoKey => r.op \in {"post", "reverse"}

VARIABLES acct,      \* committed rows of accounts
          pc, req,
          expect,    \* expectedVersions, by account
          lines,     \* the lines being written
          todo,      \* accounts whose row is still to be updated, in order
          rows       \* uncommitted images of the account rows held

sessionVars == <<pc, req, expect, lines, todo, rows>>
vars == <<entry, claim, acct, sessionVars>>

\* Nulls: an account row the session does not hold, a version not pinned.
Unheld == [EmptyRow EXCEPT !.version = -1]
NoRows == [a \in Account |-> Unheld]
Unpinned == [a \in Account |-> -1]

Init ==
  /\ LedgerInit
  /\ acct = [a \in Account |-> EmptyRow]
  /\ pc = [s \in Session |-> "idle"]
  /\ req = [s \in Session |-> NoRequest]
  /\ expect = [s \in Session |-> Unpinned]
  /\ lines = [s \in Session |-> NoLines]
  /\ todo = [s \in Session |-> <<>>]
  /\ rows = [s \in Session |-> NoRows]

Writes(s) == req[s].op \in {"post", "sql", "reverse"}
Transitions(s) == req[s].op \in {"settle", "archive"}
Wrote(s) == pc[s] \in {"apply", "commit"}

\* Uncommitted things another session waits for.
\* Mutant HoldsKeyAtEnd: the key is stored only once the entry is written.
HoldsKeyAtEnd(s, k) == pc[s] = "commit" /\ req[s].key = k

HoldsKey(s, k) == pc[s] \notin {"idle", "claim"} /\ req[s].key = k
HoldsReversal(s, e) == Wrote(s) /\ req[s].op = "reverse" /\ req[s].target = e
HoldsEntry(s, e) == Wrote(s) /\ Transitions(s) /\ req[s].target = e
HoldsAccount(s, a) == rows[s][a] # Unheld

\* Mutant: balances updated without the row lock an UPDATE takes.
WaitsForNoRow(s, t) ==
  /\ s # t
  /\ \/ pc[s] = "claim" /\ HoldsKey(t, req[s].key)
     \/ pc[s] = "insert" /\ req[s].op = "reverse" /\ HoldsReversal(t, req[s].target)
     \/ pc[s] = "lock" /\ HoldsEntry(t, req[s].target)

WaitsFor(s, t) ==
  /\ s # t
  /\ \/ pc[s] = "claim" /\ HoldsKey(t, req[s].key)
     \/ pc[s] = "insert" /\ req[s].op = "reverse" /\ HoldsReversal(t, req[s].target)
     \/ pc[s] = "lock" /\ HoldsEntry(t, req[s].target)
     \/ pc[s] = "apply" /\ HoldsAccount(t, Head(todo[s]))

Proceeds(s) == \A t \in Session : ~WaitsFor(s, t)

Finish(s) ==
  /\ pc' = [pc EXCEPT ![s] = "idle"]
  /\ req' = [req EXCEPT ![s] = NoRequest]
  /\ expect' = [expect EXCEPT ![s] = Unpinned]
  /\ lines' = [lines EXCEPT ![s] = NoLines]
  /\ todo' = [todo EXCEPT ![s] = <<>>]
  /\ rows' = [rows EXCEPT ![s] = NoRows]

\* Mutant: a refused request returns its connection with locks still held.
RollbackLeak(s) ==
  /\ pc' = [pc EXCEPT ![s] = "idle"]
  /\ req' = [req EXCEPT ![s] = NoRequest]
  /\ UNCHANGED <<expect, lines, todo, rows, entry, claim, acct>>

\* The transaction ends without a COMMIT: a refusal thrown as DomainAbort, a
\* constraint violation, or a lost connection.
Rollback(s) == Finish(s) /\ UNCHANGED <<entry, claim, acct>>

Goto(s, label) == pc' = [pc EXCEPT ![s] = label]
KeepCommitted == UNCHANGED <<entry, claim, acct>>

\* Ids left for the entries in flight (bound: |Entry|).
RoomFor(r) ==
  r.op \in {"post", "sql", "reverse"} =>
    Cardinality({s \in Session : Writes(s)})
      < Cardinality({e \in Entry : entry[e].status = "absent"})

FirstStep(r) ==
  CASE r.key # NoKey  -> "claim"
    [] r.op = "sql"   -> "insert"
    [] r.op = "close" -> "apply"
    [] OTHER          -> "read"

\* A client sends a request, having just read the versions it pins.
Begin(s) ==
  /\ pc[s] = "idle"
  /\ \E r \in Request :
       /\ RoomFor(r)
       /\ Goto(s, FirstStep(r))
       /\ req' = [req EXCEPT ![s] = r]
       /\ expect' = [expect EXCEPT ![s] =
            [a \in Account |->
               IF r.pinned /\ a \in Touched(r.lines) THEN acct[a].version ELSE -1]]
       /\ lines' = [lines EXCEPT ![s] = r.lines]
       /\ todo' = [todo EXCEPT ![s] = IF r.op = "close" THEN <<r.account>> ELSE <<>>]
       /\ UNCHANGED rows
  /\ KeepCommitted

\* claimIdempotencyKey: the first claimant goes on; a later one is answered
\* with the stored entry, or refused because the body differs.  Both answers
\* leave the database as it was, so one action stands for them.
ClaimKey(s) ==
  /\ pc[s] = "claim"
  /\ Proceeds(s)
  /\ claim[req[s].key] = NoEntry
  /\ Goto(s, "read")
  /\ KeepCommitted /\ UNCHANGED <<req, expect, lines, todo, rows>>

ReplayKey(s) ==
  /\ pc[s] = "claim"
  /\ Proceeds(s)
  /\ claim[req[s].key] # NoEntry
  /\ Rollback(s)

\* loadAccounts, validateDraft, assertVersions and assertNoOverdraft, all
\* judged on the rows one SELECT returned, none of them locked.
AccountsAllow(s, newLines) ==
  /\ \A a \in Touched(newLines) : acct[a].open
  /\ Balanced(newLines)
  /\ \A a \in Account : expect[s][a] \in {-1, acct[a].version}
  /\ \A a \in Touched(newLines) :
       ~WouldOverdraw(acct[a], Sign(a), newLines[a].amount, a \in Overdraft)

ReadForPost(s) ==
  /\ pc[s] = "read" /\ req[s].op = "post"
  /\ AccountsAllow(s, lines[s])
  /\ Goto(s, "insert")
  /\ KeepCommitted /\ UNCHANGED <<req, expect, lines, todo, rows>>

Reversible(e) == /\ entry[e].status = "posted"
                 /\ Reversals(entry, e) = {}
                 /\ ~entry[e].owned

ReadForReverse(s) ==
  LET mirrored == Mirror(entry[req[s].target].lines) IN
  /\ pc[s] = "read" /\ req[s].op = "reverse"
  /\ Reversible(req[s].target)
  /\ AccountsAllow(s, mirrored)
  /\ lines' = [lines EXCEPT ![s] = mirrored]
  /\ Goto(s, "insert")
  /\ KeepCommitted /\ UNCHANGED <<req, expect, todo, rows>>

ReadForTransition(s) ==
  /\ pc[s] = "read" /\ Transitions(s)
  /\ entry[req[s].target].status = "pending"
  /\ Goto(s, "lock")
  /\ KeepCommitted /\ UNCHANGED <<req, expect, lines, todo, rows>>

ReadRefused(s) ==
  /\ pc[s] = "read"
  /\ CASE req[s].op = "post"    -> ~AccountsAllow(s, lines[s])
       [] req[s].op = "reverse" ->
            \/ ~Reversible(req[s].target)
            \/ ~AccountsAllow(s, Mirror(entry[req[s].target].lines))
       [] OTHER -> entry[req[s].target].status # "pending"
  /\ Rollback(s)

\* The order in which a writer takes the account rows: the service sorts its
\* postings by account id; the status trigger loops over an unordered SELECT,
\* and hand-written SQL comes in any order.
Ascending(order) == \A i, j \in DOMAIN order : i < j => order[i] < order[j]

Orderings(S) == {q \in [1..Cardinality(S) -> S] : \A i, j \in DOMAIN q : q[i] = q[j] => i = j}

\* Mutant: `writeEntry` without its `.sort`.
LockOrdersUnsorted(s, S) == Orderings(S)

LockOrders(s, S) ==
  {q \in Orderings(S) : req[s].op \in {"post", "reverse"} => Ascending(q)}

\* INSERT INTO transactions, then the BEFORE ROW triggers of the postings:
\* the one-reversal index and postings_require_open_account.
InsertAllowed(s) ==
  /\ req[s].op = "reverse" => Reversals(entry, req[s].target) = {}
  /\ \A a \in Touched(lines[s]) : acct[a].open

InsertEntry(s) ==
  /\ pc[s] = "insert"
  /\ Proceeds(s)
  /\ InsertAllowed(s)
  /\ \E order \in LockOrders(s, Touched(lines[s])) : todo' = [todo EXCEPT ![s] = order]
  /\ Goto(s, "apply")
  /\ KeepCommitted /\ UNCHANGED <<req, expect, lines, rows>>

InsertRefused(s) ==
  /\ pc[s] = "insert"
  /\ Proceeds(s)
  /\ ~InsertAllowed(s)
  /\ Rollback(s)

\* Mutant: no transactions_guard_mutation; the status read earlier is trusted.
LockEntryUnguarded(s) ==
  /\ pc[s] = "lock"
  /\ Proceeds(s)
  /\ lines' = [lines EXCEPT ![s] = entry[req[s].target].lines]
  /\ \E order \in LockOrders(s, Touched(lines'[s])) : todo' = [todo EXCEPT ![s] = order]
  /\ Goto(s, "apply")
  /\ KeepCommitted /\ UNCHANGED <<req, expect, rows>>

\* UPDATE transactions SET status: waits for a rival's row lock, then
\* obol_guard_transaction_mutation judges the row the rival committed.
LockEntry(s) ==
  /\ pc[s] = "lock"
  /\ Proceeds(s)
  /\ entry[req[s].target].status = "pending"
  /\ lines' = [lines EXCEPT ![s] = entry[req[s].target].lines]
  /\ \E order \in LockOrders(s, Touched(lines'[s])) : todo' = [todo EXCEPT ![s] = order]
  /\ Goto(s, "apply")
  /\ KeepCommitted /\ UNCHANGED <<req, expect, rows>>

LockRefused(s) ==
  /\ pc[s] = "lock"
  /\ Proceeds(s)
  /\ entry[req[s].target].status # "pending"
  /\ Rollback(s)

\* One row of accounts, as this session's trigger leaves it, and whether the
\* row's CHECKs held at every UPDATE on the way.
NewStatus(s) == IF req[s].op = "archive" THEN "archived" ELSE "posted"

NextRow(s, a) ==
  CASE Writes(s)      -> ApplyPosting(acct[a], Sign(a), lines[s][a], req[s].status)
    [] Transitions(s) -> ApplyStatusChange(acct[a], Sign(a), lines[s][a], NewStatus(s))
    [] OTHER          -> [acct[a] EXCEPT !.open = FALSE]

\* Mutant: no CHECK behind assertNoOverdraft, which judges an unlocked read.
ChecksHoldForTransitions(s, a) ==
  Transitions(s) =>
    StatusChangeChecks(acct[a], Sign(a), lines[s][a], NewStatus(s), a \in Overdraft)

ChecksHold(s, a) ==
  IF Transitions(s)
  THEN StatusChangeChecks(acct[a], Sign(a), lines[s][a], NewStatus(s), a \in Overdraft)
  ELSE RowChecks(NextRow(s, a), Sign(a), a \in Overdraft)

ApplyRow(s) ==
  LET a == Head(todo[s]) IN
  /\ pc[s] = "apply"
  /\ Proceeds(s)
  /\ ChecksHold(s, a)
  /\ rows' = [rows EXCEPT ![s][a] = NextRow(s, a)]
  /\ todo' = [todo EXCEPT ![s] = Tail(@)]
  /\ Goto(s, IF Tail(todo[s]) = <<>> THEN "commit" ELSE "apply")
  /\ KeepCommitted /\ UNCHANGED <<req, expect, lines>>

ApplyRefused(s) ==
  /\ pc[s] = "apply"
  /\ Proceeds(s)
  /\ ~ChecksHold(s, Head(todo[s]))
  /\ Rollback(s)

PublishRows(s) ==
  acct' = [a \in Account |-> IF HoldsAccount(s, a) THEN rows[s][a] ELSE acct[a]]

\* COMMIT.  The deferred balance trigger speaks here, and a key claimed at the
\* start is published with the entry it answers with.
CommitWrite(s) ==
  /\ pc[s] = "commit" /\ Writes(s)
  /\ Balanced(lines[s])
  /\ \E e \in Entry :
       /\ entry[e].status = "absent"
       /\ entry' = [entry EXCEPT ![e] =
            [status |-> req[s].status, lines |-> lines[s], reverses |-> req[s].target,
             owned |-> req[s].owned, key |-> req[s].key]]
       /\ claim' = [k \in Key |-> IF k = req[s].key THEN e ELSE claim[k]]
  /\ PublishRows(s)
  /\ Finish(s)

CommitRefused(s) ==
  /\ pc[s] = "commit" /\ Writes(s)
  /\ ~Balanced(lines[s])
  /\ Rollback(s)

CommitTransition(s) ==
  /\ pc[s] = "commit" /\ Transitions(s)
  /\ entry' = [entry EXCEPT ![req[s].target].status = NewStatus(s)]
  /\ PublishRows(s)
  /\ Finish(s)
  /\ UNCHANGED claim

CommitClose(s) ==
  /\ pc[s] = "commit" /\ req[s].op = "close"
  /\ PublishRows(s)
  /\ Finish(s)
  /\ UNCHANGED <<entry, claim>>

\* Sessions each waiting for another of the same group.
Cycle(group) ==
  /\ group # {}
  /\ \A s \in group : /\ \E t \in group : WaitsFor(s, t)
                      /\ \E t \in group : WaitsFor(t, s)

\* Postgres ends a deadlock by failing one of the transactions in it (40P01).
DeadlockVictim(s) ==
  /\ \E group \in SUBSET Session : s \in group /\ Cycle(group)
  /\ Rollback(s)

\* The process dies or the connection drops.
Crash(s) == pc[s] # "idle" /\ Rollback(s)

Work(s) ==
  \/ ClaimKey(s) \/ ReplayKey(s)
  \/ ReadForPost(s) \/ ReadForReverse(s) \/ ReadForTransition(s) \/ ReadRefused(s)
  \/ InsertEntry(s) \/ InsertRefused(s)
  \/ LockEntry(s) \/ LockRefused(s)
  \/ ApplyRow(s) \/ ApplyRefused(s)
  \/ CommitWrite(s) \/ CommitRefused(s) \/ CommitTransition(s) \/ CommitClose(s)

Next == \E s \in Session : Begin(s) \/ Work(s) \/ DeadlockVictim(s) \/ Crash(s)

Spec == Init /\ [][Next]_vars

\* Strong fairness of a session's own steps: a lock a session waits for may be
\* released and taken again many times, and Postgres queues its waiters, so
\* each is served.  The deadlock detector runs whenever a wait lasts.
FairSpec ==
  /\ Spec
  /\ \A s \in Session : SF_vars(Work(s)) /\ WF_vars(DeadlockVictim(s))

(***************************************************************************)
(* Properties.                                                             *)
(***************************************************************************)
Pcs == {"idle", "claim", "read", "insert", "lock", "apply", "commit"}

TypeOK ==
  /\ entry \in [Entry -> EntryRow]
  /\ claim \in [Key -> Entry \cup {NoEntry}]
  /\ acct \in [Account -> Row]
  /\ pc \in [Session -> Pcs]
  /\ req \in [Session -> RequestType]
  /\ expect \in [Session -> [Account -> Nat \cup {-1}]]
  /\ lines \in [Session -> Lines]
  /\ todo \in [Session -> Seq(Account)]
  /\ rows \in [Session -> [Account -> Row \cup {Unheld}]]

\* The balance columns the triggers maintain are exactly the sums of the
\* committed postings: no update is lost, applied twice or left behind by a
\* rollback, whatever the sessions interleave (obol_apply_posting_to_balance,
\* obol_apply_status_change).
BalancesAreSums ==
  \A a \in Account :
    /\ acct[a].balance = PostedBalance(entry, a)
    /\ acct[a].base    = PostedWorth(entry, a)
    /\ acct[a].inflow  = PendingInflow(entry, a)
    /\ acct[a].outflow = PendingOutflow(entry, a)

\* Nothing is spent twice: whatever was settled or reserved concurrently, an
\* account not opened to overdraw has at least its reservations settled
\* (accounts_overdraft_check is the authority behind assertNoOverdraft).
NeverOverdrawn ==
  \A a \in Account \ Overdraft : Sign(a) * acct[a].balance >= acct[a].outflow

\* A reservation made is a reservation honoured: no CHECK can fail while a
\* pending entry is settled or archived.  ADR 8 says that one "can be gone by
\* settlement if something else drained the account first", and transitionEntry
\* keeps an insufficient_funds answer for it; a hold counts against what others
\* may spend, so that answer is never given.
TransitionsNeverOverdraw ==
  \A s \in Session :
    pc[s] = "apply" /\ Transitions(s) /\ Proceeds(s) => ChecksHold(s, Head(todo[s]))

\* "Concurrent entries touching the same pair of accounts always take row
\* locks in the same order and cannot deadlock" (writeEntry): no sessions that
\* write entries wait on one another in a circle, whatever else is going on.
\* A settlement or a cancellation is not among them: it takes its rows in the
\* order a SELECT without ORDER BY returns them, and can be in a circle.
NoDeadlock ==
  \A group \in SUBSET {s \in Session : req[s].op \in {"post", "reverse"}} : ~Cycle(group)

\* A balance that moved is a version that moved, so an unchanged version means
\* unchanged balances (0004: version is incremented on every balance change).
VersionAdvances ==
  [][\A a \in Account :
       \/ acct'[a].version > acct[a].version
       \/ [acct[a] EXCEPT !.open = acct'[a].open] = acct'[a]]_acct

\* assertVersions: an entry written against versions the client read commits
\* only if those accounts have not moved since.
PinnedWritesAreFresh ==
  [][\A s \in Session :
       pc[s] = "commit" /\ pc'[s] = "idle" /\ acct' # acct =>
         \A a \in Account : expect[s][a] \in {-1, acct[a].version}]_vars

\* Every request is answered: no session holds its locks, or waits for
\* another's, for ever.
RequestsEnd == \A s \in Session : pc[s] # "idle" ~> pc[s] = "idle"

=============================================================================
