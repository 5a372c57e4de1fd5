--------------------------- MODULE JournalProofs ----------------------------
(***************************************************************************)
(* What holds of the journal for every set of accounts, entries, keys,     *)
(* sessions and requests: its types; account rows, idempotency keys, the   *)
(* append-only history, reversals, the order of locks, the balance columns *)
(* as sums, and that it all implements the ledger.  Each invariant says    *)
(* who holds the lock, the key or the index entry, and what the holder may *)
(* therefore still assume.                                                 *)
(***************************************************************************)
EXTENDS Journal, Sums, WellFoundedInduction, TLAPS

USE DEF ledgerVars

(***************************************************************************)
(* Arithmetic of one account row.                                          *)
(***************************************************************************)
\* A sign is one of two, which makes every product below linear.
LEMMA SignType == \A a : Sign(a) \in {-1, 1}
BY DEF Sign

\* A reservation is a natural number, whichever way the posting goes.
LEMMA PositiveType == \A n \in Int : Positive(n) \in Nat
BY DEF Positive

LEMMA PresentedType ==
  ASSUME NEW sign \in {-1, 1}, NEW line \in Line
  PROVE  sign * line.amount \in Int /\ line.amount \in Int /\ line.base \in Int
BY DEF Line

LEMMA RowFields ==
  ASSUME NEW row \in Row
  PROVE  /\ row.balance \in Int /\ row.base \in Int
         /\ row.inflow \in Nat /\ row.outflow \in Nat
         /\ row.version \in Nat /\ row.open \in BOOLEAN
BY DEF Row

\* Inserting a posting keeps the row a row, and moves its version.
LEMMA ApplyPostingType ==
  ASSUME NEW row \in Row, NEW sign \in {-1, 1}, NEW line \in Line,
         NEW status \in {"pending", "posted"}
  PROVE  /\ ApplyPosting(row, sign, line, status) \in Row
         /\ ApplyPosting(row, sign, line, status).version > row.version
<1>1. CASE status = "posted"
  <2>1. ApplyPosting(row, sign, line, status) =
          [balance |-> row.balance + line.amount, base |-> row.base + line.base,
           inflow |-> row.inflow, outflow |-> row.outflow,
           version |-> row.version + 1, open |-> row.open]
    BY <1>1 DEF ApplyPosting, Row
  <2> QED BY <2>1, PresentedType, RowFields DEF Row
<1>2. CASE status = "pending"
  <2> DEFINE in  == Positive(sign * line.amount)
             out == Positive(-(sign * line.amount))
  <2>1. in \in Nat /\ out \in Nat
    BY PresentedType, PositiveType
  <2>2. ApplyPosting(row, sign, line, status) =
          [balance |-> row.balance, base |-> row.base,
           inflow |-> row.inflow + in, outflow |-> row.outflow + out,
           version |-> row.version + 1, open |-> row.open]
    BY <1>2 DEF ApplyPosting, Row
  <2> HIDE DEF in, out
  <2> QED BY <2>1, <2>2, RowFields DEF Row
<1> QED BY <1>1, <1>2

\* Settling or cancelling keeps the row a row when the CHECKs held on the way,
\* and moves its version.
LEMMA ApplyStatusChangeType ==
  ASSUME NEW row \in Row, NEW sign \in {-1, 1}, NEW line \in Line, NEW to,
         NEW overdraft \in BOOLEAN,
         StatusChangeChecks(row, sign, line, to, overdraft)
  PROVE  /\ ApplyStatusChange(row, sign, line, to) \in Row
         /\ ApplyStatusChange(row, sign, line, to).version > row.version
<1> DEFINE in  == Positive(sign * line.amount)
           out == Positive(-(sign * line.amount))
           released == ReleaseReservation(row, sign, line)
<1>1. in \in Nat /\ out \in Nat
  BY PresentedType, PositiveType
<1>2. released = [row EXCEPT !.inflow = @ - in, !.outflow = @ - out]
  BY DEF ReleaseReservation
<1>3. released.inflow >= 0 /\ released.outflow >= 0
  BY DEF StatusChangeChecks, RowChecks
<1> HIDE DEF in, out, released
<1>2r. released = [balance |-> row.balance, base |-> row.base,
                  inflow |-> row.inflow - in, outflow |-> row.outflow - out,
                  version |-> row.version, open |-> row.open]
  BY <1>2 DEF Row
<1>4. released \in Row /\ released.version = row.version
  BY <1>1, <1>2r, <1>3, RowFields DEF Row
<1>5. CASE to = "posted"
  <2>1. ApplyStatusChange(row, sign, line, to) =
          [SettleLine(released, line) EXCEPT !.version = @ + 1]
    BY <1>5 DEF ApplyStatusChange, released
  <2>0. SettleLine(released, line) =
          [released EXCEPT !.balance = @ + line.amount, !.base = @ + line.base]
    BY DEF SettleLine
  <2>2. SettleLine(released, line) =
          [balance |-> released.balance + line.amount, base |-> released.base + line.base,
           inflow |-> released.inflow, outflow |-> released.outflow,
           version |-> released.version, open |-> released.open]
    BY <1>4, <2>0 DEF Row
  <2>3. SettleLine(released, line) \in Row /\ SettleLine(released, line).version = row.version
    BY <1>4, <2>2, PresentedType, RowFields DEF Row
  <2> QED BY <2>1, <2>3, RowFields DEF Row
<1>6. CASE to # "posted"
  <2>1. ApplyStatusChange(row, sign, line, to) = [released EXCEPT !.version = @ + 1]
    BY <1>6 DEF ApplyStatusChange, released
  <2> QED BY <2>1, <1>4, RowFields DEF Row
<1> QED BY <1>5, <1>6

\* The mirror of an entry's lines is an entry's lines.
LEMMA MirrorType == ASSUME NEW l \in Lines PROVE Mirror(l) \in Lines
BY DEF Mirror, Lines, Line

LEMMA NullTypes == NoLines \in Lines /\ EmptyRow \in Row /\ NoRequest \in RequestType
BY NullAssumption DEF NoLines, NoLine, Lines, Line, EmptyRow, Row, NoRequest, RequestType

\* A balanced entry touches some account.
LEMMA BalancedTouches ==
  ASSUME NEW l \in Lines, Balanced(l)
  PROVE  Touched(l) # {}
<1>1. Cardinality(Touched(l)) >= 2
  BY DEF Balanced
<1>2. Cardinality({}) = 0
  BY FS_EmptySet
<1> QED BY <1>1, <1>2

\* An order in which rows are locked lists some of the accounts.
LEMMA LockOrdersType ==
  ASSUME NEW s, NEW S \in SUBSET Account, S # {}, NEW q \in LockOrders(s, S)
  PROVE  q \in Seq(Account) /\ q # <<>>
<1>1. IsFiniteSet(S)
  BY AccountAssumption, FS_Subset
<1>2. Cardinality(S) \in Nat /\ Cardinality(S) # 0
  BY <1>1, FS_CardinalityType, FS_EmptySet
<1>3. q \in [1..Cardinality(S) -> Account]
  BY DEF LockOrders, Orderings
<1> QED BY <1>2, <1>3

\* A request that names an entry names one of the book's.
LEMMA RequestTarget ==
  ASSUME NEW r \in Request, r.op \in {"reverse", "settle", "archive"}
  PROVE  r.target \in Entry
BY RequestAssumption DEF RequestType

LEMMA RequestTypes ==
  ASSUME NEW r \in Request
  PROVE  /\ r \in RequestType /\ r.lines \in Lines /\ r.op # "none"
         /\ r.status \in {"pending", "posted"} /\ r.owned \in BOOLEAN
         /\ r.key \in Key \cup {NoKey} /\ r.target \in Entry \cup {NoEntry}
BY RequestAssumption DEF RequestType

(***************************************************************************)
(* Type correctness.  Inductive only with what a session at each label     *)
(* knows: its request is a real one, a session about to write has lines to *)
(* write, and one that updates rows has a row left to update.              *)
(***************************************************************************)
CommittedTypes == /\ entry \in [Entry -> EntryRow]
                  /\ claim \in [Key -> Entry \cup {NoEntry}]
                  /\ acct \in [Account -> Row]

SessionTypes == /\ pc \in [Session -> Pcs]
                /\ req \in [Session -> RequestType]
                /\ expect \in [Session -> [Account -> Nat \cup {-1}]]
                /\ lines \in [Session -> Lines]
                /\ todo \in [Session -> Seq(Account)]
                /\ rows \in [Session -> [Account -> Row \cup {Unheld}]]

EntriesTouch == \A e \in Entry :
  /\ entry[e].status = "absent" => entry[e] = AbsentRow
  /\ entry[e].status = "pending" => Touched(entry[e].lines) # {}

Labels == \A s \in Session :
  /\ pc[s] # "idle" => req[s] \in Request
  /\ pc[s] \in {"claim", "read"} => req[s].op \in {"post", "reverse", "settle", "archive"}
  /\ pc[s] = "insert" => Writes(s) /\ Touched(lines[s]) # {}
  /\ pc[s] = "lock" => Transitions(s)
  /\ pc[s] = "apply" => todo[s] # <<>>

TypeInv == CommittedTypes /\ SessionTypes /\ EntriesTouch /\ Labels

LEMMA FinishTypes ==
  ASSUME SessionTypes, Labels, NEW s \in Session, Finish(s)
  PROVE  SessionTypes' /\ Labels'
<1>1. SessionTypes'
  BY NullTypes DEF SessionTypes, Finish, Pcs, Unpinned, NoRows
<1>2. Labels'
  BY DEF SessionTypes, Labels, Finish, Writes, Transitions
<1> QED BY <1>1, <1>2

LEMMA RollbackTypes ==
  ASSUME TypeInv, NEW s \in Session, Rollback(s)
  PROVE  TypeInv'
BY FinishTypes DEF TypeInv, Rollback, CommittedTypes, EntriesTouch

LEMMA TypeInit == Init => TypeInv
<1> SUFFICES ASSUME Init PROVE TypeInv
  OBVIOUS
<1> USE DEF Init, LedgerInit
<1>1. AbsentRow \in EntryRow
  BY NullTypes DEF AbsentRow, EntryRow
<1>2. CommittedTypes
  BY <1>1, NullTypes DEF CommittedTypes
<1>3. SessionTypes
  BY NullTypes DEF SessionTypes, Pcs, Unpinned, NoRows
<1>4. EntriesTouch /\ Labels
  BY DEF EntriesTouch, Labels, AbsentRow
<1> QED BY <1>2, <1>3, <1>4 DEF TypeInv

\* A step that only moves a session on, with typed lines.
LEMMA GotoTypes ==
  ASSUME TypeInv, NEW s \in Session, NEW label \in Pcs \ {"idle", "insert", "lock"},
         Goto(s, label), pc[s] # "idle",
         label \in {"claim", "read"} => req[s].op \in {"post", "reverse", "settle", "archive"},
         label = "apply" => todo'[s] # <<>>,
         KeepCommitted, UNCHANGED <<req, expect>>,
         lines' \in [Session -> Lines],
         \A t \in Session : t # s => lines'[t] = lines[t] /\ todo'[t] = todo[t],
         todo' \in [Session -> Seq(Account)],
         rows' \in [Session -> [Account -> Row \cup {Unheld}]]
  PROVE  TypeInv'
<1>1. CommittedTypes' /\ EntriesTouch'
  BY DEF TypeInv, CommittedTypes, EntriesTouch, KeepCommitted
<1>2. SessionTypes'
  BY DEF TypeInv, SessionTypes, Goto
<1>3. Labels'
  BY DEF TypeInv, SessionTypes, Labels, Goto, Writes, Transitions
<1> QED BY <1>1, <1>2, <1>3 DEF TypeInv

LEMMA BeginTypes ==
  ASSUME TypeInv, NEW s \in Session, Begin(s)
  PROVE  TypeInv'
<1>1. PICK r \in Request :
        /\ Goto(s, FirstStep(r))
        /\ req' = [req EXCEPT ![s] = r]
        /\ expect' = [expect EXCEPT ![s] =
             [a \in Account |->
                IF r.pinned /\ a \in Touched(r.lines) THEN acct[a].version ELSE -1]]
        /\ lines' = [lines EXCEPT ![s] = r.lines]
        /\ todo' = [todo EXCEPT ![s] = IF r.op = "close" THEN <<r.account>> ELSE <<>>]
        /\ UNCHANGED rows
  BY DEF Begin
<1>2. CommittedTypes' /\ EntriesTouch'
  BY DEF Begin, TypeInv, CommittedTypes, EntriesTouch, KeepCommitted
<1>3. /\ r \in RequestType /\ r.lines \in Lines
      /\ r.op = "close" => r.account \in Account
      /\ r.op = "sql" => Touched(r.lines) # {}
      /\ r.key # NoKey => r.op \in {"post", "reverse"}
      /\ r.op \in {"post", "sql", "reverse", "settle", "archive", "close"}
  BY RequestAssumption DEF RequestType
<1>4. FirstStep(r) \in Pcs
  BY DEF FirstStep, Pcs
<1>5. [a \in Account |->
         IF r.pinned /\ a \in Touched(r.lines) THEN acct[a].version ELSE -1]
        \in [Account -> Nat \cup {-1}]
  BY RowFields DEF TypeInv, CommittedTypes
<1>6. (IF r.op = "close" THEN <<r.account>> ELSE <<>>) \in Seq(Account)
  BY <1>3
<1>7. SessionTypes'
  BY <1>1, <1>3, <1>4, <1>5, <1>6 DEF TypeInv, SessionTypes, Goto
<1>8. Labels'
  <2> SUFFICES ASSUME NEW t \in Session
               PROVE  /\ pc'[t] # "idle" => req'[t] \in Request
                      /\ pc'[t] \in {"claim", "read"} =>
                           req'[t].op \in {"post", "reverse", "settle", "archive"}
                      /\ pc'[t] = "insert" => Writes(t)' /\ Touched(lines'[t]) # {}
                      /\ pc'[t] = "lock" => Transitions(t)'
                      /\ pc'[t] = "apply" => todo'[t] # <<>>
    BY DEF Labels
  <2>1. CASE t = s
    <3>1. pc'[s] = FirstStep(r) /\ req'[s] = r /\ lines'[s] = r.lines
      BY <1>1 DEF Goto, TypeInv, SessionTypes
    <3>2. todo'[s] = IF r.op = "close" THEN <<r.account>> ELSE <<>>
      BY <1>1 DEF TypeInv, SessionTypes
    <3>3. FirstStep(r) \in {"claim", "read"} =>
            r.op \in {"post", "reverse", "settle", "archive"}
      BY <1>3 DEF FirstStep
    <3>4. FirstStep(r) = "insert" => r.op = "sql"
      BY DEF FirstStep
    <3>5. FirstStep(r) = "apply" => r.op = "close"
      BY DEF FirstStep
    <3>6. FirstStep(r) # "lock"
      BY DEF FirstStep
    <3> QED BY <2>1, <3>1, <3>2, <3>3, <3>4, <3>5, <3>6, <1>3 DEF Writes
  <2>2. CASE t # s
    <3>1. /\ pc'[t] = pc[t] /\ req'[t] = req[t] /\ lines'[t] = lines[t]
          /\ todo'[t] = todo[t]
      BY <1>1, <2>2 DEF Goto, TypeInv, SessionTypes
    <3> QED BY <3>1 DEF TypeInv, Labels, Writes, Transitions
  <2> QED BY <2>1, <2>2
<1> QED BY <1>2, <1>7, <1>8 DEF TypeInv

LEMMA ReadTypes ==
  ASSUME TypeInv, NEW s \in Session,
         ReadForPost(s) \/ ReadForReverse(s) \/ ReadForTransition(s)
  PROVE  TypeInv'
<1> USE DEF TypeInv
<1>1. CommittedTypes' /\ EntriesTouch'
  BY DEF CommittedTypes, EntriesTouch, KeepCommitted, ReadForPost, ReadForReverse,
         ReadForTransition
<1>2. CASE ReadForPost(s)
  <2>1. Touched(lines[s]) # {}
    BY <1>2, BalancedTouches DEF ReadForPost, AccountsAllow, SessionTypes
  <2>2. SessionTypes'
    BY <1>2 DEF ReadForPost, SessionTypes, Goto, Pcs
  <2>3. Labels'
    BY <1>2, <2>1 DEF ReadForPost, SessionTypes, Labels, Goto, Writes, Transitions
  <2> QED BY <1>1, <2>2, <2>3
<1>3. CASE ReadForReverse(s)
  <2> DEFINE mirrored == Mirror(entry[req[s].target].lines)
  <2>1. req[s] \in Request /\ req[s].target \in Entry
    BY <1>3, RequestTarget DEF ReadForReverse, Labels
  <2>2. mirrored \in Lines
    BY <2>1, MirrorType DEF CommittedTypes, EntryRow
  <2>3. Touched(mirrored) # {}
    BY <1>3, <2>2, BalancedTouches DEF ReadForReverse, AccountsAllow
  <2>4. lines' = [lines EXCEPT ![s] = mirrored] /\ Goto(s, "insert") /\ req[s].op = "reverse"
    BY <1>3 DEF ReadForReverse
  <2> HIDE DEF mirrored
  <2>5. SessionTypes'
    BY <1>3, <2>2, <2>4 DEF ReadForReverse, SessionTypes, Goto, Pcs
  <2>6. lines'[s] = mirrored /\ \A t \in Session : t # s => lines'[t] = lines[t]
    BY <2>4 DEF SessionTypes
  <2>7. Labels'
    BY <1>3, <2>1, <2>3, <2>4, <2>6
    DEF ReadForReverse, SessionTypes, Labels, Goto, Writes, Transitions
  <2> QED BY <1>1, <2>5, <2>7
<1>4. CASE ReadForTransition(s)
  <2>1. SessionTypes'
    BY <1>4 DEF ReadForTransition, SessionTypes, Goto, Pcs
  <2>2. Labels'
    BY <1>4 DEF ReadForTransition, SessionTypes, Labels, Goto, Writes, Transitions
  <2> QED BY <1>1, <2>1, <2>2
<1> QED BY <1>2, <1>3, <1>4

LEMMA InsertTypes ==
  ASSUME TypeInv, NEW s \in Session, InsertEntry(s)
  PROVE  TypeInv'
<1>1. PICK order \in LockOrders(s, Touched(lines[s])) : todo' = [todo EXCEPT ![s] = order]
  BY DEF InsertEntry
<1>2. Touched(lines[s]) \in SUBSET Account /\ Touched(lines[s]) # {}
  BY DEF TypeInv, Labels, InsertEntry, Touched
<1>3. order \in Seq(Account) /\ order # <<>>
  BY <1>2, LockOrdersType
<1>4. /\ todo' \in [Session -> Seq(Account)] /\ todo'[s] # <<>>
      /\ \A t \in Session : t # s => todo'[t] = todo[t]
  BY <1>1, <1>3 DEF TypeInv, SessionTypes
<1> QED BY <1>4, GotoTypes DEF InsertEntry, TypeInv, SessionTypes, Pcs

LEMMA LockTypes ==
  ASSUME TypeInv, NEW s \in Session, LockEntry(s)
  PROVE  TypeInv'
<1> DEFINE target == req[s].target
<1>1. target \in Entry
  BY RequestTarget DEF TypeInv, Labels, LockEntry, Transitions
<1>2. entry[target].lines \in Lines /\ Touched(entry[target].lines) # {}
  BY <1>1 DEF TypeInv, CommittedTypes, EntriesTouch, EntryRow, LockEntry
<1>3. lines' = [lines EXCEPT ![s] = entry[target].lines]
  BY DEF LockEntry
<1>4. lines'[s] = entry[target].lines
  BY <1>3 DEF TypeInv, SessionTypes
<1>5. PICK order \in LockOrders(s, Touched(lines'[s])) : todo' = [todo EXCEPT ![s] = order]
  BY DEF LockEntry
<1>6. order \in Seq(Account) /\ order # <<>>
  <2>1. Touched(lines'[s]) \in SUBSET Account /\ Touched(lines'[s]) # {}
    BY <1>2, <1>4 DEF Touched
  <2> QED BY <2>1, <1>5, LockOrdersType
<1>7. /\ todo' \in [Session -> Seq(Account)] /\ todo'[s] # <<>>
      /\ \A t \in Session : t # s => todo'[t] = todo[t]
  BY <1>5, <1>6 DEF TypeInv, SessionTypes
<1>8. /\ lines' \in [Session -> Lines]
      /\ \A t \in Session : t # s => lines'[t] = lines[t]
  BY <1>2, <1>3 DEF TypeInv, SessionTypes
<1> QED BY <1>7, <1>8, GotoTypes DEF LockEntry, TypeInv, SessionTypes, Pcs

\* The image a session leaves of an account row is a row, passes the row's
\* CHECKs, and differs from the committed one in its version or only in
\* whether the account is open.
Moved(old, new) == \/ new.version > old.version
                   \/ [old EXCEPT !.open = new.open] = new

LEMMA NextRowType ==
  ASSUME TypeInv, NEW s \in Session, NEW a \in Account, pc[s] = "apply", ChecksHold(s, a)
  PROVE  /\ NextRow(s, a) \in Row
         /\ RowChecks(NextRow(s, a), Sign(a), a \in Overdraft)
         /\ Moved(acct[a], NextRow(s, a))
<1>1. /\ acct[a] \in Row /\ lines[s][a] \in Line /\ Sign(a) \in {-1, 1}
      /\ req[s].status \in {"pending", "posted"}
  BY SignType DEF TypeInv, CommittedTypes, SessionTypes, Lines, RequestType
<1>2. CASE Writes(s)
  <2>2. ~Transitions(s)
    BY <1>2 DEF Writes, Transitions
  <2>1. NextRow(s, a) = ApplyPosting(acct[a], Sign(a), lines[s][a], req[s].status)
    BY <1>2, <2>2 DEF NextRow
  <2>3. RowChecks(NextRow(s, a), Sign(a), a \in Overdraft)
    BY <2>2 DEF ChecksHold
  <2>4. /\ ApplyPosting(acct[a], Sign(a), lines[s][a], req[s].status) \in Row
        /\ ApplyPosting(acct[a], Sign(a), lines[s][a], req[s].status).version
             > acct[a].version
    BY <1>1, ApplyPostingType
  <2> QED BY <2>1, <2>3, <2>4 DEF Moved
<1>3. CASE Transitions(s)
  <2>1. ~Writes(s)
    BY <1>3 DEF Writes, Transitions
  <2>2. NextRow(s, a) = ApplyStatusChange(acct[a], Sign(a), lines[s][a], NewStatus(s))
    BY <1>3, <2>1 DEF NextRow
  <2>3. StatusChangeChecks(acct[a], Sign(a), lines[s][a], NewStatus(s), a \in Overdraft)
    BY <1>3 DEF ChecksHold
  <2>4. RowChecks(NextRow(s, a), Sign(a), a \in Overdraft)
    BY <2>2, <2>3 DEF StatusChangeChecks
  <2>5. (a \in Overdraft) \in BOOLEAN
    OBVIOUS
  <2>6. /\ ApplyStatusChange(acct[a], Sign(a), lines[s][a], NewStatus(s)) \in Row
        /\ ApplyStatusChange(acct[a], Sign(a), lines[s][a], NewStatus(s)).version
             > acct[a].version
    BY <1>1, <2>3, <2>5, ApplyStatusChangeType
  <2> QED BY <2>2, <2>4, <2>6 DEF Moved
<1>4. CASE ~Writes(s) /\ ~Transitions(s)
  <2>1. NextRow(s, a) = [acct[a] EXCEPT !.open = FALSE]
    BY <1>4 DEF NextRow
  <2> HIDE DEF NextRow
  <2>2. NextRow(s, a) \in Row /\ NextRow(s, a).open = FALSE
    BY <1>1, <2>1 DEF Row
  <2> QED BY <1>4, <2>1, <2>2 DEF ChecksHold, Moved
<1> QED BY <1>2, <1>3, <1>4

LEMMA ApplyTypes ==
  ASSUME TypeInv, NEW s \in Session, ApplyRow(s)
  PROVE  TypeInv'
<1> DEFINE a == Head(todo[s])
<1>1. todo[s] \in Seq(Account) /\ todo[s] # <<>>
  BY DEF TypeInv, SessionTypes, Labels, ApplyRow
<1>2. a \in Account /\ Tail(todo[s]) \in Seq(Account)
  BY <1>1
<1>3. NextRow(s, a) \in Row
  BY <1>2, NextRowType DEF ApplyRow
<1>4. rows' \in [Session -> [Account -> Row \cup {Unheld}]]
  <2>1. rows' = [rows EXCEPT ![s] = [rows[s] EXCEPT ![a] = NextRow(s, a)]]
    BY DEF ApplyRow, TypeInv, SessionTypes
  <2>2. [rows[s] EXCEPT ![a] = NextRow(s, a)] \in [Account -> Row \cup {Unheld}]
    BY <1>3 DEF TypeInv, SessionTypes
  <2> QED BY <2>1, <2>2 DEF TypeInv, SessionTypes
<1>5. /\ todo' \in [Session -> Seq(Account)] /\ todo'[s] = Tail(todo[s])
      /\ \A t \in Session : t # s => todo'[t] = todo[t]
  BY <1>2 DEF ApplyRow, TypeInv, SessionTypes
<1>6. CASE Tail(todo[s]) = <<>>
  BY <1>4, <1>5, <1>6, GotoTypes DEF ApplyRow, TypeInv, SessionTypes, Pcs
<1>7. CASE Tail(todo[s]) # <<>>
  BY <1>4, <1>5, <1>7, GotoTypes DEF ApplyRow, TypeInv, SessionTypes, Pcs
<1> QED BY <1>6, <1>7

\* A status change leaves the rest of the entry alone.
LEMMA StatusEdit ==
  ASSUME NEW row \in EntryRow, NEW st \in {"pending", "posted", "archived"}
  PROVE  /\ [row EXCEPT !.status = st] \in EntryRow
         /\ [row EXCEPT !.status = st].status = st
<1>1. [row EXCEPT !.status = st] =
        [status |-> st, lines |-> row.lines, reverses |-> row.reverses,
         owned |-> row.owned, key |-> row.key]
  BY DEF EntryRow
<1> QED BY <1>1 DEF EntryRow

LEMMA PublishTypes ==
  ASSUME TypeInv, NEW s \in Session, PublishRows(s)
  PROVE  acct' \in [Account -> Row]
BY DEF PublishRows, HoldsAccount, TypeInv, CommittedTypes, SessionTypes

LEMMA CommitTypes ==
  ASSUME TypeInv, NEW s \in Session,
         CommitWrite(s) \/ CommitTransition(s) \/ CommitClose(s)
  PROVE  TypeInv'
<1>1. SessionTypes' /\ Labels'
  BY FinishTypes DEF TypeInv, CommitWrite, CommitTransition, CommitClose
<1>2. acct' \in [Account -> Row]
  BY PublishTypes DEF CommitWrite, CommitTransition, CommitClose
<1>3. req[s] \in Request
  BY DEF TypeInv, Labels, CommitWrite, CommitTransition, CommitClose
<1>4. CASE CommitWrite(s)
  <2> DEFINE new == [status |-> req[s].status, lines |-> lines[s],
                     reverses |-> req[s].target, owned |-> req[s].owned,
                     key |-> req[s].key]
  <2>1. PICK e \in Entry : /\ entry' = [entry EXCEPT ![e] = new]
                           /\ claim' = [k \in Key |-> IF k = req[s].key THEN e ELSE claim[k]]
    BY <1>4 DEF CommitWrite
  <2>2. lines[s] \in Lines /\ Touched(lines[s]) # {}
    BY <1>4, BalancedTouches DEF CommitWrite, TypeInv, SessionTypes
  <2>3. new \in EntryRow
    BY <1>3, <2>2, RequestTypes DEF EntryRow
  <2>4. new.status # "absent" /\ Touched(new.lines) # {}
    BY <1>3, <2>2, RequestTypes
  <2> HIDE DEF new
  <2>5. CommittedTypes'
    BY <1>2, <2>1, <2>3 DEF TypeInv, CommittedTypes
  <2>6. EntriesTouch'
    BY <2>1, <2>3, <2>4 DEF TypeInv, CommittedTypes, EntriesTouch
  <2> QED BY <1>1, <2>5, <2>6 DEF TypeInv
<1>5. CASE CommitTransition(s)
  <2> DEFINE target == req[s].target
             new == [entry[target] EXCEPT !.status = NewStatus(s)]
  <2>1. target \in Entry
    BY <1>3, <1>5, RequestTarget DEF CommitTransition, Transitions
  <2>2. entry' = [entry EXCEPT ![target] = new] /\ UNCHANGED claim
    BY <1>5, <2>1 DEF CommitTransition, TypeInv, CommittedTypes
  <2>0. NewStatus(s) \in {"posted", "archived"} /\ entry[target] \in EntryRow
    BY <2>1 DEF NewStatus, TypeInv, CommittedTypes
  <2>3. new \in EntryRow /\ new.status \in {"posted", "archived"}
    <3>1. /\ [entry[target] EXCEPT !.status = NewStatus(s)] \in EntryRow
          /\ [entry[target] EXCEPT !.status = NewStatus(s)].status = NewStatus(s)
      BY <2>0, StatusEdit
    <3> QED BY <2>0, <3>1
  <2> HIDE DEF new, target
  <2>4. CommittedTypes'
    BY <1>2, <2>1, <2>2, <2>3 DEF TypeInv, CommittedTypes
  <2>5. EntriesTouch'
    BY <2>1, <2>2, <2>3 DEF TypeInv, CommittedTypes, EntriesTouch
  <2> QED BY <1>1, <2>4, <2>5 DEF TypeInv
<1>6. CASE CommitClose(s)
  <2>1. UNCHANGED <<entry, claim>>
    BY <1>6 DEF CommitClose
  <2>2. CommittedTypes' /\ EntriesTouch'
    BY <1>2, <2>1 DEF TypeInv, CommittedTypes, EntriesTouch
  <2> QED BY <1>1, <2>2 DEF TypeInv
<1> QED BY <1>4, <1>5, <1>6

LEMMA ClaimTypes ==
  ASSUME TypeInv, NEW s \in Session, ClaimKey(s)
  PROVE  TypeInv'
<1>1. req[s].op \in {"post", "reverse", "settle", "archive"}
  BY DEF TypeInv, Labels, ClaimKey
<1> QED BY <1>1, GotoTypes DEF ClaimKey, TypeInv, SessionTypes, Pcs

\* The steps that roll back.
Refused(s) ==
  \/ ReplayKey(s) \/ ReadRefused(s) \/ InsertRefused(s) \/ LockRefused(s)
  \/ ApplyRefused(s) \/ CommitRefused(s) \/ DeadlockVictim(s) \/ Crash(s)

LEMMA RefusedRollsBack == ASSUME NEW s, Refused(s) PROVE Rollback(s)
BY DEF Refused, ReplayKey, ReadRefused, InsertRefused, LockRefused, ApplyRefused,
       CommitRefused, DeadlockVictim, Crash

\* Every step is one of these, which is how each invariant below is proved.
LEMMA Steps ==
  ASSUME Next
  PROVE  \E s \in Session :
           \/ Begin(s) \/ ClaimKey(s) \/ Refused(s)
           \/ ReadForPost(s) \/ ReadForReverse(s) \/ ReadForTransition(s)
           \/ InsertEntry(s) \/ LockEntry(s) \/ ApplyRow(s)
           \/ CommitWrite(s) \/ CommitTransition(s) \/ CommitClose(s)
BY DEF Next, Work, Refused

LEMMA TypeStep == TypeInv /\ [Next]_vars => TypeInv'
<1> SUFFICES ASSUME TypeInv, [Next]_vars PROVE TypeInv'
  OBVIOUS
<1>1. CASE Next
  <2>1. PICK s \in Session :
          \/ Begin(s) \/ ClaimKey(s) \/ Refused(s)
          \/ ReadForPost(s) \/ ReadForReverse(s) \/ ReadForTransition(s)
          \/ InsertEntry(s) \/ LockEntry(s) \/ ApplyRow(s)
          \/ CommitWrite(s) \/ CommitTransition(s) \/ CommitClose(s)
    BY <1>1, Steps
  <2> QED BY <2>1, BeginTypes, ClaimTypes, RefusedRollsBack, RollbackTypes, ReadTypes,
             InsertTypes, LockTypes, ApplyTypes, CommitTypes
<1>2. CASE UNCHANGED vars
  BY <1>2 DEF vars, sessionVars, TypeInv, CommittedTypes, SessionTypes, EntriesTouch,
              Labels, Writes, Transitions
<1> QED BY <1>1, <1>2

THEOREM TypeInvariant == Spec => []TypeInv
BY TypeInit, TypeStep, PTL DEF Spec

\* Every variable of the journal has its type in every reachable state.
THEOREM TypeCorrect == Spec => []TypeOK
<1>1. TypeInv => TypeOK
  BY DEF TypeInv, CommittedTypes, SessionTypes, TypeOK
<1> QED BY <1>1, TypeInvariant, PTL

(***************************************************************************)
(* Account rows.  A row has one holder; the image it holds passes the      *)
(* CHECKs and has moved on from the committed row, which nobody else can   *)
(* change meanwhile.                                                       *)
(***************************************************************************)
RowSolvent(a, row) == RowChecks(row, Sign(a), a \in Overdraft)

RowInv ==
  /\ \A a \in Account : RowSolvent(a, acct[a])
  /\ \A s \in Session, a \in Account : HoldsAccount(s, a) =>
       RowSolvent(a, rows[s][a]) /\ Moved(acct[a], rows[s][a])
  /\ \A s, t \in Session, a \in Account :
       HoldsAccount(s, a) /\ HoldsAccount(t, a) => s = t

LEMMA RowInit == Init => RowInv
<1> SUFFICES ASSUME Init PROVE RowInv
  OBVIOUS
<1>1. \A a \in Account : RowSolvent(a, EmptyRow)
  <2> SUFFICES ASSUME NEW a \in Account PROVE RowSolvent(a, EmptyRow)
    OBVIOUS
  <2>1. Sign(a) * 0 - 0 = 0
    BY SignType
  <2> QED BY <2>1 DEF RowSolvent, RowChecks, Available, EmptyRow
<1> QED BY <1>1 DEF Init, RowInv, HoldsAccount, NoRows

LEMMA RowQuiet == RowInv /\ UNCHANGED <<acct, rows>> => RowInv'
BY DEF RowInv, HoldsAccount

\* A session ends: it holds no row, and what it held is published or not.
LEMMA RowFinish ==
  ASSUME TypeInv, RowInv, NEW s \in Session, Finish(s), UNCHANGED acct \/ PublishRows(s)
  PROVE  RowInv' /\ \A a \in Account : acct'[a] = acct[a] \/ Moved(acct[a], acct'[a])
<1>1. /\ \A a \in Account : ~HoldsAccount(s, a)'
      /\ \A t \in Session, a \in Account : t # s => rows'[t][a] = rows[t][a]
  <2>1. rows' = [rows EXCEPT ![s] = NoRows]
    BY DEF Finish
  <2>2. rows'[s] = NoRows /\ \A t \in Session : t # s => rows'[t] = rows[t]
    BY <2>1 DEF TypeInv, SessionTypes
  <2> QED BY <2>2 DEF HoldsAccount, NoRows
<1>2. \A a \in Account : \/ acct'[a] = acct[a]
                         \/ HoldsAccount(s, a) /\ acct'[a] = rows[s][a]
  <2>1. CASE UNCHANGED acct
    BY <2>1
  <2>2. CASE PublishRows(s)
    BY <2>2 DEF PublishRows
  <2> QED BY <2>1, <2>2
<1>3. \A a \in Account : RowSolvent(a, acct'[a])
  BY <1>2 DEF RowInv
<1>4. ASSUME NEW t \in Session, NEW a \in Account, HoldsAccount(t, a)'
      PROVE  RowSolvent(a, rows'[t][a]) /\ Moved(acct'[a], rows'[t][a])
  <2>1. t # s /\ rows'[t][a] = rows[t][a] /\ HoldsAccount(t, a)
    BY <1>1, <1>4 DEF HoldsAccount
  <2>2. ~HoldsAccount(s, a)
    BY <2>1 DEF RowInv
  <2> QED BY <1>2, <2>1, <2>2 DEF RowInv
<1>5. \A t, u \in Session, a \in Account : HoldsAccount(t, a)' /\ HoldsAccount(u, a)' => t = u
  BY <1>1 DEF RowInv, HoldsAccount
<1>6. RowInv'
  BY <1>3, <1>4, <1>5 DEF RowInv, RowSolvent
<1>7. \A a \in Account : acct'[a] = acct[a] \/ Moved(acct[a], acct'[a])
  BY <1>2 DEF RowInv
<1> QED BY <1>6, <1>7

LEMMA RowApply ==
  ASSUME TypeInv, RowInv, NEW s \in Session, ApplyRow(s)
  PROVE  RowInv'
<1> DEFINE a == Head(todo[s])
<1>1. a \in Account
  BY DEF TypeInv, SessionTypes, Labels, ApplyRow
<1>2. RowSolvent(a, NextRow(s, a)) /\ Moved(acct[a], NextRow(s, a))
  BY <1>1, NextRowType DEF ApplyRow, RowSolvent
<1>3. /\ rows'[s][a] = NextRow(s, a)
      /\ \A t \in Session, b \in Account : t # s \/ b # a => rows'[t][b] = rows[t][b]
      /\ UNCHANGED acct
  BY <1>1 DEF ApplyRow, KeepCommitted, TypeInv, SessionTypes
<1>4. \A t \in Session : t # s => ~HoldsAccount(t, a)
  BY DEF ApplyRow, Proceeds, WaitsFor
<1> HIDE DEF a
<1>5. \A t, u \in Session, b \in Account : HoldsAccount(t, b)' /\ HoldsAccount(u, b)' => t = u
  BY <1>1, <1>3, <1>4 DEF RowInv, HoldsAccount
<1>6. ASSUME NEW t \in Session, NEW b \in Account, HoldsAccount(t, b)'
      PROVE  RowSolvent(b, rows'[t][b]) /\ Moved(acct'[b], rows'[t][b])
  <2>1. CASE t = s /\ b = a
    BY <2>1, <1>2, <1>3
  <2>2. CASE t # s \/ b # a
    BY <2>2, <1>3, <1>6 DEF RowInv, HoldsAccount
  <2> QED BY <2>1, <2>2
<1> QED BY <1>3, <1>5, <1>6 DEF RowInv, RowSolvent

\* Every step keeps the row invariant, and moves an account only by a version
\* or by closing it.
LEMMA RowStep ==
  ASSUME TypeInv, RowInv, [Next]_vars
  PROVE  RowInv' /\ \A a \in Account : acct'[a] = acct[a] \/ Moved(acct[a], acct'[a])
<1>1. CASE Next
  <2>1. PICK s \in Session :
          \/ Begin(s) \/ ClaimKey(s) \/ Refused(s)
          \/ ReadForPost(s) \/ ReadForReverse(s) \/ ReadForTransition(s)
          \/ InsertEntry(s) \/ LockEntry(s) \/ ApplyRow(s)
          \/ CommitWrite(s) \/ CommitTransition(s) \/ CommitClose(s)
    BY <1>1, Steps
  <2>2. CASE \/ Begin(s) \/ ClaimKey(s) \/ ReadForPost(s) \/ ReadForReverse(s)
             \/ ReadForTransition(s) \/ InsertEntry(s) \/ LockEntry(s)
    <3>1. UNCHANGED <<acct, rows>>
      BY <2>2 DEF Begin, ClaimKey, ReadForPost, ReadForReverse, ReadForTransition,
                  InsertEntry, LockEntry, KeepCommitted
    <3> QED BY <3>1, RowQuiet
  <2>3. CASE Refused(s)
    BY <2>3, RefusedRollsBack, RowFinish DEF Rollback
  <2>4. CASE ApplyRow(s)
    BY <2>4, RowApply DEF ApplyRow, KeepCommitted
  <2>5. CASE CommitWrite(s) \/ CommitTransition(s) \/ CommitClose(s)
    BY <2>5, RowFinish DEF CommitWrite, CommitTransition, CommitClose
  <2> QED BY <2>1, <2>2, <2>3, <2>4, <2>5
<1>2. CASE UNCHANGED vars
  BY <1>2, RowQuiet DEF vars, sessionVars
<1> QED BY <1>1, <1>2

THEOREM RowInvariant == Spec => []RowInv
<1>1. TypeInv /\ RowInv /\ [Next]_vars => RowInv'
  BY RowStep
<1> QED BY RowInit, <1>1, TypeInvariant, PTL DEF Spec

\* No account that was not opened to overdraw is ever settled below what is
\* reserved on it, whatever the sessions interleave: the CHECK is judged on
\* the row as its one holder will commit it.
THEOREM NothingSpentTwice == Spec => []NeverOverdrawn
<1>1. TypeInv /\ RowInv => NeverOverdrawn
  <2> SUFFICES ASSUME TypeInv, RowInv, NEW a \in Account \ Overdraft
               PROVE  Sign(a) * acct[a].balance >= acct[a].outflow
    BY DEF NeverOverdrawn
  <2>1. Sign(a) * acct[a].balance - acct[a].outflow >= 0
    BY DEF RowInv, RowSolvent, RowChecks, Available
  <2>2. acct[a].balance \in Int /\ acct[a].outflow \in Nat
    BY RowFields DEF TypeInv, CommittedTypes
  <2>3. Sign(a) * acct[a].balance \in Int
    BY <2>2, SignType
  <2> QED BY <2>1, <2>2, <2>3
<1> QED BY <1>1, TypeInvariant, RowInvariant, PTL

\* An account whose version did not advance has not moved (only its status
\* may have changed), which is what lets a version stand for the balances.
THEOREM VersionsTell == Spec => VersionAdvances
<1>1. TypeInv /\ RowInv /\ [Next]_vars =>
        [\A a \in Account :
           \/ acct'[a].version > acct[a].version
           \/ [acct[a] EXCEPT !.open = acct'[a].open] = acct'[a]]_acct
  <2> SUFFICES ASSUME TypeInv, RowInv, [Next]_vars, NEW a \in Account
               PROVE  \/ acct'[a].version > acct[a].version
                      \/ [acct[a] EXCEPT !.open = acct'[a].open] = acct'[a]
    OBVIOUS
  <2>1. CASE acct'[a] = acct[a]
    <3>1. [acct[a] EXCEPT !.open = acct[a].open] = acct[a]
      BY DEF TypeInv, CommittedTypes, Row
    <3> QED BY <2>1, <3>1
  <2>2. CASE Moved(acct[a], acct'[a])
    BY <2>2 DEF Moved
  <2> QED BY <2>1, <2>2, RowStep
<1> QED BY <1>1, TypeInvariant, RowInvariant, PTL DEF Spec, VersionAdvances

(***************************************************************************)
(* Idempotency keys.  A key past its claim has one holder until the holder *)
(* ends, and while it is held no entry answers for it.                     *)
(***************************************************************************)
KeyInv ==
  /\ OneEntryPerKey
  /\ \A s \in Session, k \in Key : HoldsKey(s, k) => claim[k] = NoEntry
  /\ \A s, t \in Session, k \in Key : HoldsKey(s, k) /\ HoldsKey(t, k) => s = t

LEMMA KeyInit == Init => KeyInv
BY DEF Init, LedgerInit, KeyInv, OneEntryPerKey, AbsentRow, HoldsKey

\* A session that holds no key it did not hold before disturbs nothing.
LEMMA KeyQuiet ==
  ASSUME KeyInv, UNCHANGED <<entry, claim>>,
         \A s \in Session, k \in Key : HoldsKey(s, k)' => HoldsKey(s, k)
  PROVE  KeyInv'
BY DEF KeyInv, OneEntryPerKey

\* The end of session s: it holds nothing, and nobody else's pc or request moved.
LEMMA FinishedHoldsNothing ==
  ASSUME TypeInv, NEW s \in Session, Finish(s)
  PROVE  /\ pc'[s] = "idle"
         /\ \A t \in Session : t # s => /\ pc'[t] = pc[t] /\ req'[t] = req[t]
                                        /\ lines'[t] = lines[t]
BY DEF TypeInv, SessionTypes, Finish

LEMMA KeyClaim ==
  ASSUME TypeInv, KeyInv, NEW s \in Session, ClaimKey(s)
  PROVE  KeyInv'
<1>1. /\ pc'[s] = "read" /\ \A t \in Session : t # s => pc'[t] = pc[t]
      /\ UNCHANGED <<req, entry, claim>>
  BY DEF ClaimKey, Goto, KeepCommitted, TypeInv, SessionTypes
<1>2. \A t \in Session : t # s => ~HoldsKey(t, req[s].key)
  BY DEF ClaimKey, Proceeds, WaitsFor
<1>3. \A t \in Session, k \in Key :
        HoldsKey(t, k)' => HoldsKey(t, k) \/ (t = s /\ k = req[s].key)
  BY <1>1 DEF HoldsKey
<1>4. \A t \in Session, k \in Key : HoldsKey(t, k)' => claim'[k] = NoEntry
  BY <1>1, <1>3 DEF KeyInv, ClaimKey
<1>5. \A t, u \in Session, k \in Key : HoldsKey(t, k)' /\ HoldsKey(u, k)' => t = u
  BY <1>2, <1>3 DEF KeyInv
<1> QED BY <1>1, <1>4, <1>5 DEF KeyInv, OneEntryPerKey

LEMMA KeyCommit ==
  ASSUME TypeInv, KeyInv, NEW s \in Session, CommitWrite(s)
  PROVE  KeyInv'
<1>1. PICK e \in Entry :
        /\ entry[e].status = "absent"
        /\ entry' = [entry EXCEPT ![e] =
             [status |-> req[s].status, lines |-> lines[s], reverses |-> req[s].target,
              owned |-> req[s].owned, key |-> req[s].key]]
        /\ claim' = [k \in Key |-> IF k = req[s].key THEN e ELSE claim[k]]
  BY DEF CommitWrite
<1>2. /\ entry'[e].key = req[s].key
      /\ \A f \in Entry : f # e => entry'[f] = entry[f]
  BY <1>1 DEF TypeInv, CommittedTypes
<1>3. pc[s] = "commit" /\ req[s].key \in Key \cup {NoKey}
  BY DEF CommitWrite, TypeInv, SessionTypes, RequestType
<1>4. ASSUME NEW f \in Entry, entry'[f].key # NoKey
      PROVE  claim'[entry'[f].key] = f
  <2>1. CASE f = e
    BY <2>1, <1>1, <1>2, <1>3, <1>4
  <2>2. CASE f # e
    <3>1. entry'[f] = entry[f] /\ entry[f].key \in Key /\ claim[entry[f].key] = f
      BY <2>2, <1>2, <1>4 DEF KeyInv, OneEntryPerKey, TypeInv, CommittedTypes, EntryRow
    <3>2. f # NoEntry
      BY NullAssumption
    <3>3. entry[f].key # req[s].key
      BY <3>1, <3>2, <1>3 DEF KeyInv, HoldsKey
    <3> QED BY <3>1, <3>3, <1>1
  <2> QED BY <2>1, <2>2
<1>5. \A t \in Session, k \in Key : HoldsKey(t, k)' => t # s /\ HoldsKey(t, k)
  BY FinishedHoldsNothing DEF HoldsKey, CommitWrite
<1>6. ASSUME NEW t \in Session, NEW k \in Key, HoldsKey(t, k)'
      PROVE  claim'[k] = NoEntry
  <2>1. t # s /\ HoldsKey(t, k)
    BY <1>5, <1>6
  <2>2. k # req[s].key
    BY <2>1, <1>3 DEF KeyInv, HoldsKey
  <2> QED BY <2>1, <2>2, <1>1 DEF KeyInv
<1>7. \A t, u \in Session, k \in Key : HoldsKey(t, k)' /\ HoldsKey(u, k)' => t = u
  BY <1>5 DEF KeyInv
<1> QED BY <1>4, <1>6, <1>7 DEF KeyInv, OneEntryPerKey

LEMMA KeyTransition ==
  ASSUME TypeInv, KeyInv, NEW s \in Session, CommitTransition(s)
  PROVE  KeyInv'
<1>1. \A e \in Entry : entry'[e].key = entry[e].key
  BY DEF CommitTransition, TypeInv, CommittedTypes, EntryRow
<1>2. \A t \in Session, k \in Key : HoldsKey(t, k)' => HoldsKey(t, k)
  BY FinishedHoldsNothing DEF HoldsKey, CommitTransition
<1> QED BY <1>1, <1>2 DEF KeyInv, OneEntryPerKey, CommitTransition

LEMMA KeyStep ==
  ASSUME TypeInv, KeyInv, [Next]_vars
  PROVE  KeyInv'
<1>1. CASE Next
  <2>1. PICK s \in Session :
          \/ Begin(s) \/ ClaimKey(s) \/ Refused(s)
          \/ ReadForPost(s) \/ ReadForReverse(s) \/ ReadForTransition(s)
          \/ InsertEntry(s) \/ LockEntry(s) \/ ApplyRow(s)
          \/ CommitWrite(s) \/ CommitTransition(s) \/ CommitClose(s)
    BY <1>1, Steps
  <2>2. CASE Begin(s)
    <3>1. PICK r \in Request : Goto(s, FirstStep(r)) /\ req' = [req EXCEPT ![s] = r]
      BY <2>2 DEF Begin
    <3>2. /\ pc'[s] = FirstStep(r) /\ req'[s] = r
          /\ \A t \in Session : t # s => pc'[t] = pc[t] /\ req'[t] = req[t]
      BY <3>1 DEF Goto, TypeInv, SessionTypes
    <3>3. r.key # NoKey => FirstStep(r) = "claim"
      BY RequestAssumption DEF FirstStep
    <3>4. \A t \in Session, k \in Key : HoldsKey(t, k)' => HoldsKey(t, k)
      BY <3>2, <3>3, NullAssumption DEF HoldsKey
    <3> QED BY <2>2, <3>4, KeyQuiet DEF Begin, KeepCommitted
  <2>3. CASE ClaimKey(s)
    BY <2>3, KeyClaim
  <2>4. CASE Refused(s) \/ CommitClose(s)
    <3>1. Finish(s) /\ UNCHANGED <<entry, claim>>
      BY <2>4, RefusedRollsBack DEF Rollback, CommitClose
    <3>2. \A t \in Session, k \in Key : HoldsKey(t, k)' => HoldsKey(t, k)
      BY <3>1, FinishedHoldsNothing DEF HoldsKey
    <3> QED BY <3>1, <3>2, KeyQuiet
  <2>5. CASE \/ ReadForPost(s) \/ ReadForReverse(s) \/ ReadForTransition(s)
             \/ InsertEntry(s) \/ LockEntry(s) \/ ApplyRow(s)
    <3>1. /\ UNCHANGED <<entry, claim, req>>
          /\ pc[s] \notin {"idle", "claim"} /\ \A t \in Session : t # s => pc'[t] = pc[t]
      BY <2>5 DEF ReadForPost, ReadForReverse, ReadForTransition, InsertEntry, LockEntry,
                  ApplyRow, Goto, KeepCommitted, TypeInv, SessionTypes
    <3>2. \A t \in Session, k \in Key : HoldsKey(t, k)' => HoldsKey(t, k)
      BY <3>1 DEF HoldsKey
    <3> QED BY <3>1, <3>2, KeyQuiet
  <2>6. CASE CommitWrite(s)
    BY <2>6, KeyCommit
  <2>7. CASE CommitTransition(s)
    BY <2>7, KeyTransition
  <2> QED BY <2>1, <2>2, <2>3, <2>4, <2>5, <2>6, <2>7
<1>2. CASE UNCHANGED vars
  BY <1>2, KeyQuiet DEF vars, sessionVars, HoldsKey
<1> QED BY <1>1, <1>2

THEOREM KeyInvariant == Spec => []KeyInv
<1>1. TypeInv /\ KeyInv /\ [Next]_vars => KeyInv'
  BY KeyStep
<1> QED BY KeyInit, <1>1, TypeInvariant, PTL DEF Spec

\* A key names at most one entry, however many sessions retry it and whatever
\* crashes between the claim and the COMMIT.
THEOREM RetriesAreOneRequest == Spec => []OneEntryPerKey
<1>1. KeyInv => OneEntryPerKey
  BY DEF KeyInv
<1> QED BY <1>1, KeyInvariant, PTL

(***************************************************************************)
(* The append-only history.  A session that has updated a pending entry    *)
(* holds its row: the entry is still pending, and no rival holds it.       *)
(***************************************************************************)
EntryInv ==
  /\ \A s \in Session, e \in Entry : HoldsEntry(s, e) => entry[e].status = "pending"
  /\ \A s, t \in Session, e \in Entry : HoldsEntry(s, e) /\ HoldsEntry(t, e) => s = t

LEMMA EntryInit == Init => EntryInv
BY DEF Init, EntryInv, HoldsEntry, Wrote

\* How a step changes the book: not at all, by writing an absent entry, or by
\* moving the pending entry its session holds.
Written(s, e) == /\ entry[e].status = "absent"
                 /\ entry' = [entry EXCEPT ![e] =
                      [status |-> req[s].status, lines |-> lines[s],
                       reverses |-> req[s].target, owned |-> req[s].owned,
                       key |-> req[s].key]]

LEMMA EntryQuiet ==
  ASSUME EntryInv, UNCHANGED entry,
         \A s \in Session, e \in Entry : HoldsEntry(s, e)' => HoldsEntry(s, e)
  PROVE  EntryInv'
BY DEF EntryInv

LEMMA EntryLock ==
  ASSUME TypeInv, EntryInv, NEW s \in Session, LockEntry(s)
  PROVE  EntryInv'
<1>1. /\ pc'[s] = "apply" /\ \A t \in Session : t # s => pc'[t] = pc[t]
      /\ UNCHANGED <<req, entry>>
  BY DEF LockEntry, Goto, KeepCommitted, TypeInv, SessionTypes
<1>2. entry[req[s].target].status = "pending"
  BY DEF LockEntry
<1>3. \A t \in Session : t # s => ~HoldsEntry(t, req[s].target)
  BY DEF LockEntry, Proceeds, WaitsFor
<1>4. \A t \in Session, e \in Entry :
        HoldsEntry(t, e)' => HoldsEntry(t, e) \/ (t = s /\ e = req[s].target)
  BY <1>1 DEF HoldsEntry, Wrote, Transitions
<1> QED BY <1>1, <1>2, <1>3, <1>4 DEF EntryInv

\* A commit of session s moves an entry nobody else holds.
LEMMA EntryCommit ==
  ASSUME TypeInv, EntryInv, NEW s \in Session, CommitWrite(s) \/ CommitTransition(s)
  PROVE  EntryInv'
<1>1. \A t \in Session, e \in Entry : HoldsEntry(t, e)' => t # s /\ HoldsEntry(t, e)
  BY FinishedHoldsNothing DEF HoldsEntry, Wrote, Transitions, CommitWrite, CommitTransition
<1>2. ASSUME NEW t \in Session, NEW e \in Entry, HoldsEntry(t, e)'
      PROVE  entry'[e].status = "pending"
  <2>1. t # s /\ HoldsEntry(t, e) /\ entry[e].status = "pending"
    BY <1>1, <1>2 DEF EntryInv
  <2>2. CASE CommitWrite(s)
    <3>1. PICK f \in Entry : Written(s, f)
      BY <2>2 DEF CommitWrite, Written
    <3>2. f # e
      BY <2>1, <3>1 DEF Written
    <3> QED BY <2>1, <3>1, <3>2 DEF Written, TypeInv, CommittedTypes
  <2>3. CASE CommitTransition(s)
    <3>1. HoldsEntry(s, req[s].target)
      BY <2>3 DEF CommitTransition, HoldsEntry, Wrote
    <3>2. req[s].target # e
      BY <2>1, <3>1 DEF EntryInv
    <3> QED BY <2>1, <2>3, <3>2 DEF CommitTransition, TypeInv, CommittedTypes
  <2> QED BY <2>2, <2>3
<1>3. \A t, u \in Session, e \in Entry : HoldsEntry(t, e)' /\ HoldsEntry(u, e)' => t = u
  BY <1>1 DEF EntryInv
<1> QED BY <1>2, <1>3 DEF EntryInv

LEMMA EntryStep ==
  ASSUME TypeInv, EntryInv, [Next]_vars
  PROVE  EntryInv'
<1>1. CASE Next
  <2>1. PICK s \in Session :
          \/ Begin(s) \/ ClaimKey(s) \/ Refused(s)
          \/ ReadForPost(s) \/ ReadForReverse(s) \/ ReadForTransition(s)
          \/ InsertEntry(s) \/ LockEntry(s) \/ ApplyRow(s)
          \/ CommitWrite(s) \/ CommitTransition(s) \/ CommitClose(s)
    BY <1>1, Steps
  <2>2. CASE Begin(s)
    <3>1. PICK r \in Request : Goto(s, FirstStep(r)) /\ req' = [req EXCEPT ![s] = r]
      BY <2>2 DEF Begin
    <3>2. /\ pc'[s] = FirstStep(r) /\ req'[s] = r
          /\ \A t \in Session : t # s => pc'[t] = pc[t] /\ req'[t] = req[t]
      BY <3>1 DEF Goto, TypeInv, SessionTypes
    <3>3. FirstStep(r) = "apply" => r.op = "close"
      BY DEF FirstStep
    <3>4. FirstStep(r) # "commit"
      BY DEF FirstStep
    <3>5. \A t \in Session, e \in Entry : HoldsEntry(t, e)' => HoldsEntry(t, e)
      BY <3>2, <3>3, <3>4 DEF HoldsEntry, Wrote, Transitions
    <3> QED BY <2>2, <3>5, EntryQuiet DEF Begin, KeepCommitted
  <2>3. CASE LockEntry(s)
    BY <2>3, EntryLock
  <2>4. CASE Refused(s) \/ CommitClose(s)
    <3>1. Finish(s) /\ UNCHANGED entry
      BY <2>4, RefusedRollsBack DEF Rollback, CommitClose
    <3>2. \A t \in Session, e \in Entry : HoldsEntry(t, e)' => HoldsEntry(t, e)
      BY <3>1, FinishedHoldsNothing DEF HoldsEntry, Wrote, Transitions
    <3> QED BY <3>1, <3>2, EntryQuiet
  <2>5. CASE ApplyRow(s)
    <3>1. /\ UNCHANGED <<entry, req>> /\ pc[s] = "apply"
          /\ \A t \in Session : t # s => pc'[t] = pc[t]
      BY <2>5 DEF ApplyRow, Goto, KeepCommitted, TypeInv, SessionTypes
    <3>2. \A t \in Session, e \in Entry : HoldsEntry(t, e)' => HoldsEntry(t, e)
      BY <3>1 DEF HoldsEntry, Wrote, Transitions
    <3> QED BY <3>1, <3>2, EntryQuiet
  <2>6. CASE \/ ClaimKey(s) \/ ReadForPost(s) \/ ReadForReverse(s) \/ ReadForTransition(s)
             \/ InsertEntry(s)
    <3>1. /\ UNCHANGED <<entry, req>>
          /\ \A t \in Session : t # s => pc'[t] = pc[t]
          /\ pc'[s] \notin {"apply", "commit"} \/ ~Transitions(s)
      BY <2>6 DEF ClaimKey, ReadForPost, ReadForReverse, ReadForTransition, InsertEntry, Goto,
                  KeepCommitted, TypeInv, SessionTypes, Labels, Writes, Transitions
    <3>2. \A t \in Session, e \in Entry : HoldsEntry(t, e)' => HoldsEntry(t, e)
      BY <3>1 DEF HoldsEntry, Wrote, Transitions
    <3> QED BY <3>1, <3>2, EntryQuiet
  <2>7. CASE CommitWrite(s) \/ CommitTransition(s)
    BY <2>7, EntryCommit
  <2> QED BY <2>1, <2>2, <2>3, <2>4, <2>5, <2>6, <2>7
<1>2. CASE UNCHANGED vars
  BY <1>2, EntryQuiet DEF vars, sessionVars, HoldsEntry, Wrote, Transitions
<1> QED BY <1>1, <1>2

THEOREM EntryInvariant == Spec => []EntryInv
<1>1. TypeInv /\ EntryInv /\ [Next]_vars => EntryInv'
  BY EntryStep
<1> QED BY EntryInit, <1>1, TypeInvariant, PTL DEF Spec

\* What a step may do to one entry: leave it, settle or archive it while it is
\* pending, or write it where there was none.
Grows(old, new) ==
  /\ old.status \in {"posted", "archived"} => new = old
  /\ old.status = "pending" =>
       \E st \in {"pending", "posted", "archived"} : new = [old EXCEPT !.status = st]

LEMMA BookGrows ==
  ASSUME TypeInv, EntryInv, [Next]_vars, NEW e \in Entry
  PROVE  Grows(entry[e], entry'[e])
<1>1. CASE entry'[e] = entry[e]
  <2>1. entry[e] = [entry[e] EXCEPT !.status = entry[e].status]
    BY DEF TypeInv, CommittedTypes, EntryRow
  <2> QED BY <1>1, <2>1 DEF Grows
<1>2. CASE \E s \in Session : CommitWrite(s)
  <2>1. PICK s \in Session, f \in Entry : Written(s, f)
    BY <1>2 DEF CommitWrite, Written
  <2>2. CASE f = e
    BY <2>1, <2>2 DEF Written, Grows
  <2>3. CASE f # e
    BY <2>1, <2>3, <1>1 DEF Written, TypeInv, CommittedTypes
  <2> QED BY <2>2, <2>3
<1>3. CASE \E s \in Session : CommitTransition(s)
  <2>1. PICK s \in Session : CommitTransition(s)
    BY <1>3
  <2>2. HoldsEntry(s, req[s].target) /\ req[s].target \in Entry
    BY <2>1, RequestTarget
    DEF CommitTransition, HoldsEntry, Wrote, Transitions, TypeInv, Labels
  <2>3. entry[req[s].target].status = "pending"
    BY <2>2 DEF EntryInv
  <2>4. NewStatus(s) \in {"posted", "archived"}
    BY DEF NewStatus
  <2>5. entry' = [entry EXCEPT ![req[s].target] = [@ EXCEPT !.status = NewStatus(s)]]
    BY <2>1, <2>2 DEF CommitTransition, TypeInv, CommittedTypes
  <2>6. CASE e = req[s].target
    BY <2>2, <2>3, <2>4, <2>5, <2>6 DEF Grows, TypeInv, CommittedTypes
  <2>7. CASE e # req[s].target
    BY <2>5, <2>7, <1>1 DEF TypeInv, CommittedTypes
  <2> QED BY <2>6, <2>7
<1>4. \/ UNCHANGED entry \/ \E s \in Session : CommitWrite(s) \/ CommitTransition(s)
  <2>1. CASE Next
    <3>1. PICK s \in Session :
            \/ Begin(s) \/ ClaimKey(s) \/ Refused(s)
            \/ ReadForPost(s) \/ ReadForReverse(s) \/ ReadForTransition(s)
            \/ InsertEntry(s) \/ LockEntry(s) \/ ApplyRow(s)
            \/ CommitWrite(s) \/ CommitTransition(s) \/ CommitClose(s)
      BY <2>1, Steps
    <3>2. Refused(s) => UNCHANGED entry
      BY RefusedRollsBack DEF Rollback
    <3> QED BY <3>1, <3>2
            DEF Begin, ClaimKey, ReadForPost, ReadForReverse, ReadForTransition,
                InsertEntry, LockEntry, ApplyRow, CommitClose, KeepCommitted
  <2>2. CASE UNCHANGED vars
    BY <2>2 DEF vars
  <2> QED BY <2>1, <2>2
<1> QED BY <1>1, <1>2, <1>3, <1>4

\* Settled history is never rewritten: not by a second settlement racing the
\* first, not by a cancellation, not by a reversal.
THEOREM HistoryStands == Spec => HistoryImmutable
<1>1. TypeInv /\ EntryInv /\ [Next]_vars =>
        [\A e \in Entry :
           /\ entry[e].status \in {"posted", "archived"} => entry'[e] = entry[e]
           /\ entry[e].status = "pending" =>
                \E st \in {"pending", "posted", "archived"} :
                   entry'[e] = [entry[e] EXCEPT !.status = st]]_entry
  BY BookGrows DEF Grows
<1> QED BY <1>1, TypeInvariant, EntryInvariant, PTL DEF Spec, HistoryImmutable

(***************************************************************************)
(* Reversals.  A session writing one carries the mirror of a settled entry *)
(* and, once past the unique index, is the only one undoing that entry.    *)
(***************************************************************************)
Reversing(s) == pc[s] \in {"insert", "apply", "commit"} /\ req[s].op = "reverse"

ReversalInv ==
  /\ ReversalsCancel
  /\ \A s \in Session : Reversing(s) =>
       LET original == entry[req[s].target] IN
         original.status = "posted" /\ ~original.owned /\ lines[s] = Mirror(original.lines)
  /\ \A s \in Session, e \in Entry : HoldsReversal(s, e) => Reversals(entry, e) = {}
  /\ \A s, t \in Session, e \in Entry : HoldsReversal(s, e) /\ HoldsReversal(t, e) => s = t

LEMMA ReversalInit == Init => ReversalInv
BY DEF Init, LedgerInit, ReversalInv, ReversalsCancel, AbsentRow, Reversing,
       HoldsReversal, Wrote

\* A reversal of session s names a posted entry of the book.
LEMMA ReversingTarget ==
  ASSUME TypeInv, NEW s \in Session, Reversing(s)
  PROVE  req[s].target \in Entry
BY RequestTarget DEF TypeInv, Labels, Reversing

LEMMA ReversalQuiet ==
  ASSUME ReversalInv, UNCHANGED entry,
         \A s \in Session : Reversing(s)' =>
           /\ Reversing(s) /\ req'[s] = req[s] /\ lines'[s] = lines[s],
         \A s \in Session, e \in Entry : HoldsReversal(s, e)' => HoldsReversal(s, e)
  PROVE  ReversalInv'
BY DEF ReversalInv, ReversalsCancel, Reversals

LEMMA ReversalRead ==
  ASSUME TypeInv, ReversalInv, NEW s \in Session, ReadForReverse(s)
  PROVE  ReversalInv'
<1>1. /\ pc'[s] = "insert" /\ lines'[s] = Mirror(entry[req[s].target].lines)
      /\ \A t \in Session : t # s => pc'[t] = pc[t] /\ lines'[t] = lines[t]
      /\ UNCHANGED <<req, entry>>
  BY DEF ReadForReverse, Goto, KeepCommitted, TypeInv, SessionTypes
<1>2. entry[req[s].target].status = "posted" /\ ~entry[req[s].target].owned
  BY DEF ReadForReverse, Reversible
<1>3. \A t \in Session, e \in Entry : HoldsReversal(t, e)' => HoldsReversal(t, e)
  BY <1>1 DEF HoldsReversal, Wrote
<1> QED BY <1>1, <1>2, <1>3 DEF ReversalInv, ReversalsCancel, Reversals, Reversing

LEMMA ReversalInsert ==
  ASSUME TypeInv, ReversalInv, NEW s \in Session, InsertEntry(s)
  PROVE  ReversalInv'
<1>1. /\ pc[s] = "insert" /\ pc'[s] = "apply"
      /\ \A t \in Session : t # s => pc'[t] = pc[t]
      /\ UNCHANGED <<req, lines, entry>>
  BY DEF InsertEntry, Goto, KeepCommitted, TypeInv, SessionTypes
<1>2. req[s].op = "reverse" =>
        /\ Reversals(entry, req[s].target) = {}
        /\ \A t \in Session : t # s => ~HoldsReversal(t, req[s].target)
  BY <1>1 DEF InsertEntry, InsertAllowed, Proceeds, WaitsFor
<1>3. \A t \in Session, e \in Entry :
        HoldsReversal(t, e)' =>
          \/ HoldsReversal(t, e)
          \/ t = s /\ req[s].op = "reverse" /\ e = req[s].target
  BY <1>1 DEF HoldsReversal, Wrote
<1>4. \A t \in Session : Reversing(t)' => Reversing(t)
  BY <1>1 DEF Reversing
<1> QED BY <1>1, <1>2, <1>3, <1>4 DEF ReversalInv, ReversalsCancel, Reversals

\* A written entry leaves every reversal recorded before it as it was.
LEMMA ReversalWrite ==
  ASSUME TypeInv, ReversalInv, NEW s \in Session, CommitWrite(s)
  PROVE  ReversalInv'
<1> DEFINE x == req[s].target
<1>1. PICK e \in Entry : Written(s, e)
  BY DEF CommitWrite, Written
<1>2. /\ entry'[e].reverses = x /\ entry'[e].lines = lines[s]
      /\ \A f \in Entry : f # e => entry'[f] = entry[f]
      /\ entry[e].status = "absent" /\ entry[e].reverses = NoEntry
  BY <1>1 DEF Written, TypeInv, CommittedTypes, EntriesTouch, AbsentRow
<1>3. x # NoEntry => Reversing(s) /\ HoldsReversal(s, x) /\ x \in Entry
  BY RequestAssumption, RequestTypes
  DEF CommitWrite, Writes, Reversing, HoldsReversal, Wrote, TypeInv, Labels
<1> HIDE DEF x
<1>4. x # NoEntry => /\ Reversals(entry, x) = {} /\ x # e
                     /\ entry[x].status = "posted" /\ ~entry[x].owned
                     /\ lines[s] = Mirror(entry[x].lines)
  BY <1>2, <1>3 DEF ReversalInv, x
<1>5. \A y \in Entry : Reversals(entry', y) = Reversals(entry, y) \cup (IF y = x THEN {e} ELSE {})
  BY <1>2, NullAssumption DEF Reversals
<1>6. ASSUME NEW f \in Entry, entry'[f].reverses # NoEntry
      PROVE  LET original == entry'[entry'[f].reverses] IN
               /\ original.status = "posted" /\ ~original.owned
               /\ \A a \in Account :
                    /\ entry'[f].lines[a].amount + original.lines[a].amount = 0
                    /\ entry'[f].lines[a].base + original.lines[a].base = 0
               /\ Reversals(entry', entry'[f].reverses) = {f}
  <2>1. CASE f = e
    <3>1. /\ entry'[f].reverses = x /\ entry'[x] = entry[x] /\ x \in Entry
          /\ Reversals(entry', x) = {f}
      BY <2>1, <1>2, <1>3, <1>4, <1>5, <1>6
    <3>2. \A a \in Account : /\ entry[x].lines[a].amount \in Int
                             /\ entry[x].lines[a].base \in Int
      BY <3>1 DEF TypeInv, CommittedTypes, EntryRow, Lines, Line
    <3>3. \A a \in Account : /\ lines[s][a].amount = -entry[x].lines[a].amount
                             /\ lines[s][a].base = -entry[x].lines[a].base
      BY <1>4, <2>1, <1>2, <1>6 DEF Mirror
    <3> QED BY <2>1, <1>2, <1>4, <1>6, <3>1, <3>2, <3>3
  <2>2. CASE f # e
    <3> DEFINE y == entry[f].reverses
    <3>1. entry'[f] = entry[f] /\ y # NoEntry /\ y \in Entry
      BY <2>2, <1>2, <1>6 DEF TypeInv, CommittedTypes, EntryRow
    <3>2. /\ entry[y].status = "posted" /\ ~entry[y].owned
          /\ \A a \in Account :
               /\ entry[f].lines[a].amount + entry[y].lines[a].amount = 0
               /\ entry[f].lines[a].base + entry[y].lines[a].base = 0
          /\ Reversals(entry, y) = {f}
      BY <3>1 DEF ReversalInv, ReversalsCancel
    <3>3. y # e /\ y # x
      BY <3>1, <3>2, <1>2, <1>4
    <3>4. entry'[y] = entry[y] /\ Reversals(entry', y) = {f}
      BY <3>1, <3>2, <3>3, <1>2, <1>5
    <3> QED BY <3>1, <3>2, <3>4
  <2> QED BY <2>1, <2>2
<1>7. ReversalsCancel'
  BY <1>6 DEF ReversalsCancel
<1>8. /\ \A t \in Session : Reversing(t)' =>
           t # s /\ Reversing(t) /\ req'[t] = req[t] /\ lines'[t] = lines[t]
      /\ \A t \in Session, f \in Entry : HoldsReversal(t, f)' => t # s /\ HoldsReversal(t, f)
  BY FinishedHoldsNothing DEF CommitWrite, Reversing, HoldsReversal, Wrote
<1>9. ASSUME NEW t \in Session, Reversing(t)'
      PROVE  LET original == entry'[req'[t].target] IN
               /\ original.status = "posted" /\ ~original.owned
               /\ lines'[t] = Mirror(original.lines)
  <2>1. Reversing(t) /\ req'[t] = req[t] /\ lines'[t] = lines[t] /\ req[t].target \in Entry
    BY <1>8, <1>9, ReversingTarget
  <2>2. entry[req[t].target].status = "posted" /\ entry'[req[t].target] = entry[req[t].target]
    BY <2>1, <1>2 DEF ReversalInv
  <2> QED BY <2>1, <2>2 DEF ReversalInv
<1>10. ASSUME NEW t \in Session, NEW f \in Entry, HoldsReversal(t, f)'
       PROVE  Reversals(entry', f) = {}
  <2>1. t # s /\ HoldsReversal(t, f) /\ Reversals(entry, f) = {}
    BY <1>8, <1>10 DEF ReversalInv
  <2>2. f # x
    BY <2>1, <1>3, NullAssumption DEF ReversalInv
  <2> QED BY <2>1, <2>2, <1>5
<1>11. \A t, u \in Session, f \in Entry : HoldsReversal(t, f)' /\ HoldsReversal(u, f)' => t = u
  BY <1>8 DEF ReversalInv
<1> QED BY <1>7, <1>9, <1>10, <1>11 DEF ReversalInv

\* Settling or cancelling an entry touches no reversal and nothing reversed.
LEMMA ReversalTransition ==
  ASSUME TypeInv, EntryInv, ReversalInv, NEW s \in Session, CommitTransition(s)
  PROVE  ReversalInv'
<1>1. HoldsEntry(s, req[s].target) /\ req[s].target \in Entry
  BY RequestTarget DEF CommitTransition, HoldsEntry, Wrote, Transitions, TypeInv, Labels
<1>2. entry[req[s].target].status = "pending"
  BY <1>1 DEF EntryInv
<1>3. /\ \A e \in Entry : /\ entry'[e].reverses = entry[e].reverses
                          /\ entry'[e].lines = entry[e].lines
                          /\ entry'[e].owned = entry[e].owned
      /\ \A e \in Entry : entry[e].status = "posted" => entry'[e].status = "posted"
  BY <1>1, <1>2 DEF CommitTransition, TypeInv, CommittedTypes, EntryRow
<1>4. \A e \in Entry : Reversals(entry', e) = Reversals(entry, e)
  BY <1>3 DEF Reversals
<1>5. ReversalsCancel'
  <2> SUFFICES ASSUME NEW e \in Entry, entry'[e].reverses # NoEntry
               PROVE  LET original == entry'[entry'[e].reverses] IN
                        /\ original.status = "posted" /\ ~original.owned
                        /\ \A a \in Account :
                             /\ entry'[e].lines[a].amount + original.lines[a].amount = 0
                             /\ entry'[e].lines[a].base + original.lines[a].base = 0
                        /\ Reversals(entry', entry'[e].reverses) = {e}
    BY DEF ReversalsCancel
  <2>1. entry[e].reverses # NoEntry /\ entry[e].reverses \in Entry
    BY <1>3 DEF TypeInv, CommittedTypes, EntryRow
  <2>2. LET original == entry[entry[e].reverses] IN
          /\ original.status = "posted" /\ ~original.owned
          /\ \A a \in Account :
               /\ entry[e].lines[a].amount + original.lines[a].amount = 0
               /\ entry[e].lines[a].base + original.lines[a].base = 0
          /\ Reversals(entry, entry[e].reverses) = {e}
    BY <2>1 DEF ReversalInv, ReversalsCancel
  <2> QED BY <2>1, <2>2, <1>3, <1>4
<1>6. /\ \A t \in Session : Reversing(t)' =>
           Reversing(t) /\ req'[t] = req[t] /\ lines'[t] = lines[t]
      /\ \A t \in Session, e \in Entry : HoldsReversal(t, e)' => HoldsReversal(t, e)
  BY FinishedHoldsNothing DEF CommitTransition, Reversing, HoldsReversal, Wrote
<1>7. ASSUME NEW t \in Session, Reversing(t)'
      PROVE  LET original == entry'[req'[t].target] IN
               /\ original.status = "posted" /\ ~original.owned
               /\ lines'[t] = Mirror(original.lines)
  BY <1>3, <1>6, <1>7, ReversingTarget DEF ReversalInv
<1> QED BY <1>4, <1>5, <1>6, <1>7 DEF ReversalInv

LEMMA ReversalStep ==
  ASSUME TypeInv, EntryInv, ReversalInv, [Next]_vars
  PROVE  ReversalInv'
<1>1. CASE Next
  <2>1. PICK s \in Session :
          \/ Begin(s) \/ ClaimKey(s) \/ Refused(s)
          \/ ReadForPost(s) \/ ReadForReverse(s) \/ ReadForTransition(s)
          \/ InsertEntry(s) \/ LockEntry(s) \/ ApplyRow(s)
          \/ CommitWrite(s) \/ CommitTransition(s) \/ CommitClose(s)
    BY <1>1, Steps
  <2>2. CASE Begin(s)
    <3>1. PICK r \in Request : /\ Goto(s, FirstStep(r)) /\ req' = [req EXCEPT ![s] = r]
                               /\ lines' = [lines EXCEPT ![s] = r.lines]
      BY <2>2 DEF Begin
    <3>2. /\ pc'[s] = FirstStep(r) /\ req'[s] = r
          /\ \A t \in Session : t # s => /\ pc'[t] = pc[t] /\ req'[t] = req[t]
                                         /\ lines'[t] = lines[t]
      BY <3>1 DEF Goto, TypeInv, SessionTypes
    <3>3. FirstStep(r) \in {"insert", "apply", "commit"} => r.op # "reverse"
      BY DEF FirstStep
    <3>4. \A t \in Session : Reversing(t)' =>
            Reversing(t) /\ req'[t] = req[t] /\ lines'[t] = lines[t]
      BY <3>2, <3>3 DEF Reversing
    <3>5. \A t \in Session, e \in Entry : HoldsReversal(t, e)' => HoldsReversal(t, e)
      BY <3>2, <3>3 DEF HoldsReversal, Wrote
    <3> QED BY <2>2, <3>4, <3>5, ReversalQuiet DEF Begin, KeepCommitted
  <2>3. CASE ReadForReverse(s)
    BY <2>3, ReversalRead
  <2>4. CASE InsertEntry(s)
    BY <2>4, ReversalInsert
  <2>5. CASE Refused(s) \/ CommitClose(s)
    <3>1. Finish(s) /\ UNCHANGED entry
      BY <2>5, RefusedRollsBack DEF Rollback, CommitClose
    <3>2. /\ \A t \in Session : Reversing(t)' =>
               Reversing(t) /\ req'[t] = req[t] /\ lines'[t] = lines[t]
          /\ \A t \in Session, e \in Entry : HoldsReversal(t, e)' => HoldsReversal(t, e)
      BY <3>1, FinishedHoldsNothing DEF Reversing, HoldsReversal, Wrote
    <3> QED BY <3>1, <3>2, ReversalQuiet
  <2>6. CASE ApplyRow(s)
    <3>1. /\ UNCHANGED <<entry, req, lines>> /\ pc[s] = "apply"
          /\ \A t \in Session : t # s => pc'[t] = pc[t]
      BY <2>6 DEF ApplyRow, Goto, KeepCommitted, TypeInv, SessionTypes
    <3>2. /\ \A t \in Session : Reversing(t)' => Reversing(t)
          /\ \A t \in Session, e \in Entry : HoldsReversal(t, e)' => HoldsReversal(t, e)
      BY <3>1 DEF Reversing, HoldsReversal, Wrote
    <3> QED BY <3>1, <3>2, ReversalQuiet
  <2>7. CASE ClaimKey(s) \/ ReadForPost(s) \/ ReadForTransition(s) \/ LockEntry(s)
    <3>1. /\ UNCHANGED <<entry, req>>
          /\ \A t \in Session : t # s => pc'[t] = pc[t] /\ lines'[t] = lines[t]
          /\ pc'[s] = "read" \/ pc'[s] = "lock" \/ req[s].op # "reverse"
      BY <2>7 DEF ClaimKey, ReadForPost, ReadForTransition, LockEntry, Goto, KeepCommitted,
                  TypeInv, SessionTypes, Labels, Transitions
    <3>2. /\ \A t \in Session : Reversing(t)' => Reversing(t) /\ lines'[t] = lines[t]
          /\ \A t \in Session, e \in Entry : HoldsReversal(t, e)' => HoldsReversal(t, e)
      BY <3>1 DEF Reversing, HoldsReversal, Wrote
    <3> QED BY <3>1, <3>2, ReversalQuiet
  <2>8. CASE CommitWrite(s)
    BY <2>8, ReversalWrite
  <2>9. CASE CommitTransition(s)
    BY <2>9, ReversalTransition
  <2> QED BY <2>1, <2>2, <2>3, <2>4, <2>5, <2>6, <2>7, <2>8, <2>9
<1>2. CASE UNCHANGED vars
  BY <1>2, ReversalQuiet DEF vars, sessionVars, Reversing, HoldsReversal, Wrote
<1> QED BY <1>1, <1>2

THEOREM ReversalInvariant == Spec => []ReversalInv
<1>1. TypeInv /\ EntryInv /\ ReversalInv /\ [Next]_vars => ReversalInv'
  BY ReversalStep
<1> QED BY ReversalInit, <1>1, TypeInvariant, EntryInvariant, PTL DEF Spec

\* Whoever wins the race to undo an entry, it is undone once, exactly, and only
\* if it was settled and not the stock records' own.
THEOREM ReversalsAreExact == Spec => []ReversalsCancel
<1>1. ReversalInv => ReversalsCancel
  BY DEF ReversalInv
<1> QED BY <1>1, ReversalInvariant, PTL

(***************************************************************************)
(* Deadlock.  Whoever writes an entry holds only rows below the ones it    *)
(* still wants, because writeEntry sorts its postings; so along a circle   *)
(* of waits the row wanted would fall for ever.                            *)
(***************************************************************************)
WritesEntry(s) == req[s].op \in {"post", "reverse"}

OrderInv == \A s \in Session :
  /\ ~Wrote(s) => \A a \in Account : ~HoldsAccount(s, a)
  /\ WritesEntry(s) /\ pc[s] = "apply" =>
       /\ Ascending(todo[s])
       /\ \A a \in Account : HoldsAccount(s, a) => \A i \in DOMAIN todo[s] : a < todo[s][i]

LEMMA OrderInit == Init => OrderInv
BY DEF Init, OrderInv, HoldsAccount, NoRows, WritesEntry

\* A session that is not at its account rows takes its next step.
LEMMA OrderQuiet ==
  ASSUME TypeInv, OrderInv, NEW s \in Session, rows'[s] = rows[s], ~Wrote(s),
         WritesEntry(s)' /\ pc'[s] = "apply" => Ascending(todo'[s]),
         \A t \in Session : t # s =>
           pc'[t] = pc[t] /\ req'[t] = req[t] /\ todo'[t] = todo[t] /\ rows'[t] = rows[t]
  PROVE  OrderInv'
BY DEF OrderInv, HoldsAccount, WritesEntry, Wrote

LEMMA OrderFinish ==
  ASSUME TypeInv, OrderInv, NEW s \in Session, Finish(s)
  PROVE  OrderInv'
<1>1. /\ pc'[s] = "idle" /\ rows'[s] = NoRows
      /\ \A t \in Session : t # s =>
           pc'[t] = pc[t] /\ req'[t] = req[t] /\ todo'[t] = todo[t] /\ rows'[t] = rows[t]
  BY DEF Finish, TypeInv, SessionTypes
<1>2. \A a \in Account : ~HoldsAccount(s, a)'
  BY <1>1 DEF HoldsAccount, NoRows
<1> QED BY <1>1, <1>2 DEF OrderInv, HoldsAccount, WritesEntry, Wrote

LEMMA OrderApply ==
  ASSUME TypeInv, OrderInv, NEW s \in Session, ApplyRow(s)
  PROVE  OrderInv'
<1> DEFINE q == todo[s]
<1>1. /\ q \in Seq(Account) /\ q # <<>> /\ Head(q) \in Account /\ Account \subseteq Nat
      /\ todo'[s] = Tail(q)
      /\ req'[s] = req[s] /\ pc[s] = "apply" /\ pc'[s] \in {"apply", "commit"}
      /\ \A b \in Account : b # Head(q) => rows'[s][b] = rows[s][b]
      /\ \A t \in Session : t # s =>
           pc'[t] = pc[t] /\ req'[t] = req[t] /\ todo'[t] = todo[t] /\ rows'[t] = rows[t]
  BY AccountAssumption DEF ApplyRow, Goto, TypeInv, SessionTypes, Labels
<1> HIDE DEF q
<1>2. ASSUME WritesEntry(s)', pc'[s] = "apply"
      PROVE  /\ Ascending(todo'[s])
             /\ \A b \in Account : HoldsAccount(s, b)' =>
                  \A i \in DOMAIN todo'[s] : b < todo'[s][i]
  <2>1. /\ Ascending(q)
        /\ \A b \in Account : HoldsAccount(s, b) => \A i \in DOMAIN q : b < q[i]
    BY <1>1, <1>2 DEF OrderInv, WritesEntry, q
  <2>2. /\ \A i \in DOMAIN Tail(q) : i + 1 \in DOMAIN q /\ Tail(q)[i] = q[i + 1]
        /\ DOMAIN Tail(q) \subseteq Nat /\ 1 \in DOMAIN q /\ Head(q) = q[1]
    BY <1>1
  <2>3. Ascending(Tail(q))
    BY <2>1, <2>2 DEF Ascending
  <2>4. \A i \in DOMAIN Tail(q) : Head(q) < Tail(q)[i]
    <3> SUFFICES ASSUME NEW i \in DOMAIN Tail(q) PROVE Head(q) < Tail(q)[i]
      OBVIOUS
    <3>1. i \in Nat /\ i # 0
      BY <1>1
    <3>2. 1 < i + 1
      BY <3>1
    <3> QED BY <2>1, <2>2, <3>2 DEF Ascending
  <2>5. \A b \in Account : HoldsAccount(s, b)' => b = Head(q) \/ HoldsAccount(s, b)
    BY <1>1 DEF HoldsAccount
  <2> QED BY <1>1, <2>1, <2>2, <2>3, <2>4, <2>5
<1>3. Wrote(s)'
  BY <1>1 DEF Wrote
<1>4. ASSUME NEW t \in Session, t # s
      PROVE  /\ ~Wrote(t)' => \A a \in Account : ~HoldsAccount(t, a)'
             /\ WritesEntry(t)' /\ pc'[t] = "apply" =>
                  /\ Ascending(todo'[t])
                  /\ \A a \in Account : HoldsAccount(t, a)' => \A i \in DOMAIN todo'[t] : a < todo'[t][i]
  <2>1. /\ pc'[t] = pc[t] /\ req'[t] = req[t] /\ todo'[t] = todo[t] /\ rows'[t] = rows[t]
        /\ Wrote(t)' = Wrote(t) /\ WritesEntry(t)' = WritesEntry(t)
        /\ \A a \in Account : HoldsAccount(t, a)' = HoldsAccount(t, a)
    BY <1>1, <1>4 DEF HoldsAccount, WritesEntry, Wrote
  <2>2. /\ ~Wrote(t) => \A a \in Account : ~HoldsAccount(t, a)
        /\ WritesEntry(t) /\ pc[t] = "apply" =>
             /\ Ascending(todo[t])
             /\ \A a \in Account : HoldsAccount(t, a) => \A i \in DOMAIN todo[t] : a < todo[t][i]
    BY DEF OrderInv
  <2> QED BY <2>1, <2>2
<1>5. ASSUME NEW t \in Session
      PROVE  /\ ~Wrote(t)' => \A a \in Account : ~HoldsAccount(t, a)'
             /\ WritesEntry(t)' /\ pc'[t] = "apply" =>
                  /\ Ascending(todo'[t])
                  /\ \A a \in Account : HoldsAccount(t, a)' => \A i \in DOMAIN todo'[t] : a < todo'[t][i]
  <2>1. CASE t = s
    BY <1>2, <1>3, <2>1
  <2>2. CASE t # s
    BY <1>4, <2>2
  <2> QED BY <2>1, <2>2
<1> QED BY <1>5 DEF OrderInv

LEMMA OrderStep ==
  ASSUME TypeInv, OrderInv, [Next]_vars
  PROVE  OrderInv'
<1>1. CASE Next
  <2>1. PICK s \in Session :
          \/ Begin(s) \/ ClaimKey(s) \/ Refused(s)
          \/ ReadForPost(s) \/ ReadForReverse(s) \/ ReadForTransition(s)
          \/ InsertEntry(s) \/ LockEntry(s) \/ ApplyRow(s)
          \/ CommitWrite(s) \/ CommitTransition(s) \/ CommitClose(s)
    BY <1>1, Steps
  <2>2. CASE Begin(s)
    <3>1. PICK r \in Request : /\ Goto(s, FirstStep(r))
                               /\ req' = [req EXCEPT ![s] = r]
                               /\ todo' = [todo EXCEPT ![s] =
                                    IF r.op = "close" THEN <<r.account>> ELSE <<>>]
                               /\ UNCHANGED rows
      BY <2>2 DEF Begin
    <3>2. FirstStep(r) = "apply" => r.op \notin {"post", "reverse"}
      BY RequestTypes DEF FirstStep, RequestType
    <3>3. /\ pc'[s] = FirstStep(r) /\ req'[s] = r /\ pc[s] = "idle"
          /\ \A t \in Session : t # s =>
               pc'[t] = pc[t] /\ req'[t] = req[t] /\ todo'[t] = todo[t]
      BY <2>2, <3>1 DEF Begin, Goto, TypeInv, SessionTypes
    <3> QED BY <3>1, <3>2, <3>3, OrderQuiet DEF WritesEntry, Wrote
  <2>3. CASE ClaimKey(s) \/ ReadForPost(s) \/ ReadForReverse(s) \/ ReadForTransition(s)
    <3>1. /\ UNCHANGED <<req, todo, rows>> /\ ~Wrote(s) /\ pc'[s] # "apply"
          /\ \A t \in Session : t # s => pc'[t] = pc[t]
      BY <2>3 DEF ClaimKey, ReadForPost, ReadForReverse, ReadForTransition, Goto, Wrote,
                  TypeInv, SessionTypes
    <3> QED BY <3>1, OrderQuiet
  <2>4. CASE InsertEntry(s)
    <3>1. PICK order \in LockOrders(s, Touched(lines[s])) : todo' = [todo EXCEPT ![s] = order]
      BY <2>4 DEF InsertEntry
    <3>2. /\ UNCHANGED <<req, rows>> /\ ~Wrote(s) /\ todo'[s] = order
          /\ \A t \in Session : t # s => pc'[t] = pc[t] /\ todo'[t] = todo[t]
      BY <2>4, <3>1 DEF InsertEntry, Goto, Wrote, TypeInv, SessionTypes
    <3>3. WritesEntry(s) => Ascending(order)
      BY DEF LockOrders, WritesEntry
    <3> QED BY <3>2, <3>3, OrderQuiet DEF WritesEntry
  <2>5. CASE LockEntry(s)
    <3>1. PICK order \in LockOrders(s, Touched(lines'[s])) : todo' = [todo EXCEPT ![s] = order]
      BY <2>5 DEF LockEntry
    <3>2. /\ UNCHANGED <<req, rows>> /\ ~Wrote(s) /\ ~WritesEntry(s)
          /\ \A t \in Session : t # s => pc'[t] = pc[t] /\ todo'[t] = todo[t]
      BY <2>5, <3>1 DEF LockEntry, Goto, Wrote, TypeInv, SessionTypes, Labels, Transitions,
                        WritesEntry
    <3> QED BY <3>2, OrderQuiet DEF WritesEntry
  <2>6. CASE ApplyRow(s)
    BY <2>6, OrderApply
  <2>7. CASE Refused(s) \/ CommitWrite(s) \/ CommitTransition(s) \/ CommitClose(s)
    BY <2>7, RefusedRollsBack, OrderFinish
       DEF Rollback, CommitWrite, CommitTransition, CommitClose
  <2> QED BY <2>1, <2>2, <2>3, <2>4, <2>5, <2>6, <2>7
<1>2. CASE UNCHANGED vars
  BY <1>2 DEF vars, sessionVars, OrderInv, HoldsAccount, WritesEntry, Wrote
<1> QED BY <1>1, <1>2

\* In a circle of sessions that write entries, each waits for an account row:
\* one that waits for a key holds nothing, and one that waits for the index
\* entry of a rival reversal holds only its key.
LEMMA CirclesWaitForRows ==
  ASSUME TypeInv, OrderInv, NEW group \in SUBSET {s \in Session : WritesEntry(s)}, Cycle(group)
  PROVE  \A s \in group :
           /\ pc[s] = "apply"
           /\ \E t \in group : pc[t] = "apply" /\ HoldsAccount(s, Head(todo[t]))
<1>1. \A s \in group : pc[s] # "claim"
  <2> SUFFICES ASSUME NEW s \in group PROVE pc[s] # "claim"
    OBVIOUS
  <2>1. PICK t \in group : WaitsFor(t, s)
    BY DEF Cycle
  <2>2. CASE HoldsAccount(s, Head(todo[t])) /\ pc[t] = "apply"
    <3>1. Head(todo[t]) \in Account
      BY <2>2 DEF TypeInv, SessionTypes, Labels
    <3> QED BY <2>2, <3>1 DEF OrderInv, Wrote
  <2> QED BY <2>1, <2>2 DEF WaitsFor, HoldsKey, HoldsReversal, HoldsEntry, Wrote
<1>2. \A s \in group : Wrote(s)
  <2> SUFFICES ASSUME NEW s \in group PROVE Wrote(s)
    OBVIOUS
  <2>1. PICK t \in group : WaitsFor(t, s)
    BY DEF Cycle
  <2>2. CASE HoldsAccount(s, Head(todo[t])) /\ pc[t] = "apply"
    <3>1. Head(todo[t]) \in Account
      BY <2>2 DEF TypeInv, SessionTypes, Labels
    <3> QED BY <2>2, <3>1 DEF OrderInv
  <2> QED BY <1>1, <2>1, <2>2 DEF WaitsFor, HoldsReversal, HoldsEntry
<1>3. \A s, t \in group : WaitsFor(s, t) => pc[s] = "apply" /\ HoldsAccount(t, Head(todo[s]))
  BY <1>2 DEF WaitsFor, Wrote
<1> QED BY <1>3 DEF Cycle

THEOREM OrderInvariant == Spec => []OrderInv
<1>1. TypeInv /\ OrderInv /\ [Next]_vars => OrderInv'
  BY OrderStep
<1> QED BY OrderInit, <1>1, TypeInvariant, PTL DEF Spec

\* Writers of entries never deadlock on one another, however many there are
\* and whatever accounts they touch, with keys and reversals taken as well,
\* and with settlements, closes and hand-written SQL going on beside them
\* (writeEntry sorts its postings by account id).
THEOREM WritersNeverDeadlock == Spec => []NoDeadlock
<1>1. ASSUME TypeInv, OrderInv PROVE NoDeadlock
  <2> SUFFICES ASSUME NEW group \in SUBSET {s \in Session : WritesEntry(s)}, Cycle(group)
               PROVE  FALSE
    BY DEF NoDeadlock, WritesEntry
  <2> DEFINE wanted == {Head(todo[s]) : s \in group}
  <2>1. \A s \in group :
          /\ todo[s] \in Seq(Account) /\ todo[s] # <<>>
          /\ Head(todo[s]) \in Account /\ Head(todo[s]) = todo[s][1] /\ 1 \in DOMAIN todo[s]
    <3> SUFFICES ASSUME NEW s \in group
                 PROVE  /\ todo[s] \in Seq(Account) /\ todo[s] # <<>>
                        /\ Head(todo[s]) \in Account /\ Head(todo[s]) = todo[s][1]
                        /\ 1 \in DOMAIN todo[s]
      OBVIOUS
    <3>1. pc[s] = "apply"
      BY <1>1, CirclesWaitForRows
    <3>2. todo[s] \in Seq(Account) /\ todo[s] # <<>>
      BY <1>1, <3>1 DEF TypeInv, SessionTypes, Labels
    <3> QED BY <3>2
  <2>2. wanted \in SUBSET Nat /\ wanted # {}
    BY <2>1, AccountAssumption DEF Cycle
  <2>3. PICK m \in wanted : \A n \in wanted : m <= n
    BY <2>2, LeastNatural
  <2>4. PICK s \in group : m = Head(todo[s])
    BY <2>3
  <2>5. PICK t \in group : HoldsAccount(s, Head(todo[t]))
    BY <1>1, CirclesWaitForRows
  <2>6. Head(todo[t]) < m
    BY <1>1, <2>1, <2>4, <2>5, CirclesWaitForRows DEF OrderInv
  <2>7. m <= Head(todo[t])
    BY <2>3
  <2>8. m \in Nat /\ Head(todo[t]) \in Nat
    BY <2>2, <2>3, <2>1, AccountAssumption
  <2> HIDE DEF wanted
  <2> QED BY <2>6, <2>7, <2>8
<1> QED BY <1>1, TypeInvariant, OrderInvariant, PTL

(***************************************************************************)
(* The balance columns.  A session that has written holds, of each row, the *)
(* image its own lines make of the committed row; every account its lines  *)
(* touch is held or still to be taken; and the lines of a transition are   *)
(* those of the pending entry it holds.  So a commit moves each column by  *)
(* what it moves the sum by.                                               *)
(***************************************************************************)
Columns == {"balance", "base", "inflow", "outflow"}

\* The entries a column sums, and what one posting puts in it.
Counted(k) == IF k \in {"balance", "base"} THEN "posted" ELSE "pending"

Share(k, a, line) ==
  CASE k = "balance" -> line.amount
    [] k = "base"    -> line.base
    [] k = "inflow"  -> Positive(Sign(a) * line.amount)
    [] OTHER         -> Positive(-(Sign(a) * line.amount))

Shares(book, k, a) == [e \in Entry |-> Share(k, a, book[e].lines[a])]
Figure(book, k, a) == SumFunctionOnSet(Shares(book, k, a), InStatus(book, Counted(k)))

FiniteBook == IsFiniteSet(InStatus(entry, "posted")) /\ IsFiniteSet(InStatus(entry, "pending"))
ColumnsAreSums == \A a \in Account, k \in Columns : acct[a][k] = Figure(entry, k, a)

Touching(s) == Wrote(s) /\ (Writes(s) \/ Transitions(s))

ImageOf(s) ==
  /\ \A a \in Account : HoldsAccount(s, a) => rows[s][a] = NextRow(s, a)
  /\ Touching(s) => \A a \in Touched(lines[s]) :
       HoldsAccount(s, a) \/ \E i \in DOMAIN todo[s] : todo[s][i] = a
  /\ pc[s] = "commit" => todo[s] = <<>>
  /\ \A e \in Entry : HoldsEntry(s, e) => lines[s] = entry[e].lines

ImageInv == \A s \in Session : ImageOf(s)

SumInv == FiniteBook /\ ColumnsAreSums

LEMMA FiguresOfBook ==
  \A a \in Account :
    /\ Figure(entry, "balance", a) = PostedBalance(entry, a)
    /\ Figure(entry, "base", a) = PostedWorth(entry, a)
    /\ Figure(entry, "inflow", a) = PendingInflow(entry, a)
    /\ Figure(entry, "outflow", a) = PendingOutflow(entry, a)
BY DEF Figure, Shares, Share, Counted, PostedBalance, PostedWorth, PendingInflow, PendingOutflow

LEMMA ShareType ==
  ASSUME NEW k \in Columns, NEW a, NEW line \in Line
  PROVE  /\ Share(k, a, line) \in Int
         /\ k \in {"inflow", "outflow"} => Share(k, a, line) \in Nat
BY SignType, PositiveType, PresentedType DEF Columns, Share

LEMMA NothingShared == \A k \in Columns, a \in Account : Share(k, a, NoLine) = 0
<1> TAKE k \in Columns, a \in Account
<1>1. Sign(a) * 0 = 0
  BY SignType
<1>2. Positive(0) = 0 /\ Positive(-0) = 0
  BY DEF Positive
<1> QED BY <1>1, <1>2 DEF Share, NoLine

LEMMA SharesType ==
  ASSUME TypeInv, NEW k \in Columns, NEW a \in Account, NEW e \in Entry
  PROVE  /\ Shares(entry, k, a)[e] = Share(k, a, entry[e].lines[a])
         /\ Shares(entry, k, a)[e] \in Int
         /\ k \in {"inflow", "outflow"} => Shares(entry, k, a)[e] \in Nat
<1>1. entry[e].lines[a] \in Line
  BY DEF TypeInv, CommittedTypes, EntryRow, Lines
<1> QED BY <1>1, ShareType DEF Shares

\* What the triggers add to a row, column by column.
LEMMA PostingAdds ==
  ASSUME NEW row \in Row, NEW a \in Account, NEW line \in Line,
         NEW status \in {"pending", "posted"}, NEW k \in Columns
  PROVE  ApplyPosting(row, Sign(a), line, status)[k] =
           row[k] + (IF Counted(k) = status THEN Share(k, a, line) ELSE 0)
<1> DEFINE in  == Positive(Sign(a) * line.amount)
           out == Positive(-(Sign(a) * line.amount))
<1>1. in \in Nat /\ out \in Nat
  BY SignType, PresentedType, PositiveType
<1>2. CASE status = "posted"
  <2>1. ApplyPosting(row, Sign(a), line, status) =
          [balance |-> row.balance + line.amount, base |-> row.base + line.base,
           inflow |-> row.inflow, outflow |-> row.outflow,
           version |-> row.version + 1, open |-> row.open]
    BY <1>2 DEF ApplyPosting, Row
  <2> QED BY <1>2, <2>1, RowFields DEF Columns, Counted, Share
<1>3. CASE status = "pending"
  <2>1. ApplyPosting(row, Sign(a), line, status) =
          [balance |-> row.balance, base |-> row.base,
           inflow |-> row.inflow + in, outflow |-> row.outflow + out,
           version |-> row.version + 1, open |-> row.open]
    BY <1>3 DEF ApplyPosting, Row
  <2>2. /\ k = "inflow" => Share(k, a, line) = in
        /\ k = "outflow" => Share(k, a, line) = out
    BY DEF Share
  <2> HIDE DEF in, out
  <2> QED BY <1>1, <1>3, <2>1, <2>2, RowFields DEF Columns, Counted
<1> QED BY <1>2, <1>3

LEMMA TransitionAdds ==
  ASSUME NEW row \in Row, NEW a \in Account, NEW line \in Line,
         NEW to \in {"archived", "posted"}, NEW k \in Columns
  PROVE  ApplyStatusChange(row, Sign(a), line, to)[k] =
           row[k] + (CASE Counted(k) = "pending" -> -Share(k, a, line)
                       [] Counted(k) = to -> Share(k, a, line)
                       [] OTHER -> 0)
<1> DEFINE in  == Positive(Sign(a) * line.amount)
           out == Positive(-(Sign(a) * line.amount))
           released == ReleaseReservation(row, Sign(a), line)
<1>1. in \in Nat /\ out \in Nat
  BY SignType, PresentedType, PositiveType
<1>0. released = [row EXCEPT !.inflow = @ - in, !.outflow = @ - out]
  BY DEF ReleaseReservation
<1>2. released = [balance |-> row.balance, base |-> row.base,
                  inflow |-> row.inflow - in, outflow |-> row.outflow - out,
                  version |-> row.version, open |-> row.open]
  <2> HIDE DEF in, out, released
  <2> QED BY <1>0 DEF Row
<1>3. /\ k = "inflow" => Share(k, a, line) = in
      /\ k = "outflow" => Share(k, a, line) = out
  BY DEF Share
<1>4. CASE to = "posted"
  <2>1. ApplyStatusChange(row, Sign(a), line, to) =
          [balance |-> row.balance + line.amount, base |-> row.base + line.base,
           inflow |-> row.inflow - in, outflow |-> row.outflow - out,
           version |-> row.version + 1, open |-> row.open]
    <3>1. ApplyStatusChange(row, Sign(a), line, to) =
            [SettleLine(released, line) EXCEPT !.version = @ + 1]
      BY <1>4 DEF ApplyStatusChange
    <3>2. SettleLine(released, line) =
            [released EXCEPT !.balance = @ + line.amount, !.base = @ + line.base]
      BY DEF SettleLine
    <3> HIDE DEF in, out, released
    <3>3. SettleLine(released, line) =
            [balance |-> row.balance + line.amount, base |-> row.base + line.base,
             inflow |-> row.inflow - in, outflow |-> row.outflow - out,
             version |-> row.version, open |-> row.open]
      BY <1>2, <3>2
    <3> QED BY <3>1, <3>3
  <2>2. /\ k = "balance" => Share(k, a, line) = line.amount
        /\ k = "base" => Share(k, a, line) = line.base
    BY DEF Share
  <2> HIDE DEF in, out, released
  <2> QED BY <1>1, <1>3, <1>4, <2>1, <2>2, RowFields, PresentedType DEF Columns, Counted
<1>5. CASE to = "archived"
  <2>1. ApplyStatusChange(row, Sign(a), line, to) =
          [balance |-> row.balance, base |-> row.base,
           inflow |-> row.inflow - in, outflow |-> row.outflow - out,
           version |-> row.version + 1, open |-> row.open]
    <3>1. ApplyStatusChange(row, Sign(a), line, to) = [released EXCEPT !.version = @ + 1]
      BY <1>5 DEF ApplyStatusChange
    <3> HIDE DEF in, out, released
    <3> QED BY <1>2, <3>1
  <2> HIDE DEF in, out, released
  <2> QED BY <1>1, <1>3, <1>5, <2>1, RowFields DEF Columns, Counted
<1> QED BY <1>4, <1>5

\* An entry written adds its shares to the columns that count its status.
LEMMA WriteAdds ==
  ASSUME TypeInv, FiniteBook, NEW s \in Session, CommitWrite(s),
         NEW e \in Entry, Written(s, e)
  PROVE  /\ FiniteBook'
         /\ \A a \in Account, k \in Columns :
              Figure(entry', k, a) = Figure(entry, k, a)
                + (IF Counted(k) = req[s].status THEN Share(k, a, lines[s][a]) ELSE 0)
<1>1. /\ entry'[e].status = req[s].status /\ entry'[e].lines = lines[s]
      /\ \A f \in Entry : f # e => entry'[f] = entry[f]
      /\ entry[e].status = "absent" /\ req[s].status \in {"pending", "posted"}
      /\ lines[s] \in Lines
  BY RequestTypes DEF Written, CommitWrite, TypeInv, CommittedTypes, SessionTypes, Labels
<1>2. \A st \in {"pending", "posted"} :
        InStatus(entry', st) =
          IF st = req[s].status THEN InStatus(entry, st) \cup {e} ELSE InStatus(entry, st)
  BY <1>1 DEF InStatus
<1>3. FiniteBook'
  BY <1>1, <1>2, FS_AddElement DEF FiniteBook
<1>4. ASSUME NEW a \in Account, NEW k \in Columns
      PROVE  Figure(entry', k, a) = Figure(entry, k, a)
               + (IF Counted(k) = req[s].status THEN Share(k, a, lines[s][a]) ELSE 0)
  <2> DEFINE S == InStatus(entry, Counted(k))
             f == Shares(entry', k, a)
             g == Shares(entry, k, a)
  <2>1. IsFiniteSet(S) /\ e \notin S /\ S \subseteq Entry /\ Counted(k) \in {"pending", "posted"}
    BY <1>1 DEF FiniteBook, InStatus, Counted
  <2>2. \A y \in S : g[y] \in Int /\ f[y] = g[y]
    BY <1>1, <2>1, SharesType DEF Shares
  <2>3. f[e] = Share(k, a, lines[s][a]) /\ f[e] \in Int
    BY <1>1, ShareType DEF Shares, Lines
  <2>4. CASE Counted(k) = req[s].status
    <3>1. InStatus(entry', Counted(k)) = S \cup {e}
      BY <1>2, <2>1, <2>4
    <3>2. SumFunctionOnSet(f, S \cup {e}) = SumFunctionOnSet(g, S) + f[e]
      <4> HIDE DEF S, f, g
      <4> QED BY <2>1, <2>2, <2>3, SumJoins
    <3> QED BY <2>3, <2>4, <3>1, <3>2 DEF Figure
  <2>5. CASE Counted(k) # req[s].status
    <3>1. InStatus(entry', Counted(k)) = S
      BY <1>2, <2>1, <2>5
    <3>2. SumFunctionOnSet(f, S) = SumFunctionOnSet(g, S) /\ SumFunctionOnSet(g, S) \in Int
      <4> HIDE DEF S, f, g
      <4> QED BY <2>1, <2>2, SumsAgree, SumIsInt
    <3> QED BY <2>5, <3>1, <3>2 DEF Figure
  <2> QED BY <2>4, <2>5
<1> QED BY <1>3, <1>4

\* A transition takes the shares of its entry out of what is pending, and
\* settles them or not.
LEMMA TransitionMoves ==
  ASSUME TypeInv, FiniteBook, NEW e \in Entry, entry[e].status = "pending",
         NEW to \in {"posted", "archived"}, entry' = [entry EXCEPT ![e].status = to]
  PROVE  /\ FiniteBook'
         /\ \A a \in Account, k \in Columns :
              Figure(entry', k, a) = Figure(entry, k, a)
                + (CASE Counted(k) = "pending" -> -Share(k, a, entry[e].lines[a])
                     [] Counted(k) = to -> Share(k, a, entry[e].lines[a])
                     [] OTHER -> 0)
<1>1. /\ entry'[e].status = to
      /\ \A f \in Entry : entry'[f].lines = entry[f].lines
      /\ \A f \in Entry : f # e => entry'[f] = entry[f]
  BY DEF TypeInv, CommittedTypes, EntryRow
<1>2. /\ InStatus(entry', "pending") = InStatus(entry, "pending") \ {e}
      /\ InStatus(entry', "posted") =
           IF to = "posted" THEN InStatus(entry, "posted") \cup {e} ELSE InStatus(entry, "posted")
      /\ e \in InStatus(entry, "pending") /\ e \notin InStatus(entry, "posted")
  BY <1>1 DEF InStatus
<1>3. FiniteBook'
  <2>1. IsFiniteSet(InStatus(entry, "pending") \ {e})
    BY FS_RemoveElement DEF FiniteBook
  <2>2. IsFiniteSet(InStatus(entry, "posted") \cup {e})
    BY FS_AddElement DEF FiniteBook
  <2> QED BY <1>2, <2>1, <2>2 DEF FiniteBook
<1>4. ASSUME NEW a \in Account, NEW k \in Columns
      PROVE  Figure(entry', k, a) = Figure(entry, k, a)
               + (CASE Counted(k) = "pending" -> -Share(k, a, entry[e].lines[a])
                    [] Counted(k) = to -> Share(k, a, entry[e].lines[a])
                    [] OTHER -> 0)
  <2> DEFINE S == InStatus(entry, Counted(k))
             f == Shares(entry', k, a)
             g == Shares(entry, k, a)
  <2>1. IsFiniteSet(S) /\ S \subseteq Entry /\ Counted(k) \in {"pending", "posted"}
    BY DEF FiniteBook, InStatus, Counted
  <2>2. \A y \in Entry : g[y] \in Int /\ f[y] = g[y]
    BY <1>1, SharesType DEF Shares
  <2>2r. /\ \A y \in S : g[y] \in Int /\ f[y] = g[y]
         /\ f[e] \in Int
    BY <2>1, <2>2
  <2>3. f[e] = Share(k, a, entry[e].lines[a]) /\ SumFunctionOnSet(g, S) \in Int
    <3>1. SumFunctionOnSet(g, S) \in Int
      <4> HIDE DEF S, f, g
      <4> QED BY <2>1, <2>2, SumIsInt
    <3> QED BY <1>1, <3>1 DEF Shares
  <2>4. CASE Counted(k) = "pending"
    <3>1. InStatus(entry', Counted(k)) = S \ {e} /\ e \in S
      BY <1>2, <2>4
    <3>2. SumFunctionOnSet(f, S \ {e}) = SumFunctionOnSet(g, S) - g[e]
      <4>1. IsFiniteSet(S)
        BY <2>1
      <4>2. e \in S
        BY <3>1
      <4>3. \A y \in S : g[y] \in Int
        BY <2>2r
      <4>4. \A y \in S \ {e} : f[y] = g[y]
        BY <2>2r
      <4> HIDE DEF S, f, g
      <4>5. SumFunctionOnSet(g, S) = g[e] + SumFunctionOnSet(g, S \ {e})
        BY ONLY <4>1, <4>2, <4>3, SumTakesAny
      <4>6. IsFiniteSet(S \ {e})
        BY <4>1, FS_RemoveElement
      <4>7. SumFunctionOnSet(f, S \ {e}) = SumFunctionOnSet(g, S \ {e})
        BY ONLY <4>6, <4>4, SumsAgree
      <4>8. SumFunctionOnSet(g, S \ {e}) \in Int /\ g[e] \in Int
        BY ONLY <4>6, <4>2, <4>3, SumIsInt
      <4> QED BY ONLY <4>5, <4>7, <4>8
    <3>3. g[e] = f[e] /\ g[e] \in Int
      BY <2>2
    <3> HIDE DEF f, g, S
    <3>4. SumFunctionOnSet(f, S \ {e}) = SumFunctionOnSet(g, S) + -f[e]
      BY <2>3, <3>2, <3>3
    <3> QED BY <2>3, <2>4, <3>1, <3>4 DEF Figure, f, g, S
  <2>5. CASE Counted(k) = "posted" /\ to = "posted"
    <3>1. InStatus(entry', Counted(k)) = S \cup {e} /\ e \notin S
      BY <1>2, <2>5
    <3>2. SumFunctionOnSet(f, S \cup {e}) = SumFunctionOnSet(g, S) + f[e]
      <4>1. e \notin S
        BY <3>1
      <4> HIDE DEF S, f, g
      <4> QED BY <2>1, <2>2r, <4>1, SumJoins
    <3> QED BY <2>3, <2>5, <3>1, <3>2 DEF Figure
  <2>6. CASE Counted(k) = "posted" /\ to = "archived"
    <3>1. InStatus(entry', Counted(k)) = S
      BY <1>2, <2>6
    <3>2. SumFunctionOnSet(f, S) = SumFunctionOnSet(g, S)
      <4> HIDE DEF S, f, g
      <4> QED BY <2>1, <2>2, SumsAgree
    <3> QED BY <2>3, <2>6, <3>1, <3>2 DEF Figure
  <2> QED BY <2>1, <2>4, <2>5, <2>6
<1> QED BY <1>3, <1>4

LEMMA ImageInit == Init => ImageInv
BY DEF Init, ImageInv, ImageOf, HoldsAccount, NoRows, Touching, Wrote, HoldsEntry

\* A session keeps its images while what they were made from stands.
LEMMA ImageElsewhere ==
  ASSUME NEW t \in Session, ImageOf(t),
         pc'[t] = pc[t], req'[t] = req[t], lines'[t] = lines[t],
         todo'[t] = todo[t], rows'[t] = rows[t],
         \A a \in Account : HoldsAccount(t, a) => acct'[a] = acct[a],
         \A e \in Entry : HoldsEntry(t, e) => entry'[e].lines = entry[e].lines
  PROVE  ImageOf(t)'
<1>1. \A a \in Account : HoldsAccount(t, a)' <=> HoldsAccount(t, a)
  BY DEF HoldsAccount
<1>2. \A a \in Account : HoldsAccount(t, a) => NextRow(t, a)' = NextRow(t, a)
  BY DEF NextRow, Writes, Transitions, NewStatus
<1>3. \A e \in Entry : HoldsEntry(t, e)' <=> HoldsEntry(t, e)
  BY DEF HoldsEntry, Wrote, Transitions
<1>4. Touching(t)' <=> Touching(t)
  BY DEF Touching, Wrote, Writes, Transitions
<1>5. \A a \in Account : HoldsAccount(t, a)' => rows'[t][a] = NextRow(t, a)'
  BY <1>1, <1>2 DEF ImageOf
<1>6. Touching(t)' => \A a \in Touched(lines'[t]) :
        HoldsAccount(t, a)' \/ \E i \in DOMAIN todo'[t] : todo'[t][i] = a
  <2> SUFFICES ASSUME Touching(t)', NEW a \in Touched(lines'[t])
               PROVE  HoldsAccount(t, a)' \/ \E i \in DOMAIN todo'[t] : todo'[t][i] = a
    OBVIOUS
  <2>1. Touching(t) /\ a \in Touched(lines[t]) /\ a \in Account
    BY <1>4 DEF Touched
  <2>2. HoldsAccount(t, a) \/ \E i \in DOMAIN todo[t] : todo[t][i] = a
    BY <2>1 DEF ImageOf
  <2> QED BY <1>1, <2>1, <2>2
<1>7. pc'[t] = "commit" => todo'[t] = <<>>
  BY DEF ImageOf
<1>8. \A e \in Entry : HoldsEntry(t, e)' => lines'[t] = entry'[e].lines
  BY <1>3 DEF ImageOf
<1> QED BY <1>5, <1>6, <1>7, <1>8 DEF ImageOf

\* A session that is not at its account rows has nothing to keep.
LEMMA ImageApart ==
  ASSUME NEW s \in Session, ~Wrote(s)', \A a \in Account : ~HoldsAccount(s, a)'
  PROVE  ImageOf(s)'
BY DEF ImageOf, Touching, HoldsEntry, Wrote

\* Every account an entry touches is somewhere in the order it is locked in.
LEMMA OrderCovers ==
  ASSUME NEW s, NEW S \in SUBSET Account, NEW q \in LockOrders(s, S), NEW a \in S
  PROVE  \E i \in DOMAIN q : q[i] = a
<1> DEFINE n == Cardinality(S)
<1>1. IsFiniteSet(S) /\ n \in Nat
  BY AccountAssumption, FS_Subset, FS_CardinalityType
<1>2. q \in [1..n -> S] /\ \A i, j \in DOMAIN q : q[i] = q[j] => i = j
  BY DEF LockOrders, Orderings
<1>3. q \in Injection(1..n, S)
  BY <1>2 DEF Injection, IsInjective
<1>4. Cardinality(1..n) = n
  BY <1>1, FS_Interval
<1>5. q \in Surjection(1..n, S)
  <2> HIDE DEF n
  <2> QED BY <1>1, <1>3, <1>4, FS_Injection DEF n
<1> QED BY <1>2, <1>5 DEF Surjection

\* The rows to take are chosen, none of them held yet.
LEMMA ImageStart ==
  ASSUME TypeInv, OrderInv, ImageInv, NEW s \in Session, InsertEntry(s) \/ LockEntry(s)
  PROVE  ImageInv'
<1>1. PICK order \in LockOrders(s, Touched(lines'[s])) : todo' = [todo EXCEPT ![s] = order]
  BY DEF InsertEntry, LockEntry
<1>2. /\ UNCHANGED <<req, rows, acct, entry>> /\ pc'[s] = "apply" /\ ~Wrote(s)
      /\ todo'[s] = order
      /\ \A t \in Session : t # s =>
           pc'[t] = pc[t] /\ lines'[t] = lines[t] /\ todo'[t] = todo[t]
  BY <1>1 DEF InsertEntry, LockEntry, Goto, KeepCommitted, TypeInv, SessionTypes, Wrote
<1>3. \A a \in Account : ~HoldsAccount(s, a)'
  BY <1>2 DEF OrderInv, HoldsAccount
<1>4. \A a \in Touched(lines'[s]) : \E i \in DOMAIN order : order[i] = a
  <2>1. Touched(lines'[s]) \in SUBSET Account
    BY DEF Touched
  <2> QED BY <2>1, OrderCovers
<1>5. \A e \in Entry : HoldsEntry(s, e)' => lines'[s] = entry[e].lines
  <2>1. CASE InsertEntry(s)
    BY <1>2, <2>1 DEF InsertEntry, TypeInv, Labels, Writes, HoldsEntry, Transitions
  <2>2. CASE LockEntry(s)
    BY <1>2, <2>2 DEF LockEntry, HoldsEntry, TypeInv, SessionTypes
  <2> QED BY <2>1, <2>2
<1>6. ImageOf(s)'
  BY <1>2, <1>3, <1>4, <1>5 DEF ImageOf
<1>7. \A t \in Session : t # s => ImageOf(t)'
  BY <1>2, ImageElsewhere DEF ImageInv
<1> QED BY <1>6, <1>7 DEF ImageInv

LEMMA ImageApply ==
  ASSUME TypeInv, ImageInv, NEW s \in Session, ApplyRow(s)
  PROVE  ImageInv'
<1> DEFINE a == Head(todo[s])
<1>1. /\ todo[s] \in Seq(Account) /\ todo[s] # <<>> /\ a \in Account
  BY DEF TypeInv, SessionTypes, Labels, ApplyRow
<1>2. NextRow(s, a) \in Row
  BY <1>1, NextRowType DEF ApplyRow
<1>3. /\ UNCHANGED <<req, lines, acct, entry>> /\ pc[s] = "apply"
      /\ pc'[s] = IF Tail(todo[s]) = <<>> THEN "commit" ELSE "apply"
      /\ todo'[s] = Tail(todo[s])
      /\ \A t \in Session : t # s =>
           pc'[t] = pc[t] /\ todo'[t] = todo[t] /\ rows'[t] = rows[t]
  BY DEF ApplyRow, Goto, KeepCommitted, TypeInv, SessionTypes
<1>4. rows'[s][a] = NextRow(s, a) /\ \A b \in Account : b # a => rows'[s][b] = rows[s][b]
  BY <1>1 DEF ApplyRow, TypeInv, SessionTypes
<1>5. \A b \in Account : NextRow(s, b)' = NextRow(s, b)
  BY <1>3 DEF NextRow, Writes, Transitions, NewStatus
<1>6. NextRow(s, a) # Unheld
  BY <1>2 DEF Row, Unheld, EmptyRow
<1>7. \A b \in Account : HoldsAccount(s, b)' <=> b = a \/ HoldsAccount(s, b)
  BY <1>4, <1>6 DEF HoldsAccount
<1>8. ASSUME Touching(s)', NEW b \in Touched(lines'[s])
      PROVE  HoldsAccount(s, b)' \/ \E i \in DOMAIN todo'[s] : todo'[s][i] = b
  <2>1. Touching(s) /\ b \in Touched(lines[s]) /\ b \in Account
    BY <1>3, <1>8 DEF Touching, Wrote, Writes, Transitions, Touched
  <2>2. CASE HoldsAccount(s, b)
    BY <1>7, <2>1, <2>2
  <2>3. CASE \E i \in DOMAIN todo[s] : todo[s][i] = b
    <3>1. PICK i \in DOMAIN todo[s] : todo[s][i] = b
      BY <2>3
    <3>2. CASE i = 1
      BY <1>1, <1>7, <2>1, <3>1, <3>2
    <3>3. CASE i # 1
      <4>1. i - 1 \in DOMAIN Tail(todo[s]) /\ Tail(todo[s])[i - 1] = todo[s][i]
        BY <1>1, <3>1, <3>3
      <4> QED BY <1>3, <3>1, <4>1
    <3> QED BY <3>2, <3>3
  <2> QED BY <2>1, <2>2, <2>3 DEF ImageInv, ImageOf
<1>9. \A e \in Entry : HoldsEntry(s, e)' => HoldsEntry(s, e)
  BY <1>3 DEF HoldsEntry, Wrote, Transitions
<1>10. ImageOf(s)'
  <2>1. \A b \in Account : HoldsAccount(s, b)' => rows'[s][b] = NextRow(s, b)'
    BY <1>4, <1>5, <1>7 DEF ImageInv, ImageOf
  <2>2. \A e \in Entry : HoldsEntry(s, e)' => lines'[s] = entry'[e].lines
    BY <1>3, <1>9 DEF ImageInv, ImageOf
  <2>3. pc'[s] = "commit" => todo'[s] = <<>>
    BY <1>3
  <2> QED BY <1>8, <2>1, <2>2, <2>3 DEF ImageOf
<1>11. \A t \in Session : t # s => ImageOf(t)'
  BY <1>3, ImageElsewhere DEF ImageInv
<1> QED BY <1>10, <1>11 DEF ImageInv

\* A session ends.  What it publishes nobody else holds.
LEMMA ImageFinish ==
  ASSUME TypeInv, RowInv, EntryInv, ImageInv, NEW s \in Session,
         \/ Rollback(s) \/ CommitWrite(s) \/ CommitTransition(s) \/ CommitClose(s)
  PROVE  ImageInv'
<1>1. /\ pc'[s] = "idle" /\ rows'[s] = NoRows
      /\ \A t \in Session : t # s =>
           /\ pc'[t] = pc[t] /\ req'[t] = req[t] /\ lines'[t] = lines[t]
           /\ todo'[t] = todo[t] /\ rows'[t] = rows[t]
  BY DEF Rollback, CommitWrite, CommitTransition, CommitClose, Finish, TypeInv, SessionTypes
<1>2. ImageOf(s)'
  BY <1>1, ImageApart DEF Wrote, HoldsAccount, NoRows
<1>3. \A a \in Account : ~HoldsAccount(s, a) => acct'[a] = acct[a]
  BY DEF Rollback, CommitWrite, CommitTransition, CommitClose, PublishRows
<1>4. ASSUME NEW t \in Session, t # s PROVE ImageOf(t)'
  <2>1. \A a \in Account : HoldsAccount(t, a) => acct'[a] = acct[a]
    BY <1>3, <1>4 DEF RowInv
  <2>2. ASSUME NEW e \in Entry, HoldsEntry(t, e) PROVE entry'[e].lines = entry[e].lines
    <3>1. CASE Rollback(s) \/ CommitClose(s)
      BY <3>1 DEF Rollback, CommitClose
    <3>2. CASE CommitWrite(s)
      <4>1. PICK f \in Entry : Written(s, f)
        BY <3>2 DEF CommitWrite, Written
      <4>2. f # e
        BY <2>2, <4>1 DEF Written, EntryInv
      <4> QED BY <4>1, <4>2 DEF Written, TypeInv, CommittedTypes
    <3>3. CASE CommitTransition(s)
      BY <3>3 DEF CommitTransition, TypeInv, CommittedTypes, EntryRow
    <3> QED BY <3>1, <3>2, <3>3
  <2> QED BY <1>1, <1>4, <2>1, <2>2, ImageElsewhere DEF ImageInv
<1> QED BY <1>2, <1>4 DEF ImageInv

LEMMA ImageStep ==
  ASSUME TypeInv, RowInv, EntryInv, OrderInv, ImageInv, [Next]_vars
  PROVE  ImageInv'
<1>1. CASE Next
  <2>1. PICK s \in Session :
          \/ Begin(s) \/ ClaimKey(s) \/ Refused(s)
          \/ ReadForPost(s) \/ ReadForReverse(s) \/ ReadForTransition(s)
          \/ InsertEntry(s) \/ LockEntry(s) \/ ApplyRow(s)
          \/ CommitWrite(s) \/ CommitTransition(s) \/ CommitClose(s)
    BY <1>1, Steps
  <2>2. CASE Begin(s)
    <3>1. PICK r \in Request : /\ Goto(s, FirstStep(r)) /\ req' = [req EXCEPT ![s] = r]
                               /\ UNCHANGED <<rows, acct, entry>>
      BY <2>2 DEF Begin, KeepCommitted
    <3>2. /\ pc'[s] = FirstStep(r) /\ req'[s] = r /\ ~Wrote(s)
          /\ \A t \in Session : t # s =>
               /\ pc'[t] = pc[t] /\ req'[t] = req[t] /\ lines'[t] = lines[t]
               /\ todo'[t] = todo[t]
      BY <2>2, <3>1 DEF Begin, Goto, TypeInv, SessionTypes, Wrote
    <3>3. \A a \in Account : ~HoldsAccount(s, a)'
      BY <3>1, <3>2 DEF OrderInv, HoldsAccount
    <3>4. FirstStep(r) = "apply" => r.op = "close"
      BY DEF FirstStep
    <3>5. FirstStep(r) # "commit"
      BY DEF FirstStep
    <3>6. ImageOf(s)'
      BY <3>2, <3>3, <3>4, <3>5
         DEF ImageOf, Touching, Wrote, Writes, Transitions, HoldsEntry
    <3>7. \A t \in Session : t # s => ImageOf(t)'
      BY <3>1, <3>2, ImageElsewhere DEF ImageInv
    <3> QED BY <3>6, <3>7 DEF ImageInv
  <2>3. CASE ClaimKey(s) \/ ReadForPost(s) \/ ReadForReverse(s) \/ ReadForTransition(s)
    <3>1. /\ UNCHANGED <<req, todo, rows, acct, entry>> /\ ~Wrote(s) /\ ~Wrote(s)'
          /\ \A t \in Session : t # s => pc'[t] = pc[t] /\ lines'[t] = lines[t]
      BY <2>3 DEF ClaimKey, ReadForPost, ReadForReverse, ReadForTransition, Goto, Wrote,
                  KeepCommitted, TypeInv, SessionTypes
    <3>2. \A a \in Account : ~HoldsAccount(s, a)'
      BY <3>1 DEF OrderInv, HoldsAccount
    <3>3. ImageOf(s)'
      BY <3>1, <3>2, ImageApart
    <3>4. \A t \in Session : t # s => ImageOf(t)'
      BY <3>1, ImageElsewhere DEF ImageInv
    <3> QED BY <3>3, <3>4 DEF ImageInv
  <2>4. CASE InsertEntry(s) \/ LockEntry(s)
    BY <2>4, ImageStart
  <2>5. CASE ApplyRow(s)
    BY <2>5, ImageApply
  <2>6. CASE Refused(s) \/ CommitWrite(s) \/ CommitTransition(s) \/ CommitClose(s)
    BY <2>6, RefusedRollsBack, ImageFinish
  <2> QED BY <2>1, <2>2, <2>3, <2>4, <2>5, <2>6
<1>2. CASE UNCHANGED vars
  BY <1>2, ImageElsewhere DEF vars, sessionVars, ImageInv
<1> QED BY <1>1, <1>2

THEOREM ImageInvariant == Spec => []ImageInv
<1>1. TypeInv /\ RowInv /\ EntryInv /\ OrderInv /\ ImageInv /\ [Next]_vars => ImageInv'
  BY ImageStep
<1> QED BY ImageInit, <1>1, TypeInvariant, RowInvariant, EntryInvariant, OrderInvariant, PTL
        DEF Spec

\* An empty book sums to nothing.
LEMMA SumInit == Init => SumInv
<1> SUFFICES ASSUME Init PROVE SumInv
  OBVIOUS
<1>1. InStatus(entry, "posted") = {} /\ InStatus(entry, "pending") = {}
  BY DEF Init, LedgerInit, AbsentRow, InStatus
<1>2. FiniteBook
  BY <1>1, FS_EmptySet DEF FiniteBook
<1>3. ASSUME NEW a \in Account, NEW k \in Columns PROVE acct[a][k] = Figure(entry, k, a)
  <2>1. InStatus(entry, Counted(k)) = {}
    BY <1>1 DEF Counted
  <2>2. Figure(entry, k, a) = 0
    BY <2>1, SumOfNone DEF Figure
  <2>3. acct[a] = EmptyRow
    BY DEF Init
  <2> QED BY <2>2, <2>3 DEF Columns, EmptyRow
<1> QED BY <1>2, <1>3 DEF SumInv, ColumnsAreSums

\* What a writer or a transition commits of a row: the image of its lines, of
\* a row it did not take nothing.
LEMMA CommittedImage ==
  ASSUME TypeInv, ImageInv, NEW s \in Session, pc[s] = "commit",
         Writes(s) \/ Transitions(s), PublishRows(s), NEW a \in Account
  PROVE  \/ acct'[a] = NextRow(s, a)
         \/ acct'[a] = acct[a] /\ lines[s][a] = NoLine
<1>1. CASE HoldsAccount(s, a)
  BY <1>1 DEF PublishRows, ImageInv, ImageOf
<1>2. CASE ~HoldsAccount(s, a)
  <2>1. todo[s] = <<>> /\ Touching(s)
    BY DEF ImageInv, ImageOf, Touching, Wrote
  <2>2. a \notin Touched(lines[s])
    BY <1>2, <2>1 DEF ImageInv, ImageOf
  <2> QED BY <1>2, <2>2 DEF PublishRows, Touched
<1> QED BY <1>1, <1>2

LEMMA FigureType ==
  ASSUME TypeInv, FiniteBook, NEW a \in Account, NEW k \in Columns
  PROVE  Figure(entry, k, a) \in Int /\ acct[a][k] \in Int
<1>1. IsFiniteSet(InStatus(entry, Counted(k)))
  BY DEF FiniteBook, Counted
<1>2. \A e \in InStatus(entry, Counted(k)) : Shares(entry, k, a)[e] \in Int
  BY SharesType DEF InStatus
<1>3. Figure(entry, k, a) \in Int
  BY <1>1, <1>2, SumIsInt DEF Figure
<1>4. acct[a][k] \in Int
  BY RowFields DEF TypeInv, CommittedTypes, Columns
<1> QED BY <1>3, <1>4

LEMMA SumWrite ==
  ASSUME TypeInv, ImageInv, SumInv, NEW s \in Session, CommitWrite(s)
  PROVE  SumInv'
<1>1. PICK e \in Entry : Written(s, e)
  BY DEF CommitWrite, Written
<1>2. FiniteBook'
  BY <1>1, WriteAdds DEF SumInv
<1>3. ASSUME NEW a \in Account, NEW k \in Columns PROVE acct'[a][k] = Figure(entry', k, a)
  <2> DEFINE share == IF Counted(k) = req[s].status THEN Share(k, a, lines[s][a]) ELSE 0
  <2>1. Figure(entry', k, a) = Figure(entry, k, a) + share
    BY <1>1, WriteAdds DEF SumInv
  <2>2. acct[a][k] = Figure(entry, k, a) /\ acct[a][k] \in Int
    BY FigureType DEF SumInv, ColumnsAreSums
  <2>3. acct'[a][k] = acct[a][k] + share
    <3>1. CASE acct'[a] = NextRow(s, a)
      <4>1. NextRow(s, a) = ApplyPosting(acct[a], Sign(a), lines[s][a], req[s].status)
        BY DEF NextRow, CommitWrite, Writes, Transitions
      <4>2. /\ acct[a] \in Row /\ lines[s][a] \in Line
            /\ req[s].status \in {"pending", "posted"}
        BY RequestTypes DEF TypeInv, CommittedTypes, SessionTypes, Lines, Labels, CommitWrite
      <4> QED BY <3>1, <4>1, <4>2, PostingAdds
    <3>2. CASE acct'[a] = acct[a] /\ lines[s][a] = NoLine
      <4>1. share = 0
        BY <3>2, NothingShared
      <4> HIDE DEF share
      <4> QED BY <2>2, <3>2, <4>1
    <3> QED BY <3>1, <3>2, CommittedImage DEF CommitWrite
  <2> HIDE DEF share
  <2> QED BY <2>1, <2>2, <2>3
<1> QED BY <1>2, <1>3 DEF SumInv, ColumnsAreSums

\* The entry a session moves is a pending one of the book, and its lines are
\* the session's.
LEMMA MovedEntry ==
  ASSUME TypeInv, EntryInv, ImageInv, NEW s \in Session, Wrote(s), Transitions(s)
  PROVE  /\ req[s].target \in Entry /\ entry[req[s].target].status = "pending"
         /\ lines[s] = entry[req[s].target].lines
         /\ NewStatus(s) \in {"posted", "archived"}
<1>1. req[s].target \in Entry
  BY RequestTarget DEF TypeInv, Labels, Wrote, Transitions
<1>2. HoldsEntry(s, req[s].target)
  BY DEF HoldsEntry
<1> QED BY <1>1, <1>2 DEF EntryInv, ImageInv, ImageOf, NewStatus

LEMMA SumTransition ==
  ASSUME TypeInv, EntryInv, ImageInv, SumInv, NEW s \in Session, CommitTransition(s)
  PROVE  SumInv'
<1> DEFINE e == req[s].target
           to == NewStatus(s)
<1>1. /\ e \in Entry /\ entry[e].status = "pending" /\ lines[s] = entry[e].lines
      /\ to \in {"posted", "archived"} /\ entry' = [entry EXCEPT ![e].status = to]
  BY MovedEntry DEF CommitTransition, Wrote
<1>2. FiniteBook'
  <2> HIDE DEF e, to
  <2> QED BY <1>1, TransitionMoves DEF SumInv
<1>3. ASSUME NEW a \in Account, NEW k \in Columns PROVE acct'[a][k] = Figure(entry', k, a)
  <2> DEFINE share == CASE Counted(k) = "pending" -> -Share(k, a, lines[s][a])
                        [] Counted(k) = to -> Share(k, a, lines[s][a])
                        [] OTHER -> 0
  <2>1. Figure(entry', k, a) = Figure(entry, k, a) + share
    <3> HIDE DEF e, to
    <3>1. Figure(entry', k, a) = Figure(entry, k, a)
            + (CASE Counted(k) = "pending" -> -Share(k, a, entry[e].lines[a])
                 [] Counted(k) = to -> Share(k, a, entry[e].lines[a])
                 [] OTHER -> 0)
      BY <1>1, TransitionMoves DEF SumInv
    <3> QED BY <1>1, <3>1
  <2>2. acct[a][k] = Figure(entry, k, a) /\ acct[a][k] \in Int
    BY FigureType DEF SumInv, ColumnsAreSums
  <2>3. acct'[a][k] = acct[a][k] + share
    <3>1. CASE acct'[a] = NextRow(s, a)
      <4>1. NextRow(s, a) = ApplyStatusChange(acct[a], Sign(a), lines[s][a], to)
        BY DEF NextRow, CommitTransition, Writes, Transitions
      <4>2. acct[a] \in Row /\ lines[s][a] \in Line
        BY DEF TypeInv, CommittedTypes, SessionTypes, Lines
      <4> HIDE DEF to
      <4> QED BY <1>1, <3>1, <4>1, <4>2, TransitionAdds
    <3>2. CASE acct'[a] = acct[a] /\ lines[s][a] = NoLine
      <4>1. share = 0
        BY <3>2, NothingShared
      <4> HIDE DEF share
      <4> QED BY <2>2, <3>2, <4>1
    <3> QED BY <3>1, <3>2, CommittedImage DEF CommitTransition
  <2> HIDE DEF share
  <2> QED BY <2>1, <2>2, <2>3
<1> QED BY <1>2, <1>3 DEF SumInv, ColumnsAreSums

\* Closing an account leaves its columns alone.
LEMMA SumClose ==
  ASSUME TypeInv, ImageInv, SumInv, NEW s \in Session, CommitClose(s)
  PROVE  SumInv'
<1>1. UNCHANGED entry /\ PublishRows(s) /\ ~Writes(s) /\ ~Transitions(s)
  BY DEF CommitClose, Writes, Transitions
<1>2. ASSUME NEW a \in Account, NEW k \in Columns PROVE acct'[a][k] = acct[a][k]
  <2>1. acct'[a] = acct[a] \/ acct'[a] = [acct[a] EXCEPT !.open = FALSE]
    BY <1>1 DEF PublishRows, ImageInv, ImageOf, NextRow
  <2>2. acct[a] \in Row
    BY DEF TypeInv, CommittedTypes
  <2> QED BY <2>1, <2>2 DEF Row, Columns
<1> QED BY <1>1, <1>2 DEF SumInv, FiniteBook, ColumnsAreSums

LEMMA SumStep ==
  ASSUME TypeInv, RowInv, EntryInv, OrderInv, ImageInv, SumInv, [Next]_vars
  PROVE  SumInv'
<1>1. UNCHANGED <<entry, acct>> => SumInv'
  BY DEF SumInv, FiniteBook, ColumnsAreSums
<1>2. CASE Next
  <2>1. PICK s \in Session :
          \/ Begin(s) \/ ClaimKey(s) \/ Refused(s)
          \/ ReadForPost(s) \/ ReadForReverse(s) \/ ReadForTransition(s)
          \/ InsertEntry(s) \/ LockEntry(s) \/ ApplyRow(s)
          \/ CommitWrite(s) \/ CommitTransition(s) \/ CommitClose(s)
    BY <1>2, Steps
  <2>2. CASE CommitWrite(s)
    BY <2>2, SumWrite
  <2>3. CASE CommitTransition(s)
    BY <2>3, SumTransition
  <2>4. CASE CommitClose(s)
    BY <2>4, SumClose
  <2>5. CASE \/ Begin(s) \/ ClaimKey(s) \/ Refused(s)
             \/ ReadForPost(s) \/ ReadForReverse(s) \/ ReadForTransition(s)
             \/ InsertEntry(s) \/ LockEntry(s) \/ ApplyRow(s)
    <3>1. UNCHANGED <<entry, acct>>
      BY <2>5, RefusedRollsBack
         DEF Begin, ClaimKey, ReadForPost, ReadForReverse, ReadForTransition, InsertEntry,
             LockEntry, ApplyRow, KeepCommitted, Rollback
    <3> QED BY <1>1, <3>1
  <2> QED BY <2>1, <2>2, <2>3, <2>4, <2>5
<1>3. CASE UNCHANGED vars
  BY <1>1, <1>3 DEF vars
<1> QED BY <1>2, <1>3

THEOREM SumInvariant == Spec => []SumInv
<1>1. TypeInv /\ RowInv /\ EntryInv /\ OrderInv /\ ImageInv /\ SumInv /\ [Next]_vars => SumInv'
  BY SumStep
<1> QED BY SumInit, <1>1, TypeInvariant, RowInvariant, EntryInvariant, OrderInvariant,
           ImageInvariant, PTL
        DEF Spec

\* Every balance column of every account is, in every reachable state, the sum
\* of the committed postings it caches.
THEOREM BalancesAreExact == Spec => []BalancesAreSums
<1>1. SumInv => BalancesAreSums
  BY FiguresOfBook DEF SumInv, ColumnsAreSums, Columns, BalancesAreSums
<1> QED BY <1>1, SumInvariant, PTL

(***************************************************************************)
(* A reservation is part of the sums, so releasing it is always possible.  *)
(***************************************************************************)
LEMMA HeldShare ==
  ASSUME TypeInv, SumInv, NEW a \in Account, NEW k \in {"inflow", "outflow"},
         NEW e \in Entry, entry[e].status = "pending"
  PROVE  acct[a][k] >= Share(k, a, entry[e].lines[a])
<1> DEFINE S == InStatus(entry, "pending")
           f == Shares(entry, k, a)
<1>1. IsFiniteSet(S) /\ e \in S /\ S \subseteq Entry
  BY DEF SumInv, FiniteBook, InStatus
<1>2. \A x \in S : f[x] \in Nat
  BY <1>1, SharesType DEF Columns
<1>3. acct[a][k] = SumFunctionOnSet(f, S)
  BY DEF SumInv, ColumnsAreSums, Columns, Figure, Counted
<1>4. f[e] = Share(k, a, entry[e].lines[a])
  BY DEF Shares
<1> HIDE DEF S, f
<1>5. \A x \in S : f[x] \in Int
  BY <1>2
<1>6. SumFunctionOnSet(f, S) = f[e] + SumFunctionOnSet(f, S \ {e})
  BY ONLY <1>1, <1>5, SumTakesAny
<1>7. IsFiniteSet(S \ {e})
  BY <1>1, FS_RemoveElement
<1>8. \A x \in S \ {e} : f[x] \in Nat
  BY <1>2
<1>9. SumFunctionOnSet(f, S \ {e}) \in Nat
  BY ONLY <1>7, <1>8, SumIsNat
<1> QED BY <1>1, <1>2, <1>3, <1>4, <1>6, <1>9

LEMMA StatusChangePasses ==
  ASSUME NEW row \in Row, NEW sign \in {-1, 1}, NEW line \in Line,
         NEW to \in {"archived", "posted"}, NEW overdraft \in BOOLEAN,
         RowChecks(row, sign, overdraft),
         row.inflow >= Positive(sign * line.amount),
         row.outflow >= Positive(-(sign * line.amount))
  PROVE  StatusChangeChecks(row, sign, line, to, overdraft)
<1> DEFINE in  == Positive(sign * line.amount)
           out == Positive(-(sign * line.amount))
           released == ReleaseReservation(row, sign, line)
<1>1. /\ in \in Nat /\ out \in Nat /\ sign * line.amount \in Int
      /\ sign * line.amount + out >= 0
  BY PresentedType DEF Positive
<1>2. released = [row EXCEPT !.inflow = @ - in, !.outflow = @ - out]
  BY DEF ReleaseReservation
<1>3. /\ sign * row.balance \in Int /\ sign * (row.balance + line.amount) \in Int
      /\ sign * (row.balance + line.amount) = sign * row.balance + sign * line.amount
  BY RowFields, PresentedType
<1>4. row.inflow >= in /\ row.outflow >= out
  OBVIOUS
<1>5. overdraft \/ sign * row.balance - row.outflow >= 0
  BY DEF RowChecks, Available
<1>6. released = [balance |-> row.balance, base |-> row.base,
                  inflow |-> row.inflow - in, outflow |-> row.outflow - out,
                  version |-> row.version, open |-> row.open]
  <2> HIDE DEF in, out, released
  <2> QED BY <1>2 DEF Row
<1>7. RowChecks(released, sign, overdraft)
  <2> HIDE DEF in, out, released
  <2> QED BY <1>1, <1>3, <1>4, <1>5, <1>6, RowFields DEF RowChecks, Available
<1>8. CASE to = "posted"
  <2>1. ApplyStatusChange(row, sign, line, to) =
          [SettleLine(released, line) EXCEPT !.version = @ + 1]
    BY <1>8 DEF ApplyStatusChange
  <2>2. SettleLine(released, line) =
          [released EXCEPT !.balance = @ + line.amount, !.base = @ + line.base]
    BY DEF SettleLine
  <2> HIDE DEF in, out, released
  <2>3. ApplyStatusChange(row, sign, line, to) =
          [balance |-> row.balance + line.amount, base |-> row.base + line.base,
           inflow |-> row.inflow - in, outflow |-> row.outflow - out,
           version |-> row.version + 1, open |-> row.open]
    <3>1. SettleLine(released, line) =
            [balance |-> row.balance + line.amount, base |-> row.base + line.base,
             inflow |-> row.inflow - in, outflow |-> row.outflow - out,
             version |-> row.version, open |-> row.open]
      BY <1>6, <2>2
    <3> QED BY <2>1, <3>1
  <2>4. overdraft \/ sign * (row.balance + line.amount) - (row.outflow - out) >= 0
    BY <1>1, <1>3, <1>5, RowFields
  <2>5. RowChecks(ApplyStatusChange(row, sign, line, to), sign, overdraft)
    BY <1>1, <1>4, <2>3, <2>4, RowFields DEF RowChecks, Available
  <2> QED BY <1>7, <2>5 DEF StatusChangeChecks, released
<1>9. CASE to = "archived"
  <2>1. ApplyStatusChange(row, sign, line, to) = [released EXCEPT !.version = @ + 1]
    BY <1>9 DEF ApplyStatusChange
  <2>2. RowChecks(ApplyStatusChange(row, sign, line, to), sign, overdraft)
    <3> HIDE DEF in, out, released
    <3> QED BY <1>6, <1>7, <2>1 DEF RowChecks, Available
  <2> QED BY <1>7, <2>2 DEF StatusChangeChecks
<1> QED BY <1>8, <1>9

\* No settlement and no cancellation is ever refused by a CHECK of a row: what
\* it releases is still reserved, and what it takes was set aside.
THEOREM ReservationsAreHonoured == Spec => []TransitionsNeverOverdraw
<1>1. TypeInv /\ RowInv /\ EntryInv /\ ImageInv /\ SumInv => TransitionsNeverOverdraw
  <2> SUFFICES ASSUME TypeInv, RowInv, EntryInv, ImageInv, SumInv, NEW s \in Session,
                      pc[s] = "apply", Transitions(s)
               PROVE  ChecksHold(s, Head(todo[s]))
    BY DEF TransitionsNeverOverdraw
  <2> DEFINE a == Head(todo[s])
             e == req[s].target
             line == entry[e].lines[a]
  <2>1. a \in Account
    BY DEF TypeInv, SessionTypes, Labels
  <2>2. /\ e \in Entry /\ entry[e].status = "pending" /\ lines[s] = entry[e].lines
        /\ NewStatus(s) \in {"posted", "archived"}
    BY MovedEntry DEF Wrote
  <2>3. /\ acct[a].inflow >= Share("inflow", a, line)
        /\ acct[a].outflow >= Share("outflow", a, line)
    BY <2>1, <2>2, HeldShare
  <2>4. acct[a] \in Row /\ line \in Line /\ Sign(a) \in {-1, 1}
    BY <2>1, <2>2, SignType DEF TypeInv, CommittedTypes, EntryRow, Lines
  <2>5. RowChecks(acct[a], Sign(a), a \in Overdraft) /\ (a \in Overdraft) \in BOOLEAN
    BY <2>1 DEF RowInv, RowSolvent
  <2>6. /\ Share("inflow", a, line) = Positive(Sign(a) * line.amount)
        /\ Share("outflow", a, line) = Positive(-(Sign(a) * line.amount))
    BY DEF Share
  <2>7. StatusChangeChecks(acct[a], Sign(a), line, NewStatus(s), a \in Overdraft)
    <3> HIDE DEF a, e, line
    <3> QED BY <2>2, <2>3, <2>4, <2>5, <2>6, StatusChangePasses
  <2> QED BY <2>2, <2>7 DEF ChecksHold
<1> QED BY <1>1, TypeInvariant, RowInvariant, EntryInvariant, ImageInvariant, SumInvariant, PTL

(***************************************************************************)
(* The sessions, the locks and the columns implement the ledger: a commit  *)
(* is one of its steps, and nothing else moves the book.                   *)
(***************************************************************************)
LEMMA WriteIsWrite ==
  ASSUME TypeInv, KeyInv, ReversalInv, RowInv', BalancesAreSums', NEW s \in Session,
         CommitWrite(s)
  PROVE  LedgerNext
<1>1. PICK e \in Entry : Written(s, e) /\ claim' = [k \in Key |-> IF k = req[s].key THEN e ELSE claim[k]]
  BY DEF CommitWrite, Written
<1> DEFINE new == [status |-> req[s].status, lines |-> lines[s], reverses |-> req[s].target,
                   owned |-> req[s].owned, key |-> req[s].key]
<1>2. req[s] \in Request /\ pc[s] = "commit" /\ Writes(s) /\ Balanced(lines[s])
  BY DEF CommitWrite, TypeInv, Labels
<1>3. entry'[e] = new /\ entry[e].status = "absent" /\ entry' = [entry EXCEPT ![e] = new]
  BY <1>1 DEF Written, TypeInv, CommittedTypes
<1>4. new \in EntryRow
  BY <1>2, RequestTypes DEF EntryRow, TypeInv, SessionTypes
<1>5. new.status \in {"pending", "posted"}
  BY <1>2, RequestTypes
<1>6. new.reverses # NoEntry => CanReverse(new.reverses, new.lines)
  <2> SUFFICES ASSUME new.reverses # NoEntry
               PROVE  CanReverse(req[s].target, lines[s])
    OBVIOUS
  <2>1. req[s].op = "reverse" /\ Reversing(s) /\ HoldsReversal(s, req[s].target)
    BY <1>2, RequestAssumption DEF Writes, Reversing, HoldsReversal, Wrote
  <2>2. req[s].target \in Entry
    BY <2>1, ReversingTarget
  <2> QED BY <2>1, <2>2 DEF ReversalInv, CanReverse
<1>7. new.key # NoKey => claim[new.key] = NoEntry
  <2> SUFFICES ASSUME req[s].key # NoKey PROVE claim[req[s].key] = NoEntry
    OBVIOUS
  <2>1. HoldsKey(s, req[s].key) /\ req[s].key \in Key
    BY <1>2, RequestTypes DEF HoldsKey
  <2> QED BY <2>1 DEF KeyInv
<1>8. SolventBook(entry')
  BY DEF SolventBook, BalancesAreSums, RowInv, RowSolvent, RowChecks, Available
<1>9. Balanced(new.lines) /\ claim' = [k \in Key |-> IF k = new.key THEN e ELSE claim[k]]
  BY <1>1, <1>2
<1> HIDE DEF new
<1> QED BY <1>3, <1>4, <1>5, <1>6, <1>7, <1>8, <1>9 DEF LedgerNext, Write

LEMMA LedgerStep ==
  ASSUME TypeInv, KeyInv, EntryInv, ReversalInv, ImageInv, RowInv', BalancesAreSums',
         [Next]_vars
  PROVE  [LedgerNext]_ledgerVars
<1>1. CASE Next
  <2>1. PICK s \in Session :
          \/ Begin(s) \/ ClaimKey(s) \/ Refused(s)
          \/ ReadForPost(s) \/ ReadForReverse(s) \/ ReadForTransition(s)
          \/ InsertEntry(s) \/ LockEntry(s) \/ ApplyRow(s)
          \/ CommitWrite(s) \/ CommitTransition(s) \/ CommitClose(s)
    BY <1>1, Steps
  <2>2. CASE CommitWrite(s)
    BY <2>2, WriteIsWrite
  <2>3. CASE CommitTransition(s)
    <3>1. /\ req[s].target \in Entry /\ entry[req[s].target].status = "pending"
          /\ NewStatus(s) \in {"posted", "archived"}
      BY <2>3, MovedEntry DEF CommitTransition, Wrote
    <3> QED BY <2>3, <3>1 DEF CommitTransition, LedgerNext, Settle, Archive
  <2>4. CASE \/ Begin(s) \/ ClaimKey(s) \/ Refused(s)
             \/ ReadForPost(s) \/ ReadForReverse(s) \/ ReadForTransition(s)
             \/ InsertEntry(s) \/ LockEntry(s) \/ ApplyRow(s) \/ CommitClose(s)
    <3>1. UNCHANGED <<entry, claim>>
      BY <2>4, RefusedRollsBack
         DEF Begin, ClaimKey, ReadForPost, ReadForReverse, ReadForTransition, InsertEntry,
             LockEntry, ApplyRow, CommitClose, KeepCommitted, Rollback
    <3> QED BY <3>1
  <2> QED BY <2>1, <2>2, <2>3, <2>4
<1>2. CASE UNCHANGED vars
  BY <1>2 DEF vars
<1> QED BY <1>1, <1>2

\* The journal implements the ledger, whatever its sessions interleave: each
\* commit is one step of a book whose every figure is a sum, every other step
\* leaves the book alone, and no step of the book lacks the right to be taken.
THEOREM JournalImplementsLedger == Spec => LedgerSpec
<1>1. Init => LedgerInit
  BY DEF Init
<1>2. TypeInv /\ KeyInv /\ EntryInv /\ ReversalInv /\ ImageInv /\ RowInv' /\ BalancesAreSums'
        /\ [Next]_vars => [LedgerNext]_ledgerVars
  BY LedgerStep
<1> QED BY <1>1, <1>2, TypeInvariant, KeyInvariant, EntryInvariant, ReversalInvariant,
           ImageInvariant, RowInvariant, BalancesAreExact, PTL
        DEF Spec, LedgerSpec

=============================================================================
