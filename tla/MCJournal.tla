----------------------------- MODULE MCJournal ------------------------------
\* Small instances of Journal: two asset accounts that may not be overdrawn
\* and an equity account that may, funded and spent by a few entries.
EXTENDS Journal, TLC

CONSTANTS e1, e2, e3, e4, k1, s1, s2, s3

MCEntry == {e1, e2, e3}
FourEntries == {e1, e2, e3, e4}

Move(n) == [amount |-> n, base |-> n]
Pair(from, to, n) == [NoLines EXCEPT ![from] = Move(-n), ![to] = Move(n)]

Ask(op) == [NoRequest EXCEPT !.op = op]
Post(l, st, k) == [Ask("post") EXCEPT !.lines = l, !.status = st, !.key = k]
On(op, e) == [Ask(op) EXCEPT !.target = e]
CloseAccount(a) == [Ask("close") EXCEPT !.account = a]
Pinned(r) == [r EXCEPT !.pinned = TRUE]

Fund(st) == Post(Pair(3, 1, 1), st, NoKey)

\* Account 2 holds a foreign currency: bought at 3 for 1, retranslated by a
\* line that moves nothing and is worth 1.
Foreign == [NoLines EXCEPT ![3] = Move(-3), ![2] = [amount |-> 1, base |-> 3]]
Retranslation == [NoLines EXCEPT ![3] = Move(-1), ![2] = [amount |-> 0, base |-> 1]]

\* Hand-written SQL also tries one leg alone, an entry out of balance, and an
\* entry the stock records own.
OneLeg == [NoLines EXCEPT ![1] = Move(1)]
Lopsided == [NoLines EXCEPT ![3] = Move(-1), ![2] = [amount |-> 1, base |-> 3]]
Sql(l) == [Ask("sql") EXCEPT !.lines = l]

\* Clients fund account 1 and retry, move, hold in both directions, buy and
\* retranslate, on a version read beforehand or not; they settle, cancel and
\* reverse what is there, and close an account.
BookRequests ==
  {Post(Pair(3, 1, 1), "posted", k1), Post(Foreign, "pending", NoKey),
   Post(Retranslation, "posted", NoKey),
   Post(Pair(1, 2, 1), "posted", NoKey), Post(Pair(2, 1, 1), "pending", NoKey),
   Sql(OneLeg), Sql(Lopsided), [Sql(Foreign) EXCEPT !.owned = TRUE],
   On("settle", e1), On("settle", e2), On("archive", e2),
   On("reverse", e1), [On("reverse", e2) EXCEPT !.key = k1], CloseAccount(2)}

\* Decisions made on a version read beforehand, which another commit overtakes.
PinnedRequests == {Fund("posted"), Fund("pending"), On("settle", e1), On("archive", e1),
                   Pinned(Post(Pair(1, 2, 1), "posted", NoKey))}
=============================================================================
