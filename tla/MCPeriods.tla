----------------------------- MODULE MCPeriods ------------------------------
\* Small instances of Periods: months 1 and 2 may close, month 3 is current.
EXTENDS Periods, TLC

CONSTANTS e1, e2, e3, e4, s1, s2, s3

Symmetries == Permutations(Session) \cup Permutations({e3, e4})

Ask(op, m) == [NoRequest EXCEPT !.op = op, !.month = m]
On(op, e) == [NoRequest EXCEPT !.op = op, !.target = e]

\* A sale of 2, an expense of 1, and one of 2, which breaks even with the sale.
Sale(m) == [Ask("post", m) EXCEPT !.lines = [NoLines EXCEPT !["revenue"] = -2]]
Cost(m, n) == [Ask("post", m) EXCEPT !.lines = [NoLines EXCEPT !["expense"] = n]]
Held(r) == [r EXCEPT !.status = "pending"]

MonthEnds == {Ask(op, m) : op \in {"close", "reopen"}, m \in {1, 2}}

\* Several people closing and reopening two months, settling, cancelling and
\* reversing what is in them.
RivalRequests == {Sale(1), Held(Sale(1)), Cost(1, 2), Sale(2)} \cup MonthEnds
  \cup {On("settle", e1), On("archive", e1), On("reverse", e2)}

SlipRequests == {Sale(1), Ask("close", 1)}
UndoneRequests == {Sale(1), Ask("close", 1), Ask("reopen", 1), On("reverse", e2)}
LateRequests == {Sale(1), Held(Cost(1, 1)), Ask("close", 1), On("settle", e2)}
=============================================================================
