--------------------------- MODULE MCRevaluation ----------------------------
\* Small instances of Revaluation: two months may close, month 3 is current.
\* A rate is in halves, so a half has to be rounded.
EXTENDS Revaluation, TLC

CONSTANTS s1, s2

SessionSymmetry == Permutations(Session)

Currencies == [a \in Account |-> IF a \in {"cash", "loan", "card"} THEN "usd" ELSE "vnd"]

\* Half a dollar and no half of a dong.
Grains == [c \in {"usd", "vnd"} |-> IF c = "usd" THEN 1 ELSE 2]

Ask(op, m) == [op |-> op, month |-> m]
Rate(c, m, n, by) == [op |-> "rate", currency |-> c, month |-> m, rate |-> n, source |-> by]

Plain(a, n) == [account |-> a, amount |-> n, by |-> "none", given |-> 0]
At(a, n, r) == [Plain(a, n) EXCEPT !.by = "rate", !.given = r]
Worth(a, n, b) == [Plain(a, n) EXCEPT !.by = "base", !.given = b]
Entry(m, written) ==
  [op |-> "post", month |-> m, lines |-> written, currency |-> "vnd", fxAdjustment |-> FALSE]
Adjusted(m, written) == [Entry(m, written) EXCEPT !.fxAdjustment = TRUE]

\* A loan in dollars is taken up at a cost, and paid off at another rate; charges
\* on a card are paid at one rate: half a dong each, which rounds.
Borrow == Entry(1, <<At("cash", 3, 2), Worth("loan", -3, -8), Plain("equity", 2)>>)
Repay == Adjusted(2, <<At("loan", 3, 2), At("cash", -3, 4)>>)
PayCards == Adjusted(2, <<At("cash", -2, 1), At("card", 1, 1), At("loan", 1, 1)>>)

\* Refused: one payment with a figure mistyped.
Typo == Adjusted(2, <<At("loan", 3, 2), At("cash", -1, 2)>>)

\* Late and early rates, and a second opinion.
RivalRequests ==
  {Rate("usd", 1, 3, "bank"), Rate("usd", 2, 5, "bank"), Rate("usd", 1, 1, "manual"),
   Borrow, Repay, PayCards, Typo}
  \cup {Ask(op, m) : op \in {"revalue", "close"}, m \in {1, 2}}
  \cup {Ask("reopen", 1)}

\* Dollars posted to a month already marked as revalued.
Buy(m, n) == Entry(m, <<At("cash", n, 2), Plain("equity", -2 * n)>>)
MarkedRequests == {Rate("usd", 1, 3, "bank"), Buy(1, 1), Buy(2, 1),
                   Ask("revalue", 1), Ask("close", 1)}

\* One payment at one rate, and one whose worth is stated by somebody who writes
\* the entry in dollars.
PlugRequests == {PayCards, Buy(1, 3)}
InDollars == Entry(1, <<Worth("cash", 2, 4), Worth("loan", -2, -4)>>)
ScaledRequests == {[InDollars EXCEPT !.currency = "usd"], InDollars, Buy(1, 3)}
=============================================================================
