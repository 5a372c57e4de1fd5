------------------------------- MODULE Drafting -----------------------------
(***************************************************************************)
(* From what a caller writes to the postings that are stored               *)
(* (http/entries.ts, journal.ts, domain/transaction.ts).  A written amount *)
(* is in parts, of which a minor unit of a currency has Grain.  A line     *)
(* states its worth in the functional currency, a rate to reach it by, or  *)
(* neither: by = "base", "rate" or "none", and the number given.           *)
(***************************************************************************)
EXTENDS Money, Sequences

CONSTANTS Account, CurrencyOf,   \* [Account -> currency]
          Home,                  \* the functional currency
          FxAccount,             \* the account whose role is fx_gain_loss
          Grain,                 \* [currency -> parts in a minor unit]
          Largest                \* the largest amount a column holds

ASSUME DraftingAssumption ==
  /\ IsFiniteSet(Account) /\ FxAccount \in Account /\ CurrencyOf[FxAccount] = Home
  /\ \A a \in Account : Grain[CurrencyOf[a]] \in Nat \ {0}
  /\ Largest \in Nat

\* A line as the schema lets it through.
WrittenLine == [account : Account, amount : Int, by : {"none", "base", "rate"}, given : Int]

Foreign == {a \in Account : CurrencyOf[a] # Home}

\* toSignedMinorUnits, which has no answer for more places than there are.
Representable(parts, currency) == parts % Grain[currency] = 0
ToMinorUnits(parts, currency) == parts \div Grain[currency]
Storable(n) == n \in (-Largest - 1)..Largest

\* The amount is scaled to its account's currency; the base amount has been
\* scaled to the entry's, as the caller names it.
Amount(line) == ToMinorUnits(line.amount, CurrencyOf[line.account])
Stated(line, currency) == ToMinorUnits(line.given, currency)

Resolvable(line, currency) ==
  /\ Representable(line.amount, CurrencyOf[line.account])
  /\ line.by = "base" => Representable(line.given, currency)
  /\ IF line.account \in Foreign
     THEN line.by = "base" \/ (line.by = "rate" /\ line.given > 0)
     ELSE line.by = "base" => Stated(line, currency) = Amount(line)

BaseAmount(line, currency) ==
  CASE line.account \notin Foreign -> Amount(line)
    [] line.by = "base" -> Stated(line, currency)
    [] OTHER -> Convert(Amount(line), line.given)

\* resolveBaseAmounts.
ResolveBaseAmounts(lines, currency) ==
  [i \in DOMAIN lines |-> [account |-> lines[i].account, amount |-> Amount(lines[i]),
                           base |-> BaseAmount(lines[i], currency)]]

SumAmount(postings, S) == SumFunctionOnSet([i \in DOMAIN postings |-> postings[i].amount], S)
SumBase(postings, S) == SumFunctionOnSet([i \in DOMAIN postings |-> postings[i].base], S)
Residual(postings) == SumBase(postings, DOMAIN postings)

On(postings, a) == {i \in DOMAIN postings : postings[i].account = a}
In(postings, currency) == {i \in DOMAIN postings : CurrencyOf[postings[i].account] = currency}

\* Mutant: the adjustment swallows a mistyped foreign amount.
HomeBalances(postings) == SumAmount(postings, In(postings, Home)) = 0

\* Within every transaction currency.
CurrenciesBalance(postings) ==
  \A i \in DOMAIN postings :
    SumAmount(postings, In(postings, CurrencyOf[postings[i].account])) = 0

\* appendFxAdjustment.
AppendFxAdjustment(postings) ==
  IF Residual(postings) = 0 THEN postings
  ELSE Append(postings, [account |-> FxAccount, amount |-> -Residual(postings),
                         base |-> -Residual(postings)])

\* validateDraft.
IsValid(postings) ==
  /\ Len(postings) >= 2
  /\ \A i \in DOMAIN postings :
       /\ postings[i].amount # 0 \/ postings[i].base # 0
       /\ On(postings, postings[i].account) = {i}
       /\ Storable(postings[i].amount) /\ Storable(postings[i].base)
  /\ Residual(postings) = 0

\* What postEntry makes of a request before it writes anything.
Drafted(r) ==
  LET resolved == ResolveBaseAmounts(r.lines, r.currency)
  IN  IF r.fxAdjustment THEN AppendFxAdjustment(resolved) ELSE resolved

MayDraft(r) ==
  /\ \A i \in DOMAIN r.lines : Resolvable(r.lines[i], r.currency)
  /\ r.fxAdjustment => CurrenciesBalance(ResolveBaseAmounts(r.lines, r.currency))
  /\ IsValid(Drafted(r))

=============================================================================
