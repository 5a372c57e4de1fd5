--------------------------------- MODULE Bank -------------------------------
(***************************************************************************)
(* The bank's statement beside the books (bank.ts, domain/bank.ts, 0035):  *)
(* imports, matches and their undoing, and entries recorded from a line,   *)
(* for one account in one currency.  A session is one READ COMMITTED       *)
(* transaction; matchSuggested is a chain of them, over what it read at    *)
(* the start.  A line stands for its fingerprint and what it was made of.  *)
(***************************************************************************)
EXTENDS Integers, Sequences, SequencesExt, FiniteSetsExt

CONSTANTS Line, AmountOf, DayOf,   \* what a statement may say
          BalanceOf,               \* the bank's running balance, where a line has one
          File,                    \* imports: lines in the order of the file or feed
          Booking,                 \* entries that others post: amount, day, status
          Window,                  \* MATCH_WINDOW_DAYS
          Session, Op,
          MaxPostings, MaxMatches, MaxImports

ASSUME BankAssumption ==
  /\ AmountOf \in [Line -> Int \ {0}] /\ DayOf \in [Line -> Nat]
  /\ BalanceOf \in [Line -> SUBSET Int]
  /\ \A f \in File : f \in Seq(Line)
  /\ Booking \subseteq [amount : Int, day : Nat, status : {"posted", "pending"}]
  /\ Op \subseteq {"import", "match", "unmatch", "record", "suggested"}
  /\ Window \in Nat /\ {MaxPostings, MaxMatches, MaxImports} \subseteq Nat

VARIABLES lines,      \* bank_lines
          postings,   \* those on the account, with the line each was recorded from
          matches,    \* bank_matches
          imports,    \* bank_imports
          pc, op,
          load,       \* the file being imported
          pairs       \* the line and posting to match, and those to match next

bankVars == <<lines, postings, matches, imports, pc, op, load, pairs>>

\* The rows still to insert and those inserted; what the import will say it added.
NoLoad == [file |-> <<>>, rows |-> <<>>, fresh |-> {}, added |-> 0]

NoPosting == 0            \* the posting a record is about to write
Pair(l, p) == [line |-> l, posting |-> p]

Init ==
  /\ lines = {} /\ postings = <<>> /\ matches = <<>> /\ imports = <<>>
  /\ pc = [s \in Session |-> "idle"]
  /\ op = [s \in Session |-> "none"]
  /\ load = [s \in Session |-> NoLoad]
  /\ pairs = [s \in Session |-> <<>>]

LiveMatches == {m \in DOMAIN matches : matches[m].live}
MatchedLines == {matches[m].line : m \in LiveMatches}
MatchedPostings == {matches[m].posting : m \in LiveMatches}
Posted == {p \in DOMAIN postings : postings[p].status = "posted"}

Goto(s, where) == pc' = [pc EXCEPT ![s] = where]
KeepBooks == UNCHANGED <<lines, postings, matches, imports>>

Finish(s) ==
  /\ Goto(s, "idle")
  /\ op' = [op EXCEPT ![s] = "none"]
  /\ load' = [load EXCEPT ![s] = NoLoad]
  /\ pairs' = [pairs EXCEPT ![s] = <<>>]

\* matchSuggested goes on to its next suggestion, whatever became of this one.
Answer(s) ==
  IF Len(pairs[s]) > 1
  THEN /\ Goto(s, "lock")
       /\ pairs' = [pairs EXCEPT ![s] = Tail(@)]
       /\ UNCHANGED <<op, load>>
  ELSE Finish(s)

Refuse(s) == Answer(s) /\ KeepBooks

\* An error that is thrown ends the chain too; and so does a crash.
Fail(s) == Finish(s) /\ KeepBooks

(***************************************************************************)
(* Entries posted and settled by others.                                   *)
(***************************************************************************)
Written == Len(postings) + Cardinality({s \in Session : op[s] = "record"})

Post ==
  /\ Written < MaxPostings
  /\ \E b \in Booking :
       postings' = Append(postings, [amount |-> b.amount, day |-> b.day,
                                     status |-> b.status, from |-> {}])
  /\ UNCHANGED <<lines, matches, imports, pc, op, load, pairs>>

RoomToMatch ==
  Len(matches) + Cardinality({s \in Session : op[s] \in {"match", "record"}}) < MaxMatches

\* A pending entry settles.
Settle ==
  /\ \E p \in DOMAIN postings \ Posted : postings' = [postings EXCEPT ![p].status = "posted"]
  /\ UNCHANGED <<lines, matches, imports, pc, op, load, pairs>>

(***************************************************************************)
(* Suggestions.                                                            *)
(***************************************************************************)
Apart(l, p) ==
  LET d == DayOf[l] - postings[p].day IN IF d < 0 THEN -d ELSE d

OpenLines == lines \ MatchedLines

\* openPostings: posted and unmatched, from some days before a line on, if there is one.
FirstDay == IF lines = {} THEN {} ELSE {Min({DayOf[l] : l \in lines})}
OpenPostings(from, lookback) ==
  {p \in Posted \ MatchedPostings : \E d \in from : postings[p].day >= d - lookback}

Candidates(l) ==
  {p \in OpenPostings(FirstDay, Window) : postings[p].amount = AmountOf[l] /\ Apart(l, p) <= Window}

\* The nearest of the candidates, if one is nearer than the others.
BestPosting(l) ==
  {p \in Candidates(l) : \A q \in Candidates(l) \ {p} : Apart(l, p) < Apart(l, q)}
BestLine(p) ==
  LET close == {l \in OpenLines : p \in Candidates(l)}
  IN  {l \in close : \A k \in close \ {l} : Apart(l, p) < Apart(k, p)}

\* Mutant: a posting is proposed to every line it is the nearest of.
Nearest == UNION {{Pair(l, p) : p \in BestPosting(l)} : l \in OpenLines}

\* Each the other's nearest.
Suggested == {m \in Nearest : m.line \in BestLine(m.posting)}

BeginSuggested(s) ==
  /\ pc[s] = "idle" /\ "suggested" \in Op /\ RoomToMatch /\ Suggested # {}
  /\ pairs' = [pairs EXCEPT ![s] = SetToSeq(Suggested)]
  /\ op' = [op EXCEPT ![s] = "match"]
  /\ Goto(s, "lock")
  /\ UNCHANGED <<load>> /\ KeepBooks

(***************************************************************************)
(* match, and record, which writes the posting it matches.                 *)
(***************************************************************************)
Begin(s) ==
  /\ pc[s] = "idle" /\ RoomToMatch
  /\ \/ /\ "match" \in Op /\ op' = [op EXCEPT ![s] = "match"]
        /\ \E l \in lines, p \in DOMAIN postings :
             pairs' = [pairs EXCEPT ![s] = <<Pair(l, p)>>]
     \/ /\ "record" \in Op /\ op' = [op EXCEPT ![s] = "record"]
        /\ Written < MaxPostings
        /\ \E l \in lines : pairs' = [pairs EXCEPT ![s] = <<Pair(l, NoPosting)>>]
  /\ Goto(s, "lock")
  /\ UNCHANGED <<load>> /\ KeepBooks

This(s) == Head(pairs[s])

HoldsLine(s) == pc[s] \in {"look", "insert", "commit"} /\ op[s] \in {"match", "record"}

\* SELECT ... FOR UPDATE of the line.
LockLine(s) ==
  /\ pc[s] = "lock"
  /\ \A t \in Session \ {s} : HoldsLine(t) => This(t).line # This(s).line
  /\ Goto(s, "look")
  /\ UNCHANGED <<op, load, pairs>> /\ KeepBooks

\* Another amount, a line or a posting already matched.
MayMatch(l, p) ==
  postings[p].amount = AmountOf[l] /\ l \notin MatchedLines /\ p \notin MatchedPostings

MayRecord(l) == l \notin MatchedLines

Passes(s) ==
  IF op[s] = "record" THEN MayRecord(This(s).line) ELSE MayMatch(This(s).line, This(s).posting)

Look(s) ==
  /\ pc[s] = "look" /\ Passes(s)
  /\ Goto(s, "insert")
  /\ UNCHANGED <<op, load, pairs>> /\ KeepBooks

LookRefused(s) == pc[s] = "look" /\ ~Passes(s) /\ Refuse(s)

\* Whose uncommitted match or unmatching of the same line or posting is waited
\* for: the unique indexes over live matches.
Unmatching(t) == pc[t] = "commit" /\ op[t] = "unmatch"
Inserting(t) == pc[t] = "commit" /\ op[t] \in {"match", "record"}
Same(m, n) == m.line = n.line \/ (m.posting = n.posting /\ m.posting # NoPosting)
Rivals(s) ==
  {t \in Session \ {s} : (Unmatching(t) \/ Inserting(t)) /\ Same(This(s), This(t))}

\* Mutant: no unique index over the postings.
LineIsFree(m) == m.line \notin MatchedLines /\ (m.posting = NoPosting \/ m.posting \in Posted)

\* The unique indexes, and the trigger: the same amount, of a posted entry.
Accepted(m) ==
  /\ m.line \notin MatchedLines
  /\ m.posting # NoPosting =>
       /\ m.posting \in Posted \ MatchedPostings
       /\ postings[m.posting].amount = AmountOf[m.line]

InsertMatch(s) ==
  /\ pc[s] = "insert" /\ Rivals(s) = {} /\ Accepted(This(s))
  /\ Goto(s, "commit")
  /\ UNCHANGED <<op, load, pairs>> /\ KeepBooks

InsertRefused(s) == pc[s] = "insert" /\ Rivals(s) = {} /\ ~Accepted(This(s)) /\ Fail(s)

\* Mutant: the entry of a record commits before its match.
RecordedApart(s) == matches

\* The match, of the posting written with it for a record.
Matched(s) ==
  LET p == IF op[s] = "record" THEN Len(postings) + 1 ELSE This(s).posting
  IN  Append(matches, [line |-> This(s).line, posting |-> p, live |-> TRUE])

CommitMatch(s) ==
  /\ Inserting(s)
  /\ matches' = Matched(s)
  /\ postings' = IF op[s] = "match" THEN postings
                 ELSE Append(postings, [amount |-> AmountOf[This(s).line],
                                        day |-> DayOf[This(s).line],
                                        status |-> "posted", from |-> {This(s).line}])
  /\ Answer(s)
  /\ UNCHANGED <<lines, imports>>

(***************************************************************************)
(* unmatch: one UPDATE of the live match of a line.                        *)
(***************************************************************************)
BeginUnmatch(s) ==
  /\ pc[s] = "idle" /\ "unmatch" \in Op
  /\ \E m \in LiveMatches :
       pairs' = [pairs EXCEPT ![s] = <<Pair(matches[m].line, matches[m].posting)>>]
  /\ op' = [op EXCEPT ![s] = "unmatch"]
  /\ Goto(s, "update")
  /\ UNCHANGED <<load>> /\ KeepBooks

LiveOf(s) == {m \in LiveMatches : matches[m].line = This(s).line}

\* The row is judged again once another's change of it is over.
Update(s) ==
  /\ pc[s] = "update"
  /\ \A t \in Session \ {s} : Unmatching(t) => This(t).line # This(s).line
  /\ \E m \in LiveOf(s) : pairs' = [pairs EXCEPT ![s] = <<Pair(This(s).line, matches[m].posting)>>]
  /\ Goto(s, "commit")
  /\ UNCHANGED <<op, load>> /\ KeepBooks

UpdateNothing(s) == pc[s] = "update" /\ LiveOf(s) = {} /\ Refuse(s)

CommitUnmatch(s) ==
  /\ Unmatching(s)
  /\ matches' = [m \in DOMAIN matches |-> IF m \in LiveOf(s) THEN [matches[m] EXCEPT !.live = FALSE]
                                                            ELSE matches[m]]
  /\ Finish(s)
  /\ UNCHANGED <<lines, postings, imports>>

(***************************************************************************)
(* importFile and feed.                                                    *)
(***************************************************************************)
\* Mutant: a row that another is about to add is known already.
KnownSoon == lines \cup UNION {load[t].fresh : t \in Session}

\* knownFingerprints.
Known == lines

\* The rows of a file that are not known, in its order.
Unknown(f) ==
  LET new == {i \in DOMAIN f : f[i] \notin Known}
  IN  [n \in 1..Cardinality(new) |->
         f[CHOOSE i \in new : Cardinality({j \in new : j <= i}) = n]]

BeginImport(s) ==
  /\ pc[s] = "idle" /\ "import" \in Op
  /\ Len(imports) + Cardinality({t \in Session : op[t] = "import"}) < MaxImports
  /\ \E f \in File :
       load' = [load EXCEPT ![s] = [file |-> f, rows |-> Unknown(f), fresh |-> {},
                                    added |-> Cardinality(ToSet(Unknown(f)))]]
  /\ op' = [op EXCEPT ![s] = "import"]
  /\ Goto(s, "store")
  /\ UNCHANGED pairs /\ KeepBooks

\* Who is inserting the row an import comes to next.
InTheWay(s) ==
  {t \in Session \ {s} : pc[s] = "store" /\ load[s].rows # <<>> /\ Head(load[s].rows) \in load[t].fresh}

\* ON CONFLICT DO NOTHING, row by row: a row another is inserting is waited for.
StoreRow(s) ==
  /\ pc[s] = "store" /\ load[s].rows # <<>>
  /\ InTheWay(s) = {}
  /\ load' = [load EXCEPT ![s].rows = Tail(@),
                          ![s].fresh = @ \cup ({Head(load[s].rows)} \ lines)]
  /\ UNCHANGED <<pc, op, pairs>> /\ KeepBooks

CommitImport(s) ==
  /\ pc[s] = "store" /\ load[s].rows = <<>>
  /\ lines' = lines \cup load[s].fresh
  /\ imports' = Append(imports, [file |-> load[s].file, added |-> load[s].added,
                                 stored |-> Cardinality(load[s].fresh)])
  /\ Finish(s)
  /\ UNCHANGED <<postings, matches>>

\* Two files with the same lines in another order: Postgres's detector fails one
\* of a circle.
DeadlockVictim(s) ==
  /\ \E circle \in SUBSET Session : s \in circle /\ \A t \in circle : InTheWay(t) \cap circle # {}
  /\ Fail(s)

Abort(s) == pc[s] # "idle" /\ Fail(s)

Step(s) ==
  \/ Begin(s) \/ BeginSuggested(s) \/ LockLine(s) \/ Look(s) \/ LookRefused(s)
  \/ InsertMatch(s) \/ InsertRefused(s) \/ CommitMatch(s)
  \/ BeginUnmatch(s) \/ Update(s) \/ UpdateNothing(s) \/ CommitUnmatch(s)
  \/ BeginImport(s) \/ StoreRow(s) \/ CommitImport(s) \/ DeadlockVictim(s)
  \/ Abort(s)

Next == Post \/ Settle \/ \E s \in Session : Step(s)

Spec == Init /\ [][Next]_bankVars

(***************************************************************************)
(* Properties.                                                             *)
(***************************************************************************)
\* "Every line, or none": whatever a file that was imported contains is on the
\* statement, though another import that was adding some of it failed.
ImportsAreWhole == \A i \in DOMAIN imports : ToSet(imports[i].file) \subseteq lines

\* An entry recorded from a line is matched to it "in the same transaction, so the
\* two cannot disagree" (ADR 25); and the books hear of a line once, until its
\* match is undone.
RecordedOnce ==
  \A l \in lines :
    LET recorded == {p \in DOMAIN postings : l \in postings[p].from}
    IN  /\ \A p \in recorded :
             \E m \in DOMAIN matches : matches[m].line = l /\ matches[m].posting = p
        /\ Cardinality(recorded) <=
             1 + Cardinality({m \in DOMAIN matches : matches[m].line = l /\ ~matches[m].live})

\* "Two identical transfers on the same day are left for a person to pair": no
\* posting is proposed for two lines, and no line for two postings.
SuggestionsPair ==
  \A m, n \in Suggested : Same(m, n) => m = n

\* What an import says it added is what it added.
AddedAsRecorded == \A i \in DOMAIN imports : imports[i].added = imports[i].stored

=============================================================================
