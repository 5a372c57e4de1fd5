----------------------------- MODULE BankProofs -----------------------------
(***************************************************************************)
(* An entry recorded from a line is matched to it, and a line is in the    *)
(* books once until its match is undone, for every set of lines, files,    *)
(* sessions and bookings.  The lock of a line is what the service relies   *)
(* on: nobody else matches the line between the look and the commit.       *)
(* Then the imports, which leave the whole of a file on the statement; the *)
(* suggestions, which pair a line with one posting; and the reconciliation *)
(* as it is read, whose lists explain what the matches leave.              *)
(***************************************************************************)
EXTENDS Reconciliation, Sums, SequenceTheorems, TLAPS

\* A sequence of whatever its elements are.
IsSequence(q) == q \in Seq({q[n] : n \in DOMAIN q})

IsPosting(p) == p = [amount |-> p.amount, day |-> p.day, status |-> p.status, from |-> p.from]
IsMatch(m) == m = [line |-> m.line, posting |-> m.posting, live |-> m.live] /\ m.live \in BOOLEAN

Rows ==
  /\ IsSequence(postings) /\ \A p \in DOMAIN postings : IsPosting(postings[p])
  /\ IsSequence(matches) /\ \A m \in DOMAIN matches : IsMatch(matches[m])

SessionTypes ==
  /\ DOMAIN pc = Session /\ pc = [s \in Session |-> pc[s]]
  /\ DOMAIN op = Session /\ op = [s \in Session |-> op[s]]
  /\ DOMAIN pairs = Session /\ pairs = [s \in Session |-> pairs[s]]

\* A line has one holder.
LocksExclude == \A s, t \in Session :
  s # t /\ HoldsLine(s) /\ HoldsLine(t) => This(s).line # This(t).line

\* What is about to commit is still unmatched; only unmatch updates.
Commits == \A s \in Session :
  /\ Inserting(s) => This(s).line \notin MatchedLines
  /\ pc[s] = "update" => op[s] = "unmatch"

\* One live match for a line.
LiveOnce == \A m, n \in LiveMatches : matches[m].line = matches[n].line => m = n

\* What was recorded from a line was matched to it.
Backed == \A p \in DOMAIN postings : \A l \in postings[p].from :
  \E m \in DOMAIN matches : matches[m].line = l /\ matches[m].posting = p

Inv == Rows /\ SessionTypes /\ LocksExclude /\ Commits /\ LiveOnce /\ Backed

(***************************************************************************)
(* Sequences.                                                              *)
(***************************************************************************)
LEMMA AppendIsSequence ==
  ASSUME NEW q, IsSequence(q), NEW x
  PROVE  /\ IsSequence(Append(q, x))
         /\ DOMAIN Append(q, x) = 1..(Len(q) + 1) /\ DOMAIN q = 1..Len(q) /\ Len(q) \in Nat
         /\ Append(q, x)[Len(q) + 1] = x
         /\ \A n \in DOMAIN q : Append(q, x)[n] = q[n]
<1> DEFINE S == {q[n] : n \in DOMAIN q} \cup {x}
           r == Append(q, x)
<1>1. q \in Seq(S)
  BY DEF IsSequence
<1> HIDE DEF S
<1>2. x \in S
  BY DEF S
<1>3. /\ r \in Seq(S) /\ DOMAIN r = 1..(Len(q) + 1) /\ DOMAIN q = 1..Len(q) /\ Len(q) \in Nat
      /\ r[Len(q) + 1] = x /\ \A n \in DOMAIN q : r[n] = q[n]
  BY <1>1, <1>2
<1>4. r \in Seq({r[n] : n \in DOMAIN r})
  BY <1>3
<1> QED BY <1>3, <1>4 DEF IsSequence

\* A function over the places of a sequence is one.
LEMMA SamePlaces ==
  ASSUME NEW q, IsSequence(q), NEW r, r = [n \in DOMAIN q |-> r[n]]
  PROVE  IsSequence(r)
<1> DEFINE S == {r[n] : n \in DOMAIN r}
<1>1. DOMAIN q = 1..Len(q) /\ Len(q) \in Nat
  BY DEF IsSequence
<1>2. DOMAIN r = 1..Len(q)
  BY <1>1
<1>3. r = [n \in 1..Len(q) |-> r[n]]
  BY <1>1
<1>4. \A n \in 1..Len(q) : r[n] \in S
  BY <1>2
<1> HIDE DEF S
<1>5. r \in [1..Len(q) -> S]
  BY <1>3, <1>4
<1>6. r \in Seq(S)
  BY <1>1, <1>5, SeqDef
<1> QED BY <1>6 DEF S, IsSequence

LEMMA InvInit == Init => Inv
<1> SUFFICES ASSUME Init PROVE Inv
  OBVIOUS
<1>1. Rows /\ LiveOnce /\ Backed
  BY DEF Init, Rows, IsSequence, LiveOnce, LiveMatches, Backed
<1>2. SessionTypes /\ LocksExclude /\ Commits
  BY DEF Init, SessionTypes, LocksExclude, HoldsLine, Commits, Inserting
<1> QED BY <1>1, <1>2 DEF Inv

(***************************************************************************)
(* Steps that leave the line of a session, or never had one.               *)
(***************************************************************************)
Elsewhere(s) == \A t \in Session \ {s} :
  pc'[t] = pc[t] /\ op'[t] = op[t] /\ pairs'[t] = pairs[t]

\* The session holds no line afterwards.
Free(s) ==
  /\ SessionTypes' /\ Elsewhere(s)
  /\ pc'[s] \notin {"look", "insert", "commit", "update"}

LEMMA FinishFrees ==
  ASSUME SessionTypes, NEW s \in Session, Finish(s)
  PROVE  Free(s)
BY DEF Finish, Goto, Free, Elsewhere, SessionTypes

LEMMA AnswerFrees ==
  ASSUME SessionTypes, NEW s \in Session, Answer(s)
  PROVE  Free(s)
<1>1. CASE Len(pairs[s]) > 1
  BY <1>1 DEF Answer, Goto, Free, Elsewhere, SessionTypes
<1>2. CASE ~(Len(pairs[s]) > 1)
  BY <1>2, FinishFrees DEF Answer
<1> QED BY <1>1, <1>2

LEMMA FreeKeepsLocks ==
  ASSUME LocksExclude, NEW s \in Session, Free(s)
  PROVE  LocksExclude'
BY DEF LocksExclude, HoldsLine, This, Free, Elsewhere

\* Nobody is let in where nothing new is matched.
LEMMA FreeKeepsCommits ==
  ASSUME Commits, NEW s \in Session, Free(s), MatchedLines' \subseteq MatchedLines
  PROVE  Commits'
BY DEF Commits, Inserting, This, Free, Elsewhere

LEMMA BooksStand ==
  ASSUME Rows, LiveOnce, Backed, UNCHANGED <<postings, matches>>
  PROVE  Rows' /\ LiveOnce' /\ Backed' /\ MatchedLines' = MatchedLines
BY DEF Rows, LiveOnce, Backed, LiveMatches, MatchedLines

LEMMA FreeKeeps ==
  ASSUME Inv, NEW s \in Session, Free(s), UNCHANGED <<postings, matches>>
  PROVE  Inv'
BY BooksStand, FreeKeepsLocks, FreeKeepsCommits DEF Inv, Free

\* A session that asks, is refused, stores rows or crashes.
LEMMA AskKeeps ==
  ASSUME Inv, NEW s \in Session,
         Begin(s) \/ BeginSuggested(s) \/ BeginImport(s) \/ LookRefused(s) \/ InsertRefused(s)
           \/ UpdateNothing(s) \/ CommitImport(s) \/ DeadlockVictim(s) \/ Abort(s)
  PROVE  Inv'
<1>1. ASSUME Begin(s) \/ BeginSuggested(s) \/ BeginImport(s)
      PROVE  Free(s) /\ UNCHANGED <<postings, matches>>
  BY <1>1 DEF Begin, BeginSuggested, BeginImport, Goto, KeepBooks, Inv, SessionTypes,
              Free, Elsewhere
<1>2. ASSUME LookRefused(s) \/ InsertRefused(s) \/ UpdateNothing(s) \/ CommitImport(s)
               \/ DeadlockVictim(s) \/ Abort(s)
      PROVE  Free(s) /\ UNCHANGED <<postings, matches>>
  BY <1>2, FinishFrees, AnswerFrees
     DEF LookRefused, InsertRefused, UpdateNothing, CommitImport, DeadlockVictim, Abort,
         Refuse, Fail, KeepBooks, Inv
<1> QED BY <1>1, <1>2, FreeKeeps

\* Undoing is asked for: the update comes next.
LEMMA BeginUnmatchKeeps ==
  ASSUME Inv, NEW s \in Session, BeginUnmatch(s)
  PROVE  Inv'
<1>1. /\ SessionTypes' /\ Elsewhere(s) /\ pc'[s] = "update" /\ op'[s] = "unmatch"
      /\ UNCHANGED <<postings, matches>>
  BY DEF BeginUnmatch, Goto, KeepBooks, Inv, SessionTypes, Elsewhere
<1>2. Rows' /\ LiveOnce' /\ Backed' /\ MatchedLines' = MatchedLines
  BY <1>1, BooksStand DEF Inv
<1>3. LocksExclude' /\ Commits'
  BY <1>1, <1>2 DEF Inv, LocksExclude, HoldsLine, Commits, Inserting, This, Elsewhere
<1> QED BY <1>1, <1>2, <1>3 DEF Inv

\* The line is locked: nobody else held it.
LEMMA LockLineKeeps ==
  ASSUME Inv, NEW s \in Session, LockLine(s)
  PROVE  Inv'
<1>1. /\ SessionTypes' /\ Elsewhere(s) /\ pc'[s] = "look" /\ UNCHANGED <<op, pairs, postings, matches>>
  BY DEF LockLine, Goto, KeepBooks, Inv, SessionTypes, Elsewhere
<1>2. Rows' /\ LiveOnce' /\ Backed' /\ MatchedLines' = MatchedLines
  BY <1>1, BooksStand DEF Inv
<1>3. \A t \in Session \ {s} : HoldsLine(t) => This(t).line # This(s).line
  BY DEF LockLine
<1>4. LocksExclude'
  BY <1>1, <1>3 DEF Inv, LocksExclude, HoldsLine, This, Elsewhere
<1>5. Commits'
  BY <1>1, <1>2 DEF Inv, Commits, Inserting, This, Elsewhere
<1> QED BY <1>1, <1>2, <1>4, <1>5 DEF Inv

\* With the lock held, the line is looked at and the match inserted; the index
\* refuses a line that is matched.
LEMMA HolderKeeps ==
  ASSUME Inv, NEW s \in Session, Look(s) \/ InsertMatch(s)
  PROVE  Inv'
<1>1. /\ SessionTypes' /\ Elsewhere(s) /\ UNCHANGED <<op, pairs, postings, matches>>
      /\ pc[s] \in {"look", "insert"} /\ pc'[s] \in {"insert", "commit"}
      /\ pc'[s] = "commit" => This(s).line \notin MatchedLines
  BY DEF Look, InsertMatch, Accepted, Goto, KeepBooks, Inv, SessionTypes, Elsewhere
<1>2. Rows' /\ LiveOnce' /\ Backed' /\ MatchedLines' = MatchedLines
  BY <1>1, BooksStand DEF Inv
<1>3. LocksExclude'
  BY <1>1 DEF Inv, LocksExclude, HoldsLine, This, Elsewhere
<1>4. Commits'
  BY <1>1, <1>2 DEF Inv, Commits, Inserting, This, Elsewhere
<1> QED BY <1>1, <1>2, <1>3, <1>4 DEF Inv

\* The row of a live match is updated.
LEMMA UpdateKeeps ==
  ASSUME Inv, NEW s \in Session, Update(s)
  PROVE  Inv'
<1>1. /\ SessionTypes' /\ Elsewhere(s) /\ UNCHANGED <<op, postings, matches>>
      /\ pc'[s] = "commit" /\ op[s] = "unmatch"
  BY DEF Update, Goto, KeepBooks, Inv, SessionTypes, Commits, Elsewhere
<1>2. Rows' /\ LiveOnce' /\ Backed' /\ MatchedLines' = MatchedLines
  BY <1>1, BooksStand DEF Inv
<1>3. LocksExclude' /\ Commits'
  BY <1>1, <1>2 DEF Inv, LocksExclude, HoldsLine, Commits, Inserting, This, Elsewhere
<1> QED BY <1>1, <1>2, <1>3 DEF Inv

LEMMA StoreRowKeeps ==
  ASSUME Inv, NEW s \in Session, StoreRow(s)
  PROVE  Inv'
<1>1. UNCHANGED <<pc, op, pairs, postings, matches>>
  BY DEF StoreRow, KeepBooks
<1>2. Rows' /\ LiveOnce' /\ Backed' /\ MatchedLines' = MatchedLines
  BY <1>1, BooksStand DEF Inv
<1>3. SessionTypes' /\ LocksExclude' /\ Commits'
  BY <1>1, <1>2 DEF Inv, SessionTypes, LocksExclude, HoldsLine, Commits, Inserting, This
<1> QED BY <1>2, <1>3 DEF Inv

(***************************************************************************)
(* Steps that write the books.                                             *)
(***************************************************************************)
\* Others post and settle; no line is named.
LEMMA OthersKeep ==
  ASSUME Inv, Post \/ Settle
  PROVE  Inv'
<1>1. UNCHANGED <<pc, op, pairs, matches>>
  BY DEF Post, Settle
<1>2. SessionTypes' /\ LocksExclude' /\ Commits' /\ LiveOnce'
  BY <1>1 DEF Inv, SessionTypes, LocksExclude, HoldsLine, Commits, Inserting, This,
              LiveOnce, LiveMatches, MatchedLines
<1>3. Rows' /\ Backed'
  <2>1. CASE Post
    <3>1. PICK b \in Booking : postings' = Append(postings,
            [amount |-> b.amount, day |-> b.day, status |-> b.status, from |-> {}])
      BY <2>1 DEF Post
    <3> DEFINE new == [amount |-> b.amount, day |-> b.day, status |-> b.status, from |-> {}]
    <3>2. /\ IsSequence(postings') /\ DOMAIN postings' = DOMAIN postings \cup {Len(postings) + 1}
          /\ postings'[Len(postings) + 1] = new
          /\ \A n \in DOMAIN postings : postings'[n] = postings[n]
      BY <3>1, AppendIsSequence DEF Inv, Rows
    <3>3. IsPosting(new) /\ new.from = {}
      BY DEF IsPosting
    <3> HIDE DEF new
    <3> QED BY <1>1, <3>2, <3>3 DEF Inv, Rows, Backed
  <2>2. CASE Settle
    <3>1. PICK p \in DOMAIN postings \ Posted : postings' = [postings EXCEPT ![p].status = "posted"]
      BY <2>2 DEF Settle
    <3>2. /\ DOMAIN postings' = DOMAIN postings
          /\ postings' = [n \in DOMAIN postings |-> postings'[n]]
          /\ \A n \in DOMAIN postings \ {p} : postings'[n] = postings[n]
          /\ postings'[p] = [postings[p] EXCEPT !.status = "posted"]
      BY <3>1 DEF Inv, Rows, IsSequence
    <3>3. IsPosting(postings'[p]) /\ postings'[p].from = postings[p].from
      BY <3>2 DEF Inv, Rows, IsPosting
    <3>4. IsSequence(postings')
      BY <3>2, SamePlaces DEF Inv, Rows
    <3>5. \A n \in DOMAIN postings :
            IsPosting(postings'[n]) /\ postings'[n].from = postings[n].from
      BY <3>2, <3>3 DEF Inv, Rows
    <3>6. Rows'
      BY <1>1, <3>2, <3>4, <3>5 DEF Inv, Rows
    <3>7. Backed'
      BY <1>1, <3>2, <3>5 DEF Inv, Backed
    <3> QED BY <3>6, <3>7
  <2> QED BY <2>1, <2>2
<1> QED BY <1>2, <1>3 DEF Inv

\* A match commits, with the entry it was recorded with: the line had no live
\* match, and the lock keeps the other holders to other lines.
LEMMA CommitMatchKeeps ==
  ASSUME Inv, NEW s \in Session, CommitMatch(s)
  PROVE  Inv'
<1> DEFINE l == This(s).line
           p == IF op[s] = "record" THEN Len(postings) + 1 ELSE This(s).posting
           new == [line |-> l, posting |-> p, live |-> TRUE]
           last == Len(matches) + 1
<1>1. /\ IsSequence(matches') /\ DOMAIN matches' = DOMAIN matches \cup {last}
      /\ last \notin DOMAIN matches
      /\ matches'[last] = new /\ \A m \in DOMAIN matches : matches'[m] = matches[m]
  BY AppendIsSequence DEF CommitMatch, Matched, Inv, Rows
<1>2. IsMatch(new) /\ new.line = l /\ new.posting = p /\ new.live
  BY DEF IsMatch
<1>3. Inserting(s) /\ l \notin MatchedLines /\ Free(s)
  BY AnswerFrees DEF CommitMatch, Inv, Commits
<1> HIDE DEF new
<1>4. LiveMatches' = LiveMatches \cup {last} /\ MatchedLines' = MatchedLines \cup {l}
  BY <1>1, <1>2 DEF LiveMatches, MatchedLines
<1>5. LiveOnce'
  BY <1>1, <1>2, <1>3, <1>4 DEF Inv, LiveOnce, LiveMatches, MatchedLines
<1>6. Rows' /\ Backed'
  <2>1. CASE op[s] = "match"
    <3>1. postings' = postings
      BY <2>1 DEF CommitMatch
    <3> QED BY <1>1, <1>2, <3>1 DEF Inv, Rows, Backed
  <2>2. CASE op[s] # "match"
    <3> DEFINE row == [amount |-> AmountOf[l], day |-> DayOf[l], status |-> "posted", from |-> {l}]
    <3>1. op[s] = "record"
      BY <1>3, <2>2 DEF Inserting
    <3>2. postings' = Append(postings, row)
      BY <2>2 DEF CommitMatch
    <3>3. /\ IsSequence(postings') /\ DOMAIN postings' = DOMAIN postings \cup {Len(postings) + 1}
          /\ postings'[Len(postings) + 1] = row
          /\ \A n \in DOMAIN postings : postings'[n] = postings[n]
      BY <3>2, AppendIsSequence DEF Inv, Rows
    <3>4. IsPosting(row) /\ row.from = {l}
      BY DEF IsPosting
    <3>5. p = Len(postings) + 1
      BY <3>1
    <3> HIDE DEF row, p, l
    <3>6. Rows'
      BY <1>1, <1>2, <3>3, <3>4 DEF Inv, Rows
    <3>7. Backed'
      BY <1>1, <1>2, <3>3, <3>4, <3>5 DEF Inv, Backed
    <3> QED BY <3>6, <3>7
  <2> QED BY <2>1, <2>2
<1>7. \A t \in Session \ {s} : Inserting(t) => This(t).line # l
  BY <1>3 DEF Inv, LocksExclude, HoldsLine, Inserting
<1>8. Commits'
  BY <1>3, <1>4, <1>7 DEF Inv, Commits, Inserting, This, Free, Elsewhere
<1> QED BY <1>3, <1>5, <1>6, <1>8, FreeKeepsLocks DEF Inv, Free

\* A match is undone and stays as a row.
LEMMA CommitUnmatchKeeps ==
  ASSUME Inv, NEW s \in Session, CommitUnmatch(s)
  PROVE  Inv'
<1>1. /\ DOMAIN matches' = DOMAIN matches /\ matches' = [m \in DOMAIN matches |-> matches'[m]]
      /\ \A m \in DOMAIN matches :
           matches'[m] = IF m \in LiveOf(s) THEN [matches[m] EXCEPT !.live = FALSE] ELSE matches[m]
      /\ UNCHANGED postings
  BY DEF CommitUnmatch
<1>2. \A m \in DOMAIN matches :
        /\ IsMatch(matches'[m]) /\ matches'[m].line = matches[m].line
        /\ matches'[m].posting = matches[m].posting
        /\ matches'[m].live => matches[m].live
  BY <1>1 DEF Inv, Rows, IsMatch
<1>3. IsSequence(matches')
  BY <1>1, SamePlaces DEF Inv, Rows
<1>4. LiveMatches' \subseteq LiveMatches /\ MatchedLines' \subseteq MatchedLines
  BY <1>1, <1>2 DEF LiveMatches, MatchedLines
<1>5. Rows' /\ LiveOnce' /\ Backed'
  BY <1>1, <1>2, <1>3, <1>4 DEF Inv, Rows, LiveOnce, LiveMatches, Backed
<1>6. Free(s)
  BY FinishFrees DEF CommitUnmatch, Inv
<1> QED BY <1>4, <1>5, <1>6, FreeKeepsLocks, FreeKeepsCommits DEF Inv, Free

LEMMA InvNext == Inv /\ [Next]_bankVars => Inv'
<1> SUFFICES ASSUME Inv, [Next]_bankVars PROVE Inv'
  OBVIOUS
<1>1. CASE Post \/ Settle
  BY <1>1, OthersKeep
<1>2. ASSUME NEW s \in Session, Step(s) PROVE Inv'
  BY <1>2, AskKeeps, BeginUnmatchKeeps, LockLineKeeps, HolderKeeps, UpdateKeeps, StoreRowKeeps,
     CommitMatchKeeps, CommitUnmatchKeeps DEF Step
<1>3. CASE UNCHANGED bankVars
  <2>1. UNCHANGED <<pc, op, pairs, postings, matches>>
    BY <1>3 DEF bankVars
  <2>2. Rows' /\ LiveOnce' /\ Backed' /\ MatchedLines' = MatchedLines
    BY <2>1, BooksStand DEF Inv
  <2>3. SessionTypes' /\ LocksExclude' /\ Commits'
    BY <2>1, <2>2 DEF Inv, SessionTypes, LocksExclude, HoldsLine, Commits, Inserting, This
  <2> QED BY <2>2, <2>3 DEF Inv
<1> QED BY <1>1, <1>2, <1>3 DEF Next

\* The postings recorded from a line are among those its matches name, of which
\* one is live at most.
LEMMA MatchesCount ==
  ASSUME Inv PROVE RecordedOnce
<1> SUFFICES ASSUME NEW l \in lines
             PROVE  LET recorded == {p \in DOMAIN postings : l \in postings[p].from}
                    IN  /\ \A p \in recorded :
                             \E m \in DOMAIN matches : matches[m].line = l /\ matches[m].posting = p
                        /\ Cardinality(recorded) <=
                             1 + Cardinality({m \in DOMAIN matches : matches[m].line = l /\ ~matches[m].live})
  BY DEF RecordedOnce
<1> DEFINE recorded == {p \in DOMAIN postings : l \in postings[p].from}
           dead == {m \in DOMAIN matches : matches[m].line = l /\ ~matches[m].live}
           alive == {m \in DOMAIN matches : matches[m].line = l /\ matches[m].live}
           all == dead \cup alive
           named == {matches[m].posting : m \in all}
           naming == [m \in all |-> matches[m].posting]
<1>1. \A p \in recorded : \E m \in DOMAIN matches : matches[m].line = l /\ matches[m].posting = p
  BY DEF Inv, Backed
<1>2. recorded \subseteq named
  BY <1>1
<1>3. IsFiniteSet(dead) /\ IsFiniteSet(all)
  <2>1. IsFiniteSet(DOMAIN matches)
    <3>1. DOMAIN matches = 1..Len(matches) /\ Len(matches) \in Nat
      BY DEF Inv, Rows, IsSequence
    <3> QED BY <3>1, FS_Interval
  <2> QED BY <2>1, FS_Subset
<1>4. \A m, n \in alive : m = n
  BY DEF Inv, LiveOnce, LiveMatches
<1>5. Cardinality(all) <= 1 + Cardinality(dead)
  <2> HIDE DEF dead, alive
  <2>1. Cardinality(dead) \in Nat
    BY <1>3, FS_CardinalityType
  <2>2. CASE alive = {}
    BY <2>1, <2>2
  <2>3. ASSUME NEW m \in alive PROVE Cardinality(all) <= 1 + Cardinality(dead)
    <3>1. all = dead \cup {m}
      BY <1>4, <2>3
    <3>2. Cardinality(dead \cup {m}) = IF m \in dead THEN Cardinality(dead) ELSE Cardinality(dead) + 1
      BY <1>3, FS_AddElement
    <3> HIDE DEF all
    <3> QED BY <2>1, <3>1, <3>2
  <2> QED BY <2>2, <2>3
<1>6. IsFiniteSet(named) /\ Cardinality(named) <= Cardinality(all)
  <2>1. naming \in Surjection(all, named)
    BY DEF Surjection
  <2> QED BY <1>3, <2>1, FS_Surjection
<1>7. IsFiniteSet(recorded) /\ Cardinality(recorded) <= Cardinality(named)
  BY <1>2, <1>6, FS_Subset
<1>8. Cardinality(recorded) <= 1 + Cardinality(dead)
  <2> HIDE DEF recorded, dead, all, named
  <2>1. Cardinality(recorded) \in Nat /\ Cardinality(named) \in Nat /\ Cardinality(all) \in Nat
        /\ Cardinality(dead) \in Nat
    BY <1>3, <1>6, <1>7, FS_CardinalityType
  <2> QED BY <1>5, <1>6, <1>7, <2>1
<1> QED BY <1>1, <1>8

\* An entry recorded from a line of the statement is matched to it, and a line is
\* recorded again only after a match of it was undone, however many sessions
\* match, undo and record it at once, alone or down a list of suggestions.
THEOREM LinesAreRecordedOnce == Spec => []RecordedOnce
<1>1. Inv => RecordedOnce
  BY MatchesCount
<1> QED BY <1>1, InvInit, InvNext, PTL DEF Spec

(***************************************************************************)
(* The imports.  What is left of a file to store, what was stored of it and *)
(* what the statement has are together the file; a rival's row counts as   *)
(* stored only once the rival has committed.                               *)
(***************************************************************************)
Statement == lines \in SUBSET Line /\ IsFiniteSet(lines)

IsLoad(r) == /\ r = [file |-> r.file, rows |-> r.rows, fresh |-> r.fresh, added |-> r.added]
             /\ r.rows \in Seq(Line) /\ r.fresh \in SUBSET Line /\ IsFiniteSet(r.fresh)

Loads == /\ load = [s \in Session |-> load[s]]
         /\ \A s \in Session : IsLoad(load[s])

Carried == \A s \in Session : pc[s] = "store" =>
  ToSet(load[s].file) \subseteq lines \cup load[s].fresh \cup ToSet(load[s].rows)

ImportInv == Statement /\ Loads /\ Carried /\ IsSequence(imports) /\ ImportsAreWhole

LEMMA NoLoadIsLoad == IsLoad(NoLoad)
BY FS_EmptySet DEF IsLoad, NoLoad

LEMMA ImportInit == Init => ImportInv
<1> SUFFICES ASSUME Init PROVE ImportInv
  OBVIOUS
<1>1. Statement /\ Carried
  BY FS_EmptySet DEF Init, Statement, Carried
<1>2. Loads
  BY NoLoadIsLoad DEF Init, Loads
<1>3. IsSequence(imports) /\ ImportsAreWhole
  BY DEF Init, IsSequence, ImportsAreWhole
<1> QED BY <1>1, <1>2, <1>3 DEF ImportInv

\* Every row of a file is known, or among its unknown rows.
LEMMA UnknownCovers ==
  ASSUME NEW f \in Seq(Line)
  PROVE  Unknown(f) \in Seq(Line) /\ ToSet(f) \subseteq lines \cup ToSet(Unknown(f))
<1> DEFINE new == {i \in DOMAIN f : f[i] \notin Known}
           upto(i) == {j \in new : j <= i}
           rank == [i \in new |-> Cardinality(upto(i))]
           N == Cardinality(new)
<1>1. new \subseteq 1..Len(f) /\ Len(f) \in Nat /\ IsFiniteSet(new) /\ N \in Nat
  <2>1. new \subseteq 1..Len(f) /\ Len(f) \in Nat
    OBVIOUS
  <2>2. IsFiniteSet(1..Len(f))
    BY <2>1, FS_Interval
  <2> HIDE DEF new
  <2> QED BY <2>1, <2>2, FS_Subset, FS_CardinalityType
<1>2. \A i \in new : i \in upto(i) /\ upto(i) \subseteq new /\ i \in Int
  BY <1>1
<1>3. ASSUME NEW i \in new PROVE IsFiniteSet(upto(i)) /\ rank[i] \in 1..N
  <2>1. IsFiniteSet(upto(i)) /\ Cardinality(upto(i)) <= N
    <3> HIDE DEF new, upto
    <3> QED BY <1>1, <1>2, FS_Subset
  <2>2. Cardinality(upto(i)) \in Nat /\ Cardinality(upto(i)) # 0
    <3> HIDE DEF new, upto
    <3> QED BY <1>2, <2>1, FS_CardinalityType, FS_EmptySet
  <2> HIDE DEF new, upto, N
  <2> QED BY <1>1, <2>1, <2>2
<1>4. ASSUME NEW i \in new, NEW k \in new, i < k PROVE rank[i] # rank[k]
  <2>1. upto(i) \subseteq upto(k) /\ k \in upto(k) /\ k \notin upto(i)
    BY <1>2, <1>4
  <2> HIDE DEF new, upto
  <2> QED BY <1>3, <2>1, FS_Subset
<1>5. \A i, k \in new : rank[i] = rank[k] => i = k
  <2> SUFFICES ASSUME NEW i \in new, NEW k \in new, i # k PROVE rank[i] # rank[k]
    OBVIOUS
  <2>1. i < k \/ k < i
    BY <1>2
  <2> HIDE DEF rank, new
  <2> QED BY <1>4, <2>1
<1>6. rank \in Injection(new, 1..N)
  <2>1. rank \in [new -> 1..N]
    <3> HIDE DEF new, N, upto
    <3> QED BY <1>3
  <2> HIDE DEF new, N, rank
  <2> QED BY <1>5, <2>1 DEF Injection, IsInjective
<1>7. \A n \in 1..N : \E i \in new : rank[i] = n
  <2>1. IsFiniteSet(1..N) /\ Cardinality(1..N) = N
    <3> HIDE DEF N
    <3> QED BY <1>1, FS_Interval
  <2> HIDE DEF new, rank
  <2> QED BY <1>6, <2>1, FS_Injection DEF Surjection
<1> DEFINE nth(n) == CHOOSE i \in new : rank[i] = n
<1>8. Unknown(f) = [n \in 1..N |-> f[nth(n)]]
  <2> DEFINE place(n) == CHOOSE i \in new : Cardinality({j \in new : j <= i}) = n
  <2>1. Unknown(f) = [n \in 1..N |-> f[place(n)]]
    BY DEF Unknown
  <2>2. \A n : place(n) = nth(n)
    OBVIOUS
  <2> HIDE DEF place, nth, N
  <2> QED BY <2>1, <2>2
<1>9. Unknown(f) \in Seq(Line)
  <2>1. \A n \in 1..N : nth(n) \in new
    <3> HIDE DEF new, rank, N
    <3> QED BY <1>7
  <2>2. \A i \in new : f[i] \in Line
    OBVIOUS
  <2>3. \A n \in 1..N : f[nth(n)] \in Line
    BY <2>1, <2>2
  <2> HIDE DEF nth, new, rank, N
  <2> QED BY <1>1, <1>8, <2>3
<1>10. ASSUME NEW i \in DOMAIN f, f[i] \notin lines PROVE f[i] \in ToSet(Unknown(f))
  <2>1. i \in new
    BY <1>10 DEF Known
  <2>2. rank[i] \in 1..N
    <3> HIDE DEF new, rank, N
    <3> QED BY <1>3, <2>1
  <2>3. nth(rank[i]) = i
    <3> HIDE DEF new, rank, N
    <3> QED BY <1>5, <2>1
  <2>4. rank[i] \in DOMAIN Unknown(f) /\ Unknown(f)[rank[i]] = f[i]
    <3> HIDE DEF new, rank, N, nth
    <3> QED BY <1>8, <2>2, <2>3
  <2> HIDE DEF rank
  <2> QED BY <2>4 DEF ToSet
<1> QED BY <1>9, <1>10 DEF ToSet

\* A step that stores nothing keeps its load or drops it.
LEMMA LoadKept ==
  ASSUME ImportInv, NEW s \in Session, Elsewhere(s), UNCHANGED <<lines, imports>>, pc'[s] # "store",
         load' = load \/ load' = [load EXCEPT ![s] = NoLoad]
  PROVE  ImportInv'
<1>1. Loads'
  BY NoLoadIsLoad DEF ImportInv, Loads
<1>2. Carried'
  <2> SUFFICES ASSUME NEW t \in Session, pc'[t] = "store"
               PROVE  ToSet(load'[t].file) \subseteq lines' \cup load'[t].fresh \cup ToSet(load'[t].rows)
    BY DEF Carried
  <2>1. t # s /\ pc[t] = "store"
    BY DEF Elsewhere
  <2>2. load'[t] = load[t]
    BY <2>1 DEF ImportInv, Loads
  <2> QED BY <2>1, <2>2 DEF ImportInv, Carried
<1> QED BY <1>1, <1>2 DEF ImportInv, Statement, ImportsAreWhole

LEMMA FinishDrops ==
  ASSUME Inv, ImportInv, NEW s \in Session, Finish(s), UNCHANGED <<lines, imports>>
  PROVE  ImportInv'
BY FinishFrees, LoadKept DEF Inv, SessionTypes, Finish, Goto, Free

LEMMA AnswerDrops ==
  ASSUME Inv, ImportInv, NEW s \in Session, Answer(s), UNCHANGED <<lines, imports>>
  PROVE  ImportInv'
<1>1. CASE Len(pairs[s]) > 1
  <2>1. load' = load /\ pc'[s] = "lock"
    BY <1>1 DEF Answer, Goto, Inv, SessionTypes
  <2>2. Elsewhere(s)
    BY AnswerFrees DEF Inv, Free
  <2> QED BY <2>1, <2>2, LoadKept
<1>2. CASE ~(Len(pairs[s]) > 1)
  BY <1>2, FinishDrops DEF Answer
<1> QED BY <1>1, <1>2

LEMMA BeginImportKeeps ==
  ASSUME Inv, ImportInv, NEW s \in Session, BeginImport(s)
  PROVE  ImportInv'
<1>1. PICK f \in File : load' = [load EXCEPT ![s] = [file |-> f, rows |-> Unknown(f), fresh |-> {},
                                    added |-> Cardinality(ToSet(Unknown(f)))]]
  BY DEF BeginImport
<1> DEFINE new == [file |-> f, rows |-> Unknown(f), fresh |-> {},
                   added |-> Cardinality(ToSet(Unknown(f)))]
<1>2. /\ Unknown(f) \in Seq(Line) /\ ToSet(f) \subseteq lines \cup ToSet(Unknown(f))
  BY UnknownCovers, BankAssumption
<1>3. IsLoad(new)
  BY <1>2, FS_EmptySet DEF IsLoad
<1>4. load'[s] = new /\ \A t \in Session \ {s} : load'[t] = load[t] /\ pc'[t] = pc[t]
  BY <1>1 DEF ImportInv, Loads, BeginImport, Goto, Inv, SessionTypes
<1>5. UNCHANGED <<lines, imports>>
  BY DEF BeginImport, KeepBooks
<1>6. new.file = f /\ new.rows = Unknown(f) /\ new.fresh = {}
  OBVIOUS
<1>7. load' = [t \in Session |-> load'[t]]
  BY <1>1 DEF ImportInv, Loads
<1> HIDE DEF new
<1>8. Loads'
  BY <1>3, <1>4, <1>7 DEF ImportInv, Loads
<1>9. Carried'
  BY <1>2, <1>4, <1>5, <1>6 DEF ImportInv, Carried
<1> QED BY <1>5, <1>8, <1>9 DEF ImportInv, Statement, ImportsAreWhole

LEMMA StoreRowCarries ==
  ASSUME Inv, ImportInv, NEW s \in Session, StoreRow(s)
  PROVE  ImportInv'
<1> DEFINE rows == load[s].rows
           row == Head(rows)
<1>1. rows \in Seq(Line) /\ rows # <<>> /\ IsLoad(load[s])
  BY DEF StoreRow, ImportInv, Loads, IsLoad
<1>2. row \in Line /\ Tail(rows) \in Seq(Line) /\ ToSet(rows) \subseteq {row} \cup ToSet(Tail(rows))
  <2>1. row \in Line /\ Tail(rows) \in Seq(Line)
    BY <1>1
  <2>2. ASSUME NEW i \in DOMAIN rows, i # 1 PROVE i - 1 \in DOMAIN Tail(rows) /\ Tail(rows)[i - 1] = rows[i]
    BY <1>1, <2>2
  <2>3. row = rows[1]
    BY <1>1
  <2> HIDE DEF rows, row
  <2> QED BY <2>1, <2>2, <2>3 DEF ToSet
<1>3. load'[s] = [load[s] EXCEPT !.rows = Tail(rows), !.fresh = @ \cup ({row} \ lines)]
      /\ \A t \in Session \ {s} : load'[t] = load[t]
  BY DEF StoreRow, ImportInv, Loads
<1>4. /\ load'[s] = [file |-> load[s].file, rows |-> Tail(rows),
                     fresh |-> load[s].fresh \cup ({row} \ lines), added |-> load[s].added]
  <2> HIDE DEF rows, row
  <2> QED BY <1>1, <1>3 DEF IsLoad
<1>5. UNCHANGED <<lines, imports, pc>>
  BY DEF StoreRow, KeepBooks
<1>6. IsLoad(load'[s])
  <2>1. IsFiniteSet({row} \ lines)
    <3>1. IsFiniteSet({row}) /\ {row} \ lines \subseteq {row}
      BY FS_Singleton
    <3> HIDE DEF row
    <3> QED BY <3>1, FS_Subset
  <2>2. IsFiniteSet(load[s].fresh \cup ({row} \ lines))
    BY <1>1, <2>1, FS_Union DEF IsLoad
  <2>3. load[s].fresh \cup ({row} \ lines) \in SUBSET Line
    BY <1>1, <1>2 DEF IsLoad
  <2> HIDE DEF rows, row
  <2> QED BY <1>2, <1>4, <2>2, <2>3 DEF IsLoad
<1>7. load' = [t \in Session |-> load'[t]]
  BY DEF StoreRow, ImportInv, Loads
<1> HIDE DEF rows, row
<1>8. Loads'
  BY <1>3, <1>6, <1>7 DEF ImportInv, Loads
<1>9. Carried'
  <2> SUFFICES ASSUME NEW t \in Session, pc[t] = "store"
               PROVE  ToSet(load'[t].file) \subseteq lines \cup load'[t].fresh \cup ToSet(load'[t].rows)
    BY <1>5 DEF Carried
  <2>1. CASE t = s
    <3>1. ToSet(load[s].file) \subseteq lines \cup load[s].fresh \cup ToSet(rows)
      BY <2>1 DEF ImportInv, Carried, rows
    <3>2. /\ load'[s].file = load[s].file /\ load'[s].rows = Tail(rows)
          /\ load'[s].fresh = load[s].fresh \cup ({row} \ lines)
      BY <1>4
    <3> QED BY <1>2, <2>1, <3>1, <3>2
  <2>2. CASE t # s
    BY <1>3, <2>2 DEF ImportInv, Carried
  <2> QED BY <2>1, <2>2
<1> QED BY <1>5, <1>8, <1>9 DEF ImportInv, Statement, ImportsAreWhole

LEMMA CommitImportKeeps ==
  ASSUME Inv, ImportInv, NEW s \in Session, CommitImport(s)
  PROVE  ImportInv'
<1> DEFINE new == [file |-> load[s].file, added |-> load[s].added,
                   stored |-> Cardinality(load[s].fresh)]
<1>1. /\ IsSequence(imports') /\ DOMAIN imports' = DOMAIN imports \cup {Len(imports) + 1}
      /\ imports'[Len(imports) + 1] = new /\ \A i \in DOMAIN imports : imports'[i] = imports[i]
  BY AppendIsSequence DEF CommitImport, ImportInv
<1>2. lines' = lines \cup load[s].fresh
  BY DEF CommitImport
<1>3. ToSet(load[s].file) \subseteq lines'
  BY <1>2 DEF CommitImport, ImportInv, Carried, ToSet
<1>4. Statement'
  BY <1>2, FS_Union DEF ImportInv, Statement, Loads, IsLoad
<1>5. Elsewhere(s) /\ pc'[s] = "idle" /\ load' = [load EXCEPT ![s] = NoLoad]
  BY FinishFrees DEF CommitImport, Finish, Goto, Inv, SessionTypes, Free
<1>6. Loads' /\ \A t \in Session \ {s} : load'[t] = load[t]
  BY <1>5, NoLoadIsLoad DEF ImportInv, Loads
<1>7. Carried'
  BY <1>2, <1>5, <1>6 DEF ImportInv, Carried, Elsewhere
<1>8. ImportsAreWhole'
  <2>1. new.file = load[s].file
    OBVIOUS
  <2> HIDE DEF new
  <2> QED BY <1>1, <1>2, <1>3, <2>1 DEF ImportInv, ImportsAreWhole
<1> QED BY <1>1, <1>4, <1>6, <1>7, <1>8 DEF ImportInv

LEMMA ImportStep ==
  ASSUME Inv, ImportInv, [Next]_bankVars
  PROVE  ImportInv'
<1>1. CASE (Post \/ Settle) \/ UNCHANGED bankVars
  <2>1. UNCHANGED <<lines, imports, pc, load>>
    BY <1>1 DEF Post, Settle, bankVars
  <2> QED BY <2>1 DEF ImportInv, Statement, Loads, Carried, ImportsAreWhole
<1>2. ASSUME NEW s \in Session, Step(s) PROVE ImportInv'
  <2>1. CASE BeginImport(s) \/ StoreRow(s) \/ CommitImport(s)
    BY <2>1, BeginImportKeeps, StoreRowCarries, CommitImportKeeps
  <2>2. CASE \/ Begin(s) \/ BeginSuggested(s) \/ LockLine(s) \/ Look(s) \/ InsertMatch(s)
             \/ BeginUnmatch(s) \/ Update(s)
    <3>1. /\ Elsewhere(s) /\ UNCHANGED <<lines, imports, load>> /\ pc'[s] # "store"
      BY <2>2 DEF Begin, BeginSuggested, LockLine, Look, InsertMatch, BeginUnmatch, Update, Goto,
                  KeepBooks, Elsewhere, Inv, SessionTypes
    <3> QED BY <3>1, LoadKept
  <2>3. CASE InsertRefused(s) \/ DeadlockVictim(s) \/ Abort(s) \/ CommitUnmatch(s)
    <3>1. Finish(s) /\ UNCHANGED <<lines, imports>>
      BY <2>3 DEF InsertRefused, DeadlockVictim, Abort, CommitUnmatch, Fail, KeepBooks
    <3> QED BY <3>1, FinishDrops
  <2>4. CASE LookRefused(s) \/ UpdateNothing(s) \/ CommitMatch(s)
    <3>1. Answer(s) /\ UNCHANGED <<lines, imports>>
      BY <2>4 DEF LookRefused, UpdateNothing, CommitMatch, Refuse, KeepBooks
    <3> QED BY <3>1, AnswerDrops
  <2> QED BY <1>2, <2>1, <2>2, <2>3, <2>4 DEF Step
<1> QED BY <1>1, <1>2 DEF Next

THEOREM InvInvariant == Spec => []Inv
BY InvInit, InvNext, PTL DEF Spec

THEOREM ImportInvariant == Spec => []ImportInv
<1>1. Inv /\ ImportInv /\ [Next]_bankVars => ImportInv'
  BY ImportStep
<1> QED BY ImportInit, <1>1, InvInvariant, PTL DEF Spec

\* Whatever a file that was imported contains is on the statement, though a rival
\* import that was adding some of it failed: a row on its way is waited for, and
\* added after all when the rival goes.
THEOREM FilesAreWhole == Spec => []ImportsAreWhole
<1>1. ImportInv => ImportsAreWhole
  BY DEF ImportInv
<1> QED BY <1>1, ImportInvariant, PTL

(***************************************************************************)
(* The difference.  A live match is of a line of the statement with a      *)
(* posted entry of its amount, and no entry has two; what is about to      *)
(* commit keeps to that, because the unique indexes let one of two rivals  *)
(* in at a time.                                                           *)
(***************************************************************************)
PostingTypes == \A p \in DOMAIN postings : postings[p].amount \in Int /\ postings[p].day \in Nat

\* What a session asks to match: a line and, but for a record, a posting.
Askable(s) == [line : lines, posting : IF op[s] = "match" THEN DOMAIN postings ELSE {NoPosting}]

Asked == \A s \in Session : op[s] \in {"match", "record"} =>
  pairs[s] \in Seq(Askable(s)) /\ pairs[s] # <<>>

IsMatching(s) == Inserting(s) /\ op[s] = "match"

Fits(l, p) == p \in Posted /\ postings[p].amount = AmountOf[l]

Entering == \A s \in Session : IsMatching(s) =>
  Fits(This(s).line, This(s).posting) /\ This(s).posting \notin MatchedPostings

EnterApart == \A s, t \in Session :
  s # t /\ IsMatching(s) /\ IsMatching(t) => This(s).posting # This(t).posting

Paired ==
  /\ \A m \in LiveMatches : matches[m].line \in lines /\ Fits(matches[m].line, matches[m].posting)
  /\ \A m, n \in LiveMatches : matches[m].posting = matches[n].posting => m = n

MatchInv == PostingTypes /\ Asked /\ Entering /\ EnterApart /\ Paired

LEMMA MatchInit == Init => MatchInv
BY DEF Init, MatchInv, PostingTypes, Asked, Entering, EnterApart, Paired, IsMatching, Inserting,
       LiveMatches

LEMMA SeqGrows == ASSUME NEW S, NEW T, S \subseteq T PROVE Seq(S) \subseteq Seq(T)
<1> SUFFICES ASSUME NEW q \in Seq(S) PROVE q \in Seq(T)
  OBVIOUS
<1>1. Len(q) \in Nat /\ q \in [1..Len(q) -> T]
  OBVIOUS
<1> QED BY <1>1, SeqDef

\* The books only grow: what was asked, and what fits, still is and does.
Grown == /\ lines \subseteq lines' /\ DOMAIN postings \subseteq DOMAIN postings'
         /\ \A p \in DOMAIN postings : postings'[p].amount = postings[p].amount
         /\ Posted \subseteq Posted'

LEMMA AskedGrows ==
  ASSUME Grown, NEW t \in Session, op'[t] = op[t]
  PROVE  Askable(t) \subseteq Askable(t)'
BY DEF Grown, Askable

LEMMA FitsGrows ==
  ASSUME Grown, NEW l, NEW p, Fits(l, p)
  PROVE  Fits(l, p)'
BY DEF Grown, Fits, Posted

LEMMA GrowsWhenKept == UNCHANGED <<lines, postings>> => Grown
BY DEF Grown, Posted

\* The others go on asking what they asked, and stand where they stood.
LEMMA OthersStand ==
  ASSUME MatchInv, Grown, NEW s \in Session, Elsewhere(s), MatchedPostings' \subseteq MatchedPostings,
         PostingTypes', Paired',
         op'[s] \in {"match", "record"} => pairs'[s] \in Seq(Askable(s)') /\ pairs'[s] # <<>>,
         IsMatching(s)' =>
           /\ Fits(This(s)'.line, This(s)'.posting) /\ This(s)'.posting \notin MatchedPostings
           /\ \A t \in Session \ {s} : IsMatching(t) => This(t).posting # This(s)'.posting
  PROVE  MatchInv'
<1>1. \A t \in Session \ {s} : /\ op'[t] = op[t] /\ pairs'[t] = pairs[t]
                               /\ IsMatching(t)' <=> IsMatching(t)
                               /\ This(t)' = This(t)
  BY DEF Elsewhere, IsMatching, Inserting, This
<1>2. Asked'
  <2> SUFFICES ASSUME NEW t \in Session, op'[t] \in {"match", "record"}
               PROVE  pairs'[t] \in Seq(Askable(t)') /\ pairs'[t] # <<>>
    BY DEF Asked
  <2>1. CASE t # s
    <3>1. Seq(Askable(t)) \subseteq Seq(Askable(t)')
      BY <1>1, <2>1, AskedGrows, SeqGrows
    <3> QED BY <1>1, <2>1, <3>1 DEF MatchInv, Asked
  <2> QED BY <2>1
<1>3. Entering'
  <2> SUFFICES ASSUME NEW t \in Session, IsMatching(t)'
               PROVE  Fits(This(t).line, This(t).posting)' /\ This(t)'.posting \notin MatchedPostings'
    BY DEF Entering
  <2>1. CASE t = s
    BY <2>1, FitsGrows
  <2>2. CASE t # s
    <3>1. Fits(This(t).line, This(t).posting) /\ This(t).posting \notin MatchedPostings
      BY <1>1, <2>2 DEF MatchInv, Entering
    <3>2. This(t)' = This(t)
      BY <1>1, <2>2
    <3> QED BY <3>1, <3>2, FitsGrows
  <2> QED BY <2>1, <2>2
<1>4. EnterApart'
  BY <1>1 DEF MatchInv, EnterApart
<1> QED BY <1>2, <1>3, <1>4 DEF MatchInv

\* The matches stand, or one fewer is live.
LEMMA StillPaired ==
  ASSUME MatchInv, Grown,
         LiveMatches' \subseteq LiveMatches,
         \A m \in LiveMatches' : matches'[m].line = matches[m].line /\ matches'[m].posting = matches[m].posting
  PROVE  Paired' /\ MatchedPostings' \subseteq MatchedPostings
<1>1. ASSUME NEW m \in LiveMatches'
      PROVE  matches'[m].line \in lines' /\ Fits(matches[m].line, matches[m].posting)'
  <2> DEFINE l == matches[m].line
             p == matches[m].posting
  <2>1. l \in lines /\ Fits(l, p) /\ matches'[m].line = l /\ matches'[m].posting = p
    BY DEF MatchInv, Paired
  <2>2. l \in lines' /\ p \in Posted' /\ postings'[p].amount = AmountOf[l]
    BY <2>1 DEF Grown, Fits, Posted
  <2> QED BY <2>1, <2>2 DEF Fits
<1>2. \A m, n \in LiveMatches' : matches'[m].posting = matches'[n].posting => m = n
  BY DEF MatchInv, Paired
<1>3. MatchedPostings' \subseteq MatchedPostings
  BY DEF MatchedPostings
<1> QED BY <1>1, <1>2, <1>3 DEF Paired

LEMMA MatchesStand ==
  ASSUME MatchInv, Grown, UNCHANGED matches
  PROVE  Paired' /\ MatchedPostings' \subseteq MatchedPostings
<1>1. LiveMatches' = LiveMatches
  BY DEF LiveMatches
<1> QED BY <1>1, StillPaired

\* A session that finishes, or goes on to its next pair.
LEMMA AnswerAsks ==
  ASSUME Inv, MatchInv, Grown, NEW s \in Session, Answer(s) \/ Finish(s)
  PROVE  /\ Elsewhere(s) /\ ~IsMatching(s)'
         /\ op'[s] \in {"match", "record"} => pairs'[s] \in Seq(Askable(s)') /\ pairs'[s] # <<>>
<1>1. CASE Finish(s)
  <2>1. op'[s] = "none"
    BY <1>1 DEF Finish, Inv, SessionTypes
  <2> QED BY <1>1, <2>1, FinishFrees DEF Inv, Free, IsMatching, Inserting
<1>2. CASE Answer(s) /\ Len(pairs[s]) > 1
  <2>1. op'[s] = op[s] /\ pc'[s] = "lock" /\ pairs'[s] = Tail(pairs[s])
    BY <1>2 DEF Answer, Goto, Inv, SessionTypes
  <2>2. Askable(s) \subseteq Askable(s)'
    BY <2>1, AskedGrows
  <2>3. op[s] \in {"match", "record"} => Tail(pairs[s]) \in Seq(Askable(s)) /\ Tail(pairs[s]) # <<>>
    <3> SUFFICES ASSUME op[s] \in {"match", "record"}
                 PROVE  Tail(pairs[s]) \in Seq(Askable(s)) /\ Tail(pairs[s]) # <<>>
      OBVIOUS
    <3>1. pairs[s] \in Seq(Askable(s)) /\ Len(pairs[s]) > 1
      BY <1>2 DEF MatchInv, Asked
    <3> DEFINE q == pairs[s]
    <3>2. \A S : q \in Seq(S) /\ Len(q) > 1 => Tail(q) \in Seq(S) /\ Tail(q) # <<>>
      <4> SUFFICES ASSUME NEW S, q \in Seq(S), Len(q) > 1
                   PROVE  Tail(q) \in Seq(S) /\ Tail(q) # <<>>
        OBVIOUS
      <4> HIDE DEF q
      <4>1. Tail(q) \in Seq(S) /\ Len(Tail(q)) > 0
        OBVIOUS
      <4>2. \A r \in Seq(S) : Len(r) > 0 => r # <<>>
        OBVIOUS
      <4> QED BY <4>1, <4>2
    <3> QED BY <3>1, <3>2
  <2>4. Elsewhere(s)
    BY <1>2, AnswerFrees DEF Inv, Free
  <2>5. Seq(Askable(s)) \subseteq Seq(Askable(s)')
    BY <2>2, SeqGrows
  <2> QED BY <2>1, <2>3, <2>4, <2>5 DEF IsMatching, Inserting
<1> QED BY <1>1, <1>2 DEF Answer

\* What a session has at the head of its list is a line and a posting.
LEMMA ThisIsAsked ==
  ASSUME MatchInv, NEW s \in Session, op[s] \in {"match", "record"}
  PROVE  /\ This(s).line \in lines
         /\ op[s] = "match" => This(s).posting \in DOMAIN postings
<1>1. pairs[s] \in Seq(Askable(s)) /\ pairs[s] # <<>>
  BY DEF MatchInv, Asked
<1>2. Head(pairs[s]) \in Askable(s)
  BY <1>1
<1> QED BY <1>2 DEF This, Askable

\* What matchSuggested is to go through are lines and postings.
LEMMA SuggestedAsked ==
  ASSUME Inv, Statement, Suggested # {}
  PROVE  /\ Suggested \subseteq [line : lines, posting : DOMAIN postings]
         /\ SetToSeq(Suggested) \in Seq(Suggested) /\ SetToSeq(Suggested) # <<>>
<1>1. Suggested \subseteq {Pair(l, p) : l \in lines, p \in DOMAIN postings}
  <2>1. \A l \in OpenLines : l \in lines
    BY DEF OpenLines
  <2>2. \A l : BestPosting(l) \subseteq DOMAIN postings
    BY DEF BestPosting, Candidates, OpenPostings, Posted
  <2>3. \A m \in Suggested : \E l \in OpenLines : \E p \in BestPosting(l) : m = Pair(l, p)
    BY DEF Suggested, Nearest
  <2> QED BY <2>1, <2>2, <2>3
<1>2. IsFiniteSet(Suggested)
  <2> DEFINE both == lines \X DOMAIN postings
             all == {Pair(l, p) : l \in lines, p \in DOMAIN postings}
             pair == [x \in both |-> Pair(x[1], x[2])]
  <2>1. IsFiniteSet(lines) /\ IsFiniteSet(DOMAIN postings)
    <3>1. DOMAIN postings = 1..Len(postings) /\ Len(postings) \in Nat
      BY DEF Inv, Rows, IsSequence
    <3> QED BY <3>1, FS_Interval DEF Statement
  <2>2. IsFiniteSet(both)
    BY <2>1, FS_Product
  <2>3. pair \in Surjection(both, all)
    <3>1. \A x \in both : pair[x] \in all
      OBVIOUS
    <3>2. \A y \in all : \E x \in both : pair[x] = y
      <4> SUFFICES ASSUME NEW l \in lines, NEW p \in DOMAIN postings
                   PROVE  \E x \in both : pair[x] = Pair(l, p)
        OBVIOUS
      <4>1. <<l, p>> \in both /\ pair[<<l, p>>] = Pair(l, p)
        OBVIOUS
      <4> QED BY <4>1
    <3> HIDE DEF both, all
    <3> QED BY <3>1, <3>2 DEF Surjection
  <2>4. IsFiniteSet(all)
    <3> HIDE DEF both, all, pair
    <3> QED BY <2>2, <2>3, FS_Surjection
  <2> HIDE DEF all
  <2> QED BY <1>1, <2>4, FS_Subset DEF all
<1>3. Cardinality(Suggested) \in Nat /\ Cardinality(Suggested) # 0
  BY <1>2, FS_CardinalityType, FS_EmptySet
<1>4. \E f \in [1..Cardinality(Suggested) -> Suggested] : IsInjective(f)
  <2>1. PICK n \in Nat : ExistsBijection(1..n, Suggested)
    BY <1>2, FS_NatBijection
  <2>2. Cardinality(Suggested) = n
    BY <2>1, FS_CountingElements
  <2> QED BY <2>1, <2>2 DEF ExistsBijection, Bijection, Injection
<1>5. SetToSeq(Suggested) \in [1..Cardinality(Suggested) -> Suggested]
  BY <1>4 DEF SetToSeq
<1>6. SetToSeq(Suggested) \in Seq(Suggested) /\ SetToSeq(Suggested) # <<>>
  <2> HIDE DEF SetToSeq
  <2> QED BY <1>3, <1>5, SeqDef
<1> QED BY <1>1, <1>6 DEF Pair

LEMMA OthersWrite ==
  ASSUME Inv, Statement, MatchInv, Post \/ Settle
  PROVE  MatchInv'
<1>1. UNCHANGED <<pc, op, pairs, matches, lines>>
  BY DEF Post, Settle
<1>2. Grown /\ PostingTypes'
  <2>1. CASE Post
    <3>1. PICK b \in Booking : postings' = Append(postings,
            [amount |-> b.amount, day |-> b.day, status |-> b.status, from |-> {}])
      BY <2>1 DEF Post
    <3> DEFINE new == [amount |-> b.amount, day |-> b.day, status |-> b.status, from |-> {}]
    <3>2. /\ DOMAIN postings' = DOMAIN postings \cup {Len(postings) + 1}
          /\ postings'[Len(postings) + 1] = new
          /\ \A n \in DOMAIN postings : postings'[n] = postings[n]
      BY <3>1, AppendIsSequence DEF Inv, Rows
    <3>3. new.amount \in Int /\ new.day \in Nat
      BY BankAssumption
    <3> HIDE DEF new
    <3> QED BY <1>1, <3>2, <3>3 DEF Grown, Posted, MatchInv, PostingTypes
  <2>2. CASE Settle
    <3>1. PICK p \in DOMAIN postings \ Posted : postings' = [postings EXCEPT ![p].status = "posted"]
      BY <2>2 DEF Settle
    <3>2. /\ DOMAIN postings' = DOMAIN postings
          /\ \A n \in DOMAIN postings \ {p} : postings'[n] = postings[n]
          /\ postings'[p] = [postings[p] EXCEPT !.status = "posted"]
      BY <3>1 DEF Inv, Rows, IsSequence
    <3>3. postings'[p].amount = postings[p].amount /\ postings'[p].day = postings[p].day
      BY <3>2 DEF Inv, Rows, IsPosting
    <3> QED BY <1>1, <3>1, <3>2, <3>3 DEF Grown, Posted, MatchInv, PostingTypes
  <2> QED BY <2>1, <2>2
<1>3. Paired' /\ MatchedPostings' \subseteq MatchedPostings
  BY <1>1, <1>2, MatchesStand
<1>4. Asked'
  <2> SUFFICES ASSUME NEW t \in Session, op[t] \in {"match", "record"}
               PROVE  pairs[t] \in Seq(Askable(t)') /\ pairs[t] # <<>>
    BY <1>1 DEF Asked
  <2>1. Seq(Askable(t)) \subseteq Seq(Askable(t)')
    BY <1>1, <1>2, AskedGrows, SeqGrows
  <2> QED BY <2>1 DEF MatchInv, Asked
<1>5. Entering'
  <2> SUFFICES ASSUME NEW t \in Session, IsMatching(t)'
               PROVE  Fits(This(t).line, This(t).posting)' /\ This(t)'.posting \notin MatchedPostings'
    BY DEF Entering
  <2>1. This(t)' = This(t) /\ IsMatching(t)
    BY <1>1 DEF This, IsMatching, Inserting
  <2> QED BY <1>2, <1>3, <2>1, FitsGrows DEF MatchInv, Entering
<1>6. EnterApart'
  BY <1>1 DEF MatchInv, EnterApart, This, IsMatching, Inserting
<1> QED BY <1>2, <1>3, <1>4, <1>5, <1>6 DEF MatchInv

\* The index lets a match in beside no rival of its posting.
LEMMA InsertMatchFits ==
  ASSUME Inv, MatchInv, NEW s \in Session, InsertMatch(s)
  PROVE  MatchInv'
<1>1. /\ Elsewhere(s) /\ UNCHANGED <<op, pairs, postings, matches, lines>> /\ This(s)' = This(s)
  BY DEF InsertMatch, Goto, KeepBooks, Inv, SessionTypes, Elsewhere, This
<1>2. Grown /\ PostingTypes'
  BY <1>1, GrowsWhenKept DEF MatchInv, PostingTypes
<1>3. Paired' /\ MatchedPostings' \subseteq MatchedPostings
  BY <1>1, <1>2, MatchesStand
<1>4. op'[s] \in {"match", "record"} => pairs'[s] \in Seq(Askable(s)') /\ pairs'[s] # <<>>
  <2>1. Askable(s)' = Askable(s)
    BY <1>1 DEF Askable
  <2> QED BY <1>1, <2>1 DEF MatchInv, Asked
<1>5. IsMatching(s)' =>
        /\ Fits(This(s)'.line, This(s)'.posting) /\ This(s)'.posting \notin MatchedPostings
        /\ \A t \in Session \ {s} : IsMatching(t) => This(t).posting # This(s)'.posting
  <2> SUFFICES ASSUME op[s] = "match"
               PROVE  /\ Fits(This(s).line, This(s).posting) /\ This(s).posting \notin MatchedPostings
                      /\ \A t \in Session \ {s} : IsMatching(t) => This(t).posting # This(s).posting
    BY <1>1 DEF IsMatching
  <2>1. This(s).posting \in DOMAIN postings
    BY ThisIsAsked
  <2>2. This(s).posting # NoPosting
    <3>1. DOMAIN postings = 1..Len(postings) /\ Len(postings) \in Nat
      BY DEF Inv, Rows, IsSequence
    <3> QED BY <2>1, <3>1 DEF NoPosting
  <2>3. Fits(This(s).line, This(s).posting) /\ This(s).posting \notin MatchedPostings
    BY <2>2 DEF InsertMatch, Accepted, Fits
  <2>4. \A t \in Session \ {s} : IsMatching(t) => This(t).posting # This(s).posting
    BY <2>2 DEF InsertMatch, Rivals, IsMatching, Same
  <2> QED BY <2>3, <2>4
<1> QED BY <1>1, <1>2, <1>3, <1>4, <1>5, OthersStand

LEMMA CommitMatchPairs ==
  ASSUME Inv, Statement, MatchInv, NEW s \in Session, CommitMatch(s)
  PROVE  MatchInv'
<1> DEFINE l == This(s).line
           p == IF op[s] = "record" THEN Len(postings) + 1 ELSE This(s).posting
           new == [line |-> l, posting |-> p, live |-> TRUE]
           last == Len(matches) + 1
           row == [amount |-> AmountOf[l], day |-> DayOf[l], status |-> "posted", from |-> {l}]
<1>1. /\ DOMAIN matches' = DOMAIN matches \cup {last} /\ last \notin DOMAIN matches
      /\ matches'[last] = new /\ \A m \in DOMAIN matches : matches'[m] = matches[m]
  BY AppendIsSequence DEF CommitMatch, Matched, Inv, Rows
<1>2. new.line = l /\ new.posting = p /\ new.live
  OBVIOUS
<1>3. Inserting(s) /\ Answer(s) /\ UNCHANGED lines /\ op[s] \in {"match", "record"} /\ l \in lines
  BY ThisIsAsked DEF CommitMatch, Inserting
<1>4. /\ Grown /\ PostingTypes' /\ p \in Posted' /\ postings'[p].amount = AmountOf[l]
      /\ p \notin MatchedPostings
      /\ \A t \in Session \ {s} : IsMatching(t) => This(t).posting # p
  <2>1. CASE op[s] = "match"
    <3>1. postings' = postings /\ p = This(s).posting /\ IsMatching(s)
      BY <1>3, <2>1 DEF CommitMatch, IsMatching
    <3>2. Fits(l, p) /\ p \notin MatchedPostings
      BY <3>1 DEF MatchInv, Entering
    <3>3. \A t \in Session \ {s} : IsMatching(t) => This(t).posting # p
      BY <3>1 DEF MatchInv, EnterApart
    <3>4. Grown /\ PostingTypes'
      BY <1>3, <3>1, GrowsWhenKept DEF MatchInv, PostingTypes
    <3> HIDE DEF l, p
    <3> QED BY <3>1, <3>2, <3>3, <3>4 DEF Fits, Posted
  <2>2. CASE op[s] = "record"
    <3>1. postings' = Append(postings, row) /\ p = Len(postings) + 1
      BY <2>2 DEF CommitMatch
    <3>2. /\ DOMAIN postings' = DOMAIN postings \cup {p}
          /\ DOMAIN postings = 1..Len(postings) /\ Len(postings) \in Nat
          /\ postings'[p] = row
          /\ \A n \in DOMAIN postings : postings'[n] = postings[n]
      BY <3>1, AppendIsSequence DEF Inv, Rows
    <3>3. row.amount = AmountOf[l] /\ row.day = DayOf[l] /\ row.status = "posted"
      OBVIOUS
    <3>4. AmountOf[l] \in Int /\ DayOf[l] \in Nat
      BY <1>3, BankAssumption DEF Statement
    <3>5. p \notin DOMAIN postings
      BY <3>1, <3>2
    <3> HIDE DEF row, l, p
    <3>6. Grown /\ PostingTypes'
      BY <1>3, <3>2, <3>3, <3>4 DEF Grown, Posted, MatchInv, PostingTypes
    <3>7. p \in Posted' /\ postings'[p].amount = AmountOf[l]
      BY <3>2, <3>3 DEF Posted
    <3>8. p \notin MatchedPostings
      BY <3>5 DEF MatchInv, Paired, MatchedPostings, Fits, Posted
    <3>9. \A t \in Session \ {s} : IsMatching(t) => This(t).posting # p
      BY <3>5 DEF MatchInv, Entering, Fits, Posted
    <3> QED BY <3>6, <3>7, <3>8, <3>9
  <2> QED BY <1>3, <2>1, <2>2
<1> HIDE DEF new, last, l, p, row
<1>5. LiveMatches' = LiveMatches \cup {last} /\ MatchedPostings' = MatchedPostings \cup {p}
  BY <1>1, <1>2 DEF LiveMatches, MatchedPostings
<1>6. Paired'
  <2>1. ASSUME NEW m \in LiveMatches'
        PROVE  matches'[m].line \in lines' /\ Fits(matches[m].line, matches[m].posting)'
    <3>1. CASE m = last
      BY <1>1, <1>2, <1>3, <1>4, <3>1 DEF Fits
    <3>2. CASE m # last
      <4>1. /\ m \in LiveMatches /\ matches'[m] = matches[m]
            /\ matches[m].line \in lines /\ Fits(matches[m].line, matches[m].posting)
        BY <1>1, <1>5, <2>1, <3>2 DEF LiveMatches, MatchInv, Paired
      <4> DEFINE k == matches[m].line
                 q == matches[m].posting
      <4>2. k \in lines' /\ q \in Posted' /\ postings'[q].amount = AmountOf[k]
        BY <1>4, <4>1 DEF Grown, Fits, Posted
      <4> QED BY <4>1, <4>2 DEF Fits
    <3> QED BY <3>1, <3>2
  <2>2. \A m, n \in LiveMatches' : matches'[m].posting = matches'[n].posting => m = n
    <3>1. \A m \in LiveMatches : matches'[m] = matches[m] /\ matches[m].posting # p
      BY <1>1, <1>4 DEF LiveMatches, MatchedPostings
    <3> QED BY <1>1, <1>2, <1>5, <3>1 DEF MatchInv, Paired
  <2> QED BY <2>1, <2>2 DEF Paired
<1>7. /\ Elsewhere(s) /\ ~IsMatching(s)'
      /\ op'[s] \in {"match", "record"} => pairs'[s] \in Seq(Askable(s)') /\ pairs'[s] # <<>>
  BY <1>3, <1>4, AnswerAsks
<1>8. \A t \in Session \ {s} : /\ op'[t] = op[t] /\ pairs'[t] = pairs[t]
                               /\ IsMatching(t)' <=> IsMatching(t)
                               /\ This(t)' = This(t)
  BY <1>7 DEF Elsewhere, IsMatching, Inserting, This
<1>9. Asked'
  <2> SUFFICES ASSUME NEW t \in Session, op'[t] \in {"match", "record"}
               PROVE  pairs'[t] \in Seq(Askable(t)') /\ pairs'[t] # <<>>
    BY DEF Asked
  <2>1. CASE t # s
    <3>1. Seq(Askable(t)) \subseteq Seq(Askable(t)')
      BY <1>4, <1>8, <2>1, AskedGrows, SeqGrows
    <3> QED BY <1>8, <2>1, <3>1 DEF MatchInv, Asked
  <2> QED BY <1>7, <2>1
<1>10. Entering'
  <2> SUFFICES ASSUME NEW t \in Session, IsMatching(t)'
               PROVE  Fits(This(t).line, This(t).posting)' /\ This(t)'.posting \notin MatchedPostings'
    BY DEF Entering
  <2>1. t # s
    BY <1>7
  <2>2. /\ Fits(This(t).line, This(t).posting) /\ This(t).posting \notin MatchedPostings
        /\ This(t).posting # p /\ This(t)' = This(t)
    BY <1>4, <1>8, <2>1 DEF MatchInv, Entering
  <2> QED BY <1>4, <1>5, <2>2, FitsGrows
<1>11. EnterApart'
  BY <1>7, <1>8 DEF MatchInv, EnterApart
<1> QED BY <1>4, <1>6, <1>9, <1>10, <1>11 DEF MatchInv

\* Any other step leaves the matches as they are, or undoes one.
LEMMA QuietPairs ==
  ASSUME Inv, MatchInv, NEW s \in Session, Elsewhere(s), lines \subseteq lines',
         UNCHANGED postings, ~IsMatching(s)',
         op'[s] \in {"match", "record"} => pairs'[s] \in Seq(Askable(s)') /\ pairs'[s] # <<>>,
         LiveMatches' \subseteq LiveMatches,
         \A m \in LiveMatches' : matches'[m].line = matches[m].line /\ matches'[m].posting = matches[m].posting
  PROVE  MatchInv'
<1>1. Grown /\ PostingTypes'
  BY DEF Grown, Posted, MatchInv, PostingTypes
<1>2. Paired' /\ MatchedPostings' \subseteq MatchedPostings
  BY <1>1, StillPaired
<1> QED BY <1>1, <1>2, OthersStand

LEMMA AsksAnew ==
  ASSUME Inv, Statement, MatchInv, NEW s \in Session, Begin(s) \/ BeginSuggested(s)
  PROVE  MatchInv'
<1>1. /\ Elsewhere(s) /\ UNCHANGED <<lines, postings, matches>> /\ pc'[s] = "lock"
  BY DEF Begin, BeginSuggested, Goto, KeepBooks, Elsewhere, Inv, SessionTypes
<1>2. pairs'[s] \in Seq(Askable(s)') /\ pairs'[s] # <<>>
  <2>1. CASE Begin(s)
    <3>1. CASE \E l \in lines, p \in DOMAIN postings :
                 pairs' = [pairs EXCEPT ![s] = <<Pair(l, p)>>] /\ op' = [op EXCEPT ![s] = "match"]
      <4>1. PICK l \in lines, p \in DOMAIN postings :
              pairs'[s] = <<Pair(l, p)>> /\ op'[s] = "match"
        BY <3>1 DEF Inv, SessionTypes
      <4>2. Pair(l, p) \in Askable(s)'
        BY <1>1, <4>1 DEF Pair, Askable
      <4> QED BY <4>1, <4>2
    <3>2. CASE \E l \in lines :
                 /\ pairs' = [pairs EXCEPT ![s] = <<Pair(l, NoPosting)>>]
                 /\ op' = [op EXCEPT ![s] = "record"]
      <4>1. PICK l \in lines : pairs'[s] = <<Pair(l, NoPosting)>> /\ op'[s] = "record"
        BY <3>2 DEF Inv, SessionTypes
      <4>2. Pair(l, NoPosting) \in Askable(s)'
        BY <1>1, <4>1 DEF Pair, Askable
      <4> QED BY <4>1, <4>2
    <3> QED BY <2>1, <3>1, <3>2 DEF Begin
  <2>2. CASE BeginSuggested(s)
    <3>1. op'[s] = "match" /\ pairs'[s] = SetToSeq(Suggested) /\ Suggested # {}
      BY <2>2 DEF BeginSuggested, Inv, SessionTypes
    <3>2. Suggested \subseteq Askable(s)'
      BY <1>1, <3>1, SuggestedAsked DEF Askable
    <3> QED BY <3>1, <3>2, SuggestedAsked, SeqGrows
  <2> QED BY <2>1, <2>2
<1>3. ~IsMatching(s)'
  BY <1>1 DEF IsMatching, Inserting
<1>4. LiveMatches' = LiveMatches
  BY <1>1 DEF LiveMatches
<1> QED BY <1>1, <1>2, <1>3, <1>4, QuietPairs

LEMMA MatchStep ==
  ASSUME Inv, Statement, MatchInv, [Next]_bankVars
  PROVE  MatchInv'
<1>1. CASE Post \/ Settle
  BY <1>1, OthersWrite
<1>2. CASE UNCHANGED bankVars
  <2>1. UNCHANGED <<lines, postings, matches, pc, op, pairs>>
    BY <1>2 DEF bankVars
  <2> QED BY <2>1 DEF MatchInv, PostingTypes, Asked, Askable, Entering, EnterApart, Paired,
                      IsMatching, Inserting, This, Fits, Posted, LiveMatches, MatchedPostings
<1>3. ASSUME NEW s \in Session, Step(s) PROVE MatchInv'
  <2>1. CASE Begin(s) \/ BeginSuggested(s)
    BY <2>1, AsksAnew
  <2>2. CASE InsertMatch(s)
    BY <2>2, InsertMatchFits
  <2>3. CASE CommitMatch(s)
    BY <2>3, CommitMatchPairs
  <2>4. CASE LockLine(s) \/ Look(s) \/ BeginUnmatch(s) \/ Update(s) \/ BeginImport(s) \/ StoreRow(s)
    <3>1. /\ Elsewhere(s) /\ UNCHANGED <<lines, postings, matches>> /\ ~IsMatching(s)'
          /\ op'[s] \in {"match", "record"} => op'[s] = op[s] /\ pairs'[s] = pairs[s]
      BY <2>4 DEF LockLine, Look, BeginUnmatch, Update, BeginImport, StoreRow, Goto, KeepBooks,
                  Elsewhere, Inv, SessionTypes, Commits, IsMatching, Inserting
    <3>2. op'[s] \in {"match", "record"} => pairs'[s] \in Seq(Askable(s)') /\ pairs'[s] # <<>>
      <4> SUFFICES ASSUME op'[s] \in {"match", "record"}
                   PROVE  pairs'[s] \in Seq(Askable(s)') /\ pairs'[s] # <<>>
        OBVIOUS
      <4>1. Askable(s)' = Askable(s)
        BY <3>1 DEF Askable
      <4> QED BY <3>1, <4>1 DEF MatchInv, Asked
    <3>3. LiveMatches' = LiveMatches
      BY <3>1 DEF LiveMatches
    <3> QED BY <3>1, <3>2, <3>3, QuietPairs
  <2>5. CASE \/ LookRefused(s) \/ InsertRefused(s) \/ UpdateNothing(s) \/ DeadlockVictim(s)
             \/ Abort(s) \/ CommitUnmatch(s) \/ CommitImport(s)
    <3>1. /\ Answer(s) \/ Finish(s)
          /\ lines \subseteq lines' /\ UNCHANGED postings
          /\ UNCHANGED matches \/ CommitUnmatch(s)
      BY <2>5 DEF LookRefused, InsertRefused, UpdateNothing, DeadlockVictim, Abort, CommitUnmatch,
                  CommitImport, Refuse, Fail, KeepBooks
    <3>2. Grown
      BY <3>1 DEF Grown, Posted
    <3>3. /\ Elsewhere(s) /\ ~IsMatching(s)'
          /\ op'[s] \in {"match", "record"} => pairs'[s] \in Seq(Askable(s)') /\ pairs'[s] # <<>>
      BY <3>1, <3>2, AnswerAsks
    <3>4. /\ LiveMatches' \subseteq LiveMatches
          /\ \A m \in LiveMatches' :
               matches'[m].line = matches[m].line /\ matches'[m].posting = matches[m].posting
      <4>1. CASE UNCHANGED matches
        BY <4>1 DEF LiveMatches
      <4>2. CASE CommitUnmatch(s)
        <5>1. /\ DOMAIN matches' = DOMAIN matches
              /\ \A m \in DOMAIN matches :
                   matches'[m] = IF m \in LiveOf(s) THEN [matches[m] EXCEPT !.live = FALSE]
                                                    ELSE matches[m]
          BY <4>2 DEF CommitUnmatch
        <5>2. \A m \in DOMAIN matches :
                /\ matches'[m].line = matches[m].line /\ matches'[m].posting = matches[m].posting
                /\ matches'[m].live => matches[m].live
          BY <5>1 DEF Inv, Rows, IsMatch
        <5> QED BY <5>1, <5>2 DEF LiveMatches
      <4> QED BY <3>1, <4>1, <4>2
    <3> QED BY <3>1, <3>3, <3>4, QuietPairs
  <2> QED BY <1>3, <2>1, <2>2, <2>3, <2>4, <2>5 DEF Step
<1> QED BY <1>1, <1>2, <1>3 DEF Next

THEOREM MatchInvariant == Spec => []MatchInv
<1>1. Inv /\ ImportInv /\ MatchInv /\ [Next]_bankVars => MatchInv'
  BY MatchStep DEF ImportInv
<1> QED BY MatchInit, <1>1, InvInvariant, ImportInvariant, PTL DEF Spec

\* The sums of a statement and its books, part by part: what is not matched
\* cancels, and what is matched is the same on both sides, match by match.
Explained ==
  SumFunctionOnSet(InBooks, Posted) + SumFunctionOnSet(OnStatement, OpenLines)
    - SumFunctionOnSet(InBooks, OpenPostings(FirstDay, 0))

LEMMA GapsCancel ==
  ASSUME Inv, Statement, MatchInv
  PROVE  /\ SumFunctionOnSet(InBooks, Posted) \in Int
         /\ SumFunctionOnSet(OnStatement, OpenLines) \in Int
         /\ SumFunctionOnSet(InBooks, OpenPostings(FirstDay, 0)) \in Int
         /\ SumFunctionOnSet(OnStatement, lines) \in Int
         /\ SumFunctionOnSet(InBooks, Early) \in Int
         /\ Explained = SumFunctionOnSet(OnStatement, lines) + SumFunctionOnSet(InBooks, Early)
<1> DEFINE Books(S) == SumFunctionOnSet(InBooks, S)
           Bank_(S) == SumFunctionOnSet(OnStatement, S)
           P == Posted
           M == MatchedPostings
           O == OpenPostings(FirstDay, 0)
           L == lines
           ML == MatchedLines
<1>1. IsFiniteSet(P) /\ IsFiniteSet(LiveMatches) /\ IsFiniteSet(L)
  <2>1. DOMAIN postings = 1..Len(postings) /\ Len(postings) \in Nat
    BY DEF Inv, Rows, IsSequence
  <2>2. DOMAIN matches = 1..Len(matches) /\ Len(matches) \in Nat
    BY DEF Inv, Rows, IsSequence
  <2>3. IsFiniteSet(1..Len(postings)) /\ IsFiniteSet(1..Len(matches))
    BY <2>1, <2>2, FS_Interval
  <2>4. Posted \subseteq 1..Len(postings) /\ LiveMatches \subseteq 1..Len(matches)
    BY <2>1, <2>2 DEF Posted, LiveMatches
  <2> QED BY <2>3, <2>4, FS_Subset DEF Statement
<1>2. M \subseteq P /\ ML \subseteq L /\ O \subseteq P \ M
  BY DEF MatchedPostings, MatchedLines, MatchInv, Paired, Fits, OpenPostings
<1>3. \A x \in P : InBooks[x] \in Int
  BY DEF InBooks, MatchInv, PostingTypes, Posted
<1>4. \A x \in L : OnStatement[x] \in Int
  BY BankAssumption DEF OnStatement, Statement
<1>5. Books(M) = Bank_(ML)
  <2> DEFINE lineOf == [m \in LiveMatches |-> matches[m].line]
             postingOf == [m \in LiveMatches |-> matches[m].posting]
             worth == [m \in LiveMatches |-> AmountOf[matches[m].line]]
             T == LiveMatches
             f == OnStatement
             g == InBooks
  <2>1. M = {postingOf[m] : m \in T} /\ ML = {lineOf[m] : m \in T}
    BY DEF MatchedPostings, MatchedLines
  <2>2. \A m, n \in T : lineOf[m] = lineOf[n] => m = n
    BY DEF Inv, LiveOnce
  <2>3. \A m, n \in T : postingOf[m] = postingOf[n] => m = n
    BY DEF MatchInv, Paired
  <2>4. \A m \in T : f[lineOf[m]] \in Int /\ worth[m] = f[lineOf[m]]
    BY <1>4 DEF MatchInv, Paired, OnStatement
  <2>5. \A m \in T : g[postingOf[m]] \in Int /\ worth[m] = g[postingOf[m]]
    <3> SUFFICES ASSUME NEW m \in T
                 PROVE  g[postingOf[m]] \in Int /\ worth[m] = g[postingOf[m]]
      OBVIOUS
    <3>1. postingOf[m] \in P /\ postings[postingOf[m]].amount = AmountOf[lineOf[m]]
      BY DEF MatchInv, Paired, Fits
    <3> QED BY <1>3, <3>1 DEF InBooks, Posted
  <2> HIDE DEF lineOf, postingOf, worth, T, f, g
  <2>6. IsFiniteSet(T)
    BY <1>1 DEF T
  <2>7. SumFunctionOnSet(f, {lineOf[m] : m \in T}) = SumFunctionOnSet(worth, T)
    BY <2>2, <2>4, <2>6, SumOfImage
  <2>8. SumFunctionOnSet(g, {postingOf[m] : m \in T}) = SumFunctionOnSet(worth, T)
    BY <2>3, <2>5, <2>6, SumOfImage
  <2> QED BY <2>1, <2>7, <2>8 DEF f, g
<1>6. /\ Early = (P \ M) \ O /\ OpenLines = L \ ML
  BY DEF Early, OpenLines
<1> DEFINE BF == (P \ M) \ O
<1>7. Books(P) = Books(M) + Books(P \ M) /\ Books(P \ M) = Books(O) + Books(BF)
  <2> HIDE DEF P, M, O
  <2>1. IsFiniteSet(P \ M) /\ \A x \in P \ M : InBooks[x] \in Int
    BY <1>1, <1>3, FS_Subset
  <2>2. M \in SUBSET P /\ O \in SUBSET (P \ M)
    BY <1>2
  <2>3. Books(P) = Books(M) + Books(P \ M)
    BY <1>1, <1>3, <2>2, SumOfParts
  <2>4. Books(P \ M) = Books(O) + Books((P \ M) \ O)
    BY <2>1, <2>2, SumOfParts
  <2> QED BY <2>3, <2>4
<1>8. Bank_(L) = Bank_(ML) + Bank_(L \ ML)
  <2> HIDE DEF L, ML
  <2>1. ML \in SUBSET L
    BY <1>2
  <2> QED BY <1>1, <1>4, <2>1, SumOfParts
<1>9. /\ Books(P) \in Int /\ Books(M) \in Int /\ Books(O) \in Int /\ Books(BF) \in Int
      /\ Books(P \ M) \in Int
      /\ Bank_(L) \in Int /\ Bank_(ML) \in Int /\ Bank_(L \ ML) \in Int
  <2> HIDE DEF P, M, O, L, ML
  <2>1. \A S \in SUBSET P : Books(S) \in Int
    <3> SUFFICES ASSUME NEW S \in SUBSET P PROVE Books(S) \in Int
      OBVIOUS
    <3>1. IsFiniteSet(S) /\ \A x \in S : InBooks[x] \in Int
      BY <1>1, <1>3, FS_Subset
    <3> QED BY <3>1, SumIsInt
  <2>2. \A S \in SUBSET L : Bank_(S) \in Int
    <3> SUFFICES ASSUME NEW S \in SUBSET L PROVE Bank_(S) \in Int
      OBVIOUS
    <3>1. IsFiniteSet(S) /\ \A x \in S : OnStatement[x] \in Int
      BY <1>1, <1>4, FS_Subset
    <3> QED BY <3>1, SumIsInt
  <2> HIDE DEF Books, Bank_
  <2> QED BY <1>2, <2>1, <2>2
<1>10. Explained = Books(P) + Bank_(L \ ML) - Books(O)
  BY <1>6 DEF Explained
<1>11. Explained = Bank_(L) + Books(BF)
  <2> HIDE DEF Books, Bank_, P, M, O, L, ML, BF
  <2> QED BY <1>5, <1>7, <1>8, <1>9, <1>10
<1> QED BY <1>6, <1>9, <1>11

\* What a report has read is what there still is, until something is committed.
Stage == {"idle", "bank only", "first", "latest", "books only", "shown"}

IsReport(x) ==
  /\ x = [explained |-> x.explained, first |-> x.first, balance |-> x.balance]
  /\ x.explained \in Int /\ x.balance \in SUBSET Int

ReportTypes == /\ at \in [Reader -> Stage] /\ stirred \in [Reader -> BOOLEAN]
               /\ report = [r \in Reader |-> report[r]]
               /\ \A r \in Reader : IsReport(report[r])

IdleIsEmpty == \A r \in Reader : at[r] = "idle" => report[r] = NoReport /\ ~stirred[r]

ReadSoFar(r) ==
  LET booked == SumFunctionOnSet(InBooks, Posted)
      unbooked == SumFunctionOnSet(OnStatement, OpenLines)
  IN  /\ at[r] = "bank only" => report[r].explained = booked
      /\ at[r] \in {"first", "latest", "books only"} => report[r].explained = booked + unbooked
      /\ at[r] \in {"latest", "books only"} => report[r].first = FirstDay
      /\ at[r] = "shown" => report[r].explained = Explained

ReadInv == ReportTypes /\ IdleIsEmpty /\ \A r \in Reader : ~stirred[r] => ReadSoFar(r)

LEMMA ReadInit == ReportInit => ReadInv
<1> SUFFICES ASSUME ReportInit PROVE ReadInv
  OBVIOUS
<1>1. IsReport(NoReport)
  BY DEF IsReport, NoReport
<1>2. ReportTypes
  BY <1>1 DEF ReportInit, ReportTypes, Stage
<1>3. \A r \in Reader : at[r] = "idle" /\ report[r] = NoReport /\ ~stirred[r]
  BY DEF ReportInit
<1> QED BY <1>2, <1>3 DEF ReadInv, IdleIsEmpty, ReadSoFar

\* Nothing committed: all that a report reads stands.
LEMMA NothingMoves ==
  ASSUME UNCHANGED <<lines, postings, matches>>
  PROVE  /\ SumFunctionOnSet(InBooks, Posted)' = SumFunctionOnSet(InBooks, Posted)
         /\ SumFunctionOnSet(OnStatement, OpenLines)' = SumFunctionOnSet(OnStatement, OpenLines)
         /\ FirstDay' = FirstDay /\ Explained' = Explained
<1>1. Posted' = Posted /\ InBooks' = InBooks
  BY DEF Posted, InBooks
<1>2. LiveMatches' = LiveMatches
  BY DEF LiveMatches
<1>3. MatchedLines' = MatchedLines /\ MatchedPostings' = MatchedPostings
  BY <1>2 DEF MatchedLines, MatchedPostings
<1>4. OpenLines' = OpenLines /\ OnStatement' = OnStatement
  BY <1>3 DEF OpenLines, OnStatement
<1>5. FirstDay' = FirstDay
  BY DEF FirstDay
<1>6. OpenPostings(FirstDay, 0)' = OpenPostings(FirstDay, 0)
  BY <1>1, <1>3, <1>5 DEF OpenPostings
<1>7. /\ SumFunctionOnSet(InBooks, Posted)' = SumFunctionOnSet(InBooks, Posted)
      /\ SumFunctionOnSet(OnStatement, OpenLines)' = SumFunctionOnSet(OnStatement, OpenLines)
      /\ SumFunctionOnSet(InBooks, OpenPostings(FirstDay, 0))' =
           SumFunctionOnSet(InBooks, OpenPostings(FirstDay, 0))
  BY <1>1, <1>4, <1>6
<1> QED BY <1>5, <1>7 DEF Explained

LEMMA BeneathReads ==
  ASSUME ReadInv, Beneath
  PROVE  ReadInv'
<1>1. /\ UNCHANGED <<at, report>>
      /\ stirred' = [r \in Reader |-> \/ stirred[r]
                                      \/ /\ at[r] # "idle"
                                         /\ <<lines, postings, matches>>' # <<lines, postings, matches>>]
  BY DEF Beneath
<1>2. ReportTypes'
  BY <1>1 DEF ReadInv, ReportTypes
<1>3. IdleIsEmpty'
  BY <1>1 DEF ReadInv, IdleIsEmpty
<1>4. ASSUME NEW r \in Reader, ~stirred'[r]
      PROVE  ReadSoFar(r)'
  <2>1. CASE at[r] = "idle"
    BY <1>1, <2>1 DEF ReadSoFar
  <2>2. CASE at[r] # "idle"
    <3>1. ~stirred[r] /\ UNCHANGED <<lines, postings, matches>>
      BY <1>1, <1>4, <2>2
    <3>2. ReadSoFar(r)
      BY <3>1 DEF ReadInv
    <3> QED BY <1>1, <3>1, <3>2, NothingMoves DEF ReadSoFar
  <2> QED BY <2>1, <2>2
<1> QED BY <1>2, <1>3, <1>4 DEF ReadInv

LEMMA BalancesAreInts ==
  ASSUME Statement, NEW l \in Latest
  PROVE  BalanceOf[l] \in SUBSET Int
BY BankAssumption DEF Latest, Statement

LEMMA SomeAreInts ==
  ASSUME Inv, MatchInv, NEW from
  PROVE  SumFunctionOnSet(InBooks, OpenPostings(from, 0)) \in Int
<1> DEFINE S == OpenPostings(from, 0)
<1>1. S \subseteq Posted
  BY DEF OpenPostings
<1>2. \A p \in S : InBooks[p] \in Int
  BY <1>1 DEF InBooks, MatchInv, PostingTypes, Posted
<1>3. IsFiniteSet(S)
  <2>1. DOMAIN postings = 1..Len(postings) /\ Len(postings) \in Nat
    BY DEF Inv, Rows, IsSequence
  <2>2. IsFiniteSet(1..Len(postings))
    BY <2>1, FS_Interval
  <2>3. S \subseteq 1..Len(postings)
    BY <1>1, <2>1 DEF Posted
  <2> QED BY <2>2, <2>3, FS_Subset
<1> HIDE DEF S
<1>4. SumFunctionOnSet(InBooks, S) \in Int
  BY <1>2, <1>3, SumIsInt
<1> QED BY <1>4 DEF S

LEMMA OneReads ==
  ASSUME Inv, Statement, MatchInv, ReadInv, NEW r \in Reader, Reading(r)
  PROVE  ReadInv'
<1> DEFINE booked == SumFunctionOnSet(InBooks, Posted)
           unbooked == SumFunctionOnSet(OnStatement, OpenLines)
           early == SumFunctionOnSet(InBooks, OpenPostings(FirstDay, 0))
           old == report[r]
<1>1. /\ UNCHANGED <<lines, postings, matches>>
      /\ \A q \in Reader \ {r} : at'[q] = at[q] /\ report'[q] = report[q] /\ stirred'[q] = stirred[q]
      /\ at' = [q \in Reader |-> at'[q]] /\ stirred' = [q \in Reader |-> stirred'[q]]
      /\ report' = [q \in Reader |-> report'[q]]
  BY DEF Reading, ReadLedger, ReadBankOnly, ReadFirst, ReadLatest, ReadBooksOnly, Leave, Read,
         bankVars, ReadInv, ReportTypes
<1>2. booked \in Int /\ unbooked \in Int /\ early \in Int
  BY GapsCancel
<1>3. IsReport(old) /\ at[r] \in Stage /\ stirred[r] \in BOOLEAN /\ (~stirred[r] => ReadSoFar(r))
  BY DEF ReadInv, ReportTypes
<1>4. /\ booked' = booked /\ unbooked' = unbooked /\ FirstDay' = FirstDay
      /\ Explained' = Explained /\ Explained = booked + unbooked - early
  BY <1>1, NothingMoves DEF Explained
<1> HIDE DEF booked, unbooked, early
<1>5. /\ at'[r] \in Stage /\ stirred'[r] \in BOOLEAN /\ IsReport(report'[r])
      /\ at'[r] = "idle" => report'[r] = NoReport /\ ~stirred'[r]
      /\ ~stirred'[r] => ReadSoFar(r)'
  <2>1. CASE ReadLedger(r)
    <3>1. at'[r] = "bank only" /\ report'[r] = [NoReport EXCEPT !.explained = booked]
      BY <2>1 DEF ReadLedger, Read, ReadInv, ReportTypes, booked
    <3>2. report'[r] = [explained |-> booked, first |-> {}, balance |-> {}]
      BY <3>1 DEF NoReport
    <3>3. stirred'[r] = stirred[r]
      BY <2>1 DEF ReadLedger, Read
    <3>4. IsReport(report'[r]) /\ report'[r].explained = booked
      BY <1>2, <3>2 DEF IsReport
    <3>5. ReadSoFar(r)'
      BY <1>4, <3>1, <3>4 DEF ReadSoFar, booked, unbooked
    <3> QED BY <1>3, <3>1, <3>3, <3>4, <3>5 DEF Stage
  <2>2. CASE ReadBankOnly(r)
    <3>1. at[r] = "bank only" /\ at'[r] = "first" /\ stirred'[r] = stirred[r]
          /\ report'[r] = [old EXCEPT !.explained = @ + unbooked]
      BY <2>2 DEF ReadBankOnly, Read, ReadInv, ReportTypes, unbooked
    <3>2. /\ report'[r] = [explained |-> old.explained + unbooked, first |-> old.first,
                           balance |-> old.balance]
      BY <1>3, <3>1 DEF IsReport
    <3>3. ~stirred[r] => old.explained = booked
      BY <1>3, <3>1 DEF ReadSoFar, booked
    <3>4. IsReport(report'[r]) /\ report'[r].explained = old.explained + unbooked
      <4> HIDE DEF old
      <4> QED BY <1>2, <1>3, <3>2 DEF IsReport
    <3>5. ~stirred[r] => ReadSoFar(r)'
      BY <1>4, <3>1, <3>3, <3>4 DEF ReadSoFar, booked, unbooked
    <3> QED BY <1>3, <3>1, <3>4, <3>5 DEF Stage
  <2>3. CASE ReadFirst(r)
    <3>1. at[r] = "first" /\ at'[r] = "latest" /\ stirred'[r] = stirred[r]
          /\ report'[r] = [old EXCEPT !.first = FirstDay]
      BY <2>3 DEF ReadFirst, Read, ReadInv, ReportTypes
    <3>2. report'[r] = [explained |-> old.explained, first |-> FirstDay, balance |-> old.balance]
      BY <1>3, <3>1 DEF IsReport
    <3>3. ~stirred[r] => old.explained = booked + unbooked
      BY <1>3, <3>1 DEF ReadSoFar, booked, unbooked
    <3> QED BY <1>3, <1>4, <3>1, <3>2, <3>3 DEF IsReport, Stage, ReadSoFar, booked, unbooked
  <2>4. CASE ReadLatest(r)
    <3>1. at[r] = "latest" /\ at'[r] = "books only" /\ stirred'[r] = stirred[r]
      BY <2>4 DEF ReadLatest, Read, ReadInv, ReportTypes
    <3>2. /\ report'[r].explained = old.explained /\ report'[r].first = old.first
          /\ IsReport(report'[r])
      <4>1. CASE report'[r] = old
        BY <1>3, <4>1
      <4>2. CASE \E l \in Latest : report'[r] = [old EXCEPT !.balance = BalanceOf[l]]
        <5>1. PICK l \in Latest : report'[r] = [old EXCEPT !.balance = BalanceOf[l]]
          BY <4>2
        <5>2. report'[r] = [explained |-> old.explained, first |-> old.first, balance |-> BalanceOf[l]]
          BY <1>3, <5>1 DEF IsReport
        <5> QED BY <1>3, <5>2, BalancesAreInts DEF IsReport
      <4> QED BY <2>4, <4>1, <4>2 DEF ReadLatest, Read, ReadInv, ReportTypes
    <3>3. ~stirred[r] => old.explained = booked + unbooked /\ old.first = FirstDay
      BY <1>3, <3>1 DEF ReadSoFar, booked, unbooked
    <3> QED BY <1>3, <1>4, <3>1, <3>2, <3>3 DEF Stage, ReadSoFar, booked, unbooked
  <2>5. CASE ReadBooksOnly(r)
    <3> DEFINE late == SumFunctionOnSet(InBooks, OpenPostings(old.first, 0))
    <3>1. at[r] = "books only" /\ at'[r] = "shown" /\ stirred'[r] = stirred[r]
          /\ report'[r] = [old EXCEPT !.explained = @ - late, !.first = {}]
      BY <2>5 DEF ReadBooksOnly, Read, ReadInv, ReportTypes
    <3>2. ~stirred[r] => old.explained = booked + unbooked /\ late = early
      BY <1>3, <3>1 DEF ReadSoFar, booked, unbooked, early
    <3>3. late \in Int
      BY SomeAreInts
    <3> HIDE DEF late
    <3>4. report'[r] = [explained |-> old.explained - late, first |-> {}, balance |-> old.balance]
      BY <1>3, <3>1 DEF IsReport
    <3>5. IsReport(report'[r]) /\ report'[r].explained = old.explained - late
      <4> HIDE DEF old
      <4> QED BY <1>2, <1>3, <3>3, <3>4 DEF IsReport
    <3>6. ~stirred[r] => report'[r].explained = Explained
      <4> HIDE DEF old
      <4> QED BY <1>2, <1>4, <3>2, <3>5
    <3>7. ~stirred[r] => ReadSoFar(r)'
      BY <1>4, <3>1, <3>6 DEF ReadSoFar
    <3> QED BY <1>3, <3>1, <3>5, <3>7 DEF Stage
  <2>6. CASE Leave(r)
    <3>1. at'[r] = "idle" /\ report'[r] = NoReport /\ stirred'[r] = FALSE
      BY <2>6 DEF Leave, ReadInv, ReportTypes
    <3>2. IsReport(NoReport)
      BY DEF IsReport, NoReport
    <3> QED BY <3>1, <3>2 DEF Stage, ReadSoFar
  <2> QED BY <2>1, <2>2, <2>3, <2>4, <2>5, <2>6 DEF Reading
<1>6. \A q \in Reader \ {r} : ~stirred'[q] => ReadSoFar(q)'
  BY <1>1, <1>4 DEF ReadInv, ReadSoFar, booked, unbooked
<1>7. ReportTypes'
  <2>1. \A q \in Reader : at'[q] \in Stage /\ stirred'[q] \in BOOLEAN /\ IsReport(report'[q])
    BY <1>1, <1>5 DEF ReadInv, ReportTypes
  <2> QED BY <1>1, <2>1 DEF ReportTypes
<1>8. IdleIsEmpty'
  BY <1>1, <1>5 DEF ReadInv, IdleIsEmpty
<1> QED BY <1>5, <1>6, <1>7, <1>8 DEF ReadInv

\* The reports are read over the bank's own steps, and add none.
LEMMA ReportsUseTheBank == ReportSpec => Spec
<1>1. ReportInit => Init
  BY DEF ReportInit
<1>2. [ReportNext]_<<bankVars, reportVars>> => [Next]_bankVars
  <2>1. Beneath => Next
    BY DEF Beneath
  <2>2. \A r \in Reader : Reading(r) => UNCHANGED bankVars
    BY DEF Reading, ReadLedger, ReadBankOnly, ReadFirst, ReadLatest, ReadBooksOnly, Leave, Read
  <2> QED BY <2>1, <2>2 DEF ReportNext
<1> QED BY <1>1, <1>2, PTL DEF ReportSpec, Spec

THEOREM ReadInvariant == ReportSpec => []ReadInv
<1>1. Inv /\ ImportInv /\ MatchInv /\ ReadInv /\ [ReportNext]_<<bankVars, reportVars>> => ReadInv'
  <2> SUFFICES ASSUME Inv, Statement, MatchInv, ReadInv, [ReportNext]_<<bankVars, reportVars>>
               PROVE  ReadInv'
    BY DEF ImportInv
  <2>1. CASE Beneath
    BY <2>1, BeneathReads
  <2>2. CASE \E r \in Reader : Reading(r)
    BY <2>2, OneReads
  <2>3. CASE UNCHANGED <<bankVars, reportVars>>
    <3>1. UNCHANGED <<lines, postings, matches>> /\ UNCHANGED <<at, report, stirred>>
      BY <2>3 DEF bankVars, reportVars
    <3> QED BY <3>1, NothingMoves DEF ReadInv, ReportTypes, IdleIsEmpty, ReadSoFar
  <2> QED BY <2>1, <2>2, <2>3 DEF ReportNext
<1> QED BY ReadInit, <1>1, ReportsUseTheBank, InvInvariant, ImportInvariant, MatchInvariant,
           PTL DEF ReportSpec

\* Whatever was imported, matched, undone and recorded before it, a report nobody
\* committed under explains every gap: what it leaves is what the bank has beside
\* the lines imported, less what the books have from before them.
THEOREM ReportsExplain == ReportSpec => []GapsAreExplained
<1>1. Inv /\ ImportInv /\ MatchInv /\ ReadInv => GapsAreExplained
  <2> SUFFICES ASSUME Inv, Statement, MatchInv, ReadInv, NEW r \in Reader, Undisturbed(r)
               PROVE  Difference(r) = {b - SumFunctionOnSet(OnStatement, lines)
                                         - SumFunctionOnSet(InBooks, Early) : b \in report[r].balance}
    BY DEF ImportInv, GapsAreExplained
  <2> DEFINE x == SumFunctionOnSet(OnStatement, lines)
             y == SumFunctionOnSet(InBooks, Early)
             e == report[r].explained
             B == report[r].balance
  <2>1. e = Explained
    BY DEF ReadInv, ReadSoFar, Undisturbed
  <2>2. x \in Int /\ y \in Int /\ e = x + y
    BY <2>1, GapsCancel
  <2>3. B \in SUBSET Int
    BY DEF ReadInv, ReportTypes, IsReport
  <2>4. Difference(r) = {b - e : b \in B}
    BY DEF Difference
  <2> HIDE DEF x, y, e, B
  <2>5. \A b \in B : b - e = b - x - y
    BY <2>2, <2>3
  <2>6. {b - e : b \in B} = {b - x - y : b \in B}
    BY <2>5
  <2> QED BY <2>4, <2>6 DEF x, y, B
<1> QED BY <1>1, ReadInvariant, ReportsUseTheBank, InvInvariant, ImportInvariant, MatchInvariant, PTL

\* Two suggestions never compete: of two candidates as near as each other, neither
\* is suggested.
THEOREM SuggestionsAreDistinct == Spec => []SuggestionsPair
<1>1. Statement /\ MatchInv => SuggestionsPair
  <2> SUFFICES ASSUME Statement, MatchInv, NEW m \in Suggested, NEW n \in Suggested, Same(m, n)
               PROVE  m = n
    BY DEF SuggestionsPair
  <2>1. \A l \in lines, p \in DOMAIN postings : Apart(l, p) \in Int
    BY BankAssumption DEF Apart, Statement, MatchInv, PostingTypes
  <2>2. /\ \A x \in Suggested : \E l \in OpenLines : \E p \in BestPosting(l) : x = Pair(l, p)
        /\ \A x \in Suggested : x.line \in BestLine(x.posting)
    BY DEF Suggested, Nearest
  <2>3. \A x \in Suggested :
          /\ x = Pair(x.line, x.posting) /\ x.line \in OpenLines /\ x.line \in lines
          /\ x.posting \in BestPosting(x.line)
    BY <2>2 DEF Pair, OpenLines
  <2>4. \A l : BestPosting(l) \subseteq Candidates(l) /\ Candidates(l) \subseteq DOMAIN postings
    BY DEF BestPosting, Candidates, OpenPostings, Posted
  <2>5. CASE m.line = n.line
    <3> DEFINE l == m.line
    <3>1. /\ m.posting \in BestPosting(l) /\ n.posting \in BestPosting(l)
          /\ m.posting \in Candidates(l) /\ n.posting \in Candidates(l)
      BY <2>3, <2>4, <2>5
    <3>2. Apart(l, m.posting) \in Int /\ Apart(l, n.posting) \in Int
      BY <2>1, <2>3, <2>4, <3>1
    <3>3. m.posting = n.posting
      BY <3>1, <3>2 DEF BestPosting
    <3> QED BY <2>3, <2>5, <3>3
  <2>6. CASE m.posting = n.posting
    <3> DEFINE p == m.posting
               close == {l \in OpenLines : p \in Candidates(l)}
    <3>1. m.line \in BestLine(p) /\ n.line \in BestLine(p)
      BY <2>2, <2>6
    <3>2. /\ m.line \in close /\ n.line \in close
          /\ m.line # n.line => Apart(m.line, p) < Apart(n.line, p) /\ Apart(n.line, p) < Apart(m.line, p)
      BY <3>1 DEF BestLine
    <3>3. Apart(m.line, p) \in Int /\ Apart(n.line, p) \in Int
      BY <2>1, <2>3, <2>4
    <3>4. m.line = n.line
      BY <3>2, <3>3
    <3> QED BY <2>3, <2>6, <3>4
  <2> QED BY <2>5, <2>6 DEF Same
<1> QED BY <1>1, ImportInvariant, MatchInvariant, PTL DEF ImportInv

=============================================================================
