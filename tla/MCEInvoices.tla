----------------------------- MODULE MCEInvoices ----------------------------
\* Three sessions of EInvoices, two series of different years, two sales, of which
\* one has a credit note.
EXTENDS EInvoices, TLC

CONSTANTS s1, s2, s3

SessionSymmetry == Permutations(Session)

Years == [x \in Series |-> IF x = "C26" THEN 26 ELSE 27]
Sales == [note \in Note |-> "export"]
=============================================================================
