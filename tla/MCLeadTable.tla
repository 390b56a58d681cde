------------------------------ MODULE MCLeadTable ------------------------------
(* A small instance of LeadTable for TLC: two keywords that find one lead *)
(* in common.                                                                *)
EXTENDS LeadTableProps, TLC

CONSTANTS u1, u2, w, c1, c2, l1, l2, l3

KeywordsOf == <<"detailing", "polish">>
FindsOf    == [k \in ToSet(KeywordsOf) |-> IF k = "polish" THEN {c2} ELSE {c1}]
LeadsIn    == [c \in {c1, c2} |-> IF c = c1 THEN <<l1, l2>> ELSE <<l1, l3>>]
InOrder(S) == (IF c1 \in S THEN LeadsIn[c1] ELSE <<>>) \o (IF c2 \in S THEN LeadsIn[c2] ELSE <<>>)
Reported   == [S \in SUBSET {c1, c2} |-> InOrder(S)]

\* Against the order of the report.
Backwards  == {<<l2, l1>>}

Interchangeable == Permutations({u1, u2})

=============================================================================
