--------------------------- MODULE MCClaimLedger ---------------------------
(* Contents on two topics: "brief" is a fragment of "full" that says another  *)
(* figure, both announce an update, and "blank" says nothing.  Two contents    *)
(* on one topic where no more is needed.                                       *)
EXTENDS ClaimLedger

Opinions == [brief |-> [cost |-> "10", day |-> "silent"],
             full  |-> [cost |-> "20", day |-> "May"],
             blank |-> [cost |-> "silent", day |-> "silent"]]
Contents == DOMAIN Opinions
Subjects == {"cost", "day"}
Updates == {"brief", "full"}
Fragments == {"brief"}

TwoOpinions == [old |-> [cost |-> "10"], new |-> [cost |-> "20"]]
TwoContents == DOMAIN TwoOpinions
OneSubject == {"cost"}
NewUpdates == {"new"}
=============================================================================
