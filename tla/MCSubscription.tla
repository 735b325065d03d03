--------------------------- MODULE MCSubscription ---------------------------
(* Instances of Subscription for TLC.                                      *)
EXTENDS Subscription

CONSTANTS s1, s2, p1, p2

OneSub == {s1}
TwoSubs == {s1, s2}
OnePublisher == {p1}
TwoPublishers == {p1, p2}
None == {}
=============================================================================
