------------------------ MODULE MCSubscriberLocation ------------------------
(* Two MMEs, one of them added while the system runs and named by the rows   *)
(* of users, whose id is of the other; two subscribers whose numbers differ  *)
(* by a trailing zero; texts with a leading zero, of nobody and without      *)
(* digits.                                                                   *)
EXTENDS SubscriberLocation

Numbers == [k \in Provisioned |-> IF k = "s1" THEN <<1, 0>> ELSE <<1>>]
Texts == {<<1, 0>>, <<0, 1, 0>>, <<1>>, <<2>>, <<>>}
=============================================================================
