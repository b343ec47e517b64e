----------------------------- MODULE MCSaleSync -----------------------------
(* Instances of SaleSync for TLC.  Slots, assignments, barbers and sales that
   no constant singles out are interchangeable. *)
EXTENDS SaleSync, TLC

CONSTANTS p1, p2, t1, t2, b1, b2, a1, a2, x1, x2, x3, s1, s2, s3

OneTab == (t1 :> p1)
TwoTabs == (t1 :> p1) @@ (t2 :> p1)
TwoPhones == (t1 :> p1) @@ (t2 :> p2)

NoLegacy == [x \in {} |-> None]
OldSale == x2 :> [phone |-> p1, barber |-> b1, asg |-> None]

Alike ==
  Permutations(Slots) \cup Permutations(Assignments) \cup Permutations(Barbers)
    \cup Permutations(Sales)

(* The two phones, each with its page, change places. *)
PhonesToo == Alike \cup {(p1 :> p2) @@ (p2 :> p1) @@ (t1 :> t2) @@ (t2 :> t1)}

AlikeButSales == Permutations(Slots) \cup Permutations(Assignments)
=============================================================================
