------------------------------- MODULE MCItdr -------------------------------
(* Instances of IdentityThreats for TLC.                                   *)
EXTENDS IdentityThreats, Integers, TLC

Auth(success, mfa, abusive, place, at) ==
  [user |-> "u", success |-> success, mfa |-> mfa, abusive |-> abusive, place |-> place, at |-> at]
Attack(place, at) == Auth(FALSE, FALSE, TRUE, place, at)
Login(place, at)  == Auth(TRUE, TRUE, FALSE, place, at)

(* Two cities 1500 km apart: within reach in two hours, not in one.        *)
Cities == {"berlin", "madrid"}
CityKm == [c \in Cities \X Cities |-> IF c[1] = c[2] THEN 0 ELSE 1500]

(* Attacks that have every factor by the third, failures and successes that*)
(* break the run of them, with and without a second factor or a position.  *)
MCEvents == {Attack("berlin", 0), Attack("madrid", 1), Attack("berlin", 2),
             Auth(FALSE, FALSE, FALSE, None, 1), Auth(TRUE, FALSE, FALSE, "madrid", 2),
             Login(None, 1), Login("berlin", 0)}

(* Positions only.                                                         *)
TravelEvents == {Login(place, at) : place \in Cities \cup {None}, at \in 0..2}

(* Threads are interchangeable.                                            *)
Symmetry == Permutations(Threads)
=============================================================================
