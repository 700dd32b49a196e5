------------------------------- MODULE EodLedger -------------------------------
(***************************************************************************)
(* What the end-of-day store promises the programs that use it one at a    *)
(* time: a book of rows per calendar year.  A book is published whole, a   *)
(* later publication keeps every key of the earlier one, and one year is   *)
(* published at a time.  A year can be lost (its writer died rewriting     *)
(* it); a lost year is never quietly replaced by a book that starts again. *)
(***************************************************************************)
CONSTANTS Years, Row, KeyOf(_)

VARIABLES standing, book

vars == <<standing, book>>

KeysOf(R) == {KeyOf(r) : r \in R}
OneRowPerKey(R) == \A r, q \in R : KeyOf(r) = KeyOf(q) => r = q

Init ==
    /\ standing = [y \in Years |-> "empty"]
    /\ book = [y \in Years |-> {}]

Publish(y) ==
    /\ standing[y] # "lost"
    /\ book'[y] # {}
    /\ \A r \in book'[y] : r \in Row
    /\ OneRowPerKey(book'[y])
    /\ KeysOf(book[y]) \subseteq KeysOf(book'[y])
    /\ book' = [book EXCEPT ![y] = book'[y]]
    /\ standing' = [standing EXCEPT ![y] = "published"]

Lose(y) ==
    /\ standing[y] # "lost"
    /\ book' = [book EXCEPT ![y] = {}]
    /\ standing' = [standing EXCEPT ![y] = "lost"]

Next == \E y \in Years : Publish(y) \/ Lose(y)

Spec == Init /\ [][Next]_vars
================================================================================
