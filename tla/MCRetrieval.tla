------------------------------ MODULE MCRetrieval ------------------------------
(* Instances of Retrieval for TLC. *)
EXTENDS Retrieval, TLC

CONSTANTS r1, q1, q2

\* q1: the words find only the row that comes later, and 2 is the nearest of the
\* others; q2: all rows have some of the words, all but 3 have all, none a vector.
MCText == q1 :> <<0, 0, 1, 0>> @@ q2 :> <<2, 7, 3, 7>>
MCAllWords == q1 :> <<0, 0, 1, 0>> @@ q2 :> <<1, 5, 0, 2>>
MCVector == q1 :> <<1, 6, 5, 1>> @@ q2 :> <<0, 0, 0, 0>>
MCKeywords == q1 :> 1 @@ q2 :> 4
MCOverlap == q1 :> <<0, 0, 1, 0>> @@ q2 :> <<3, 0, 0, 1>>

\* The most popular first, the least popular first, and one in between.
MCListing == {<<1, 2, 3, 4, 5>>, <<5, 4, 3, 2, 1>>, <<3, 5, 1, 4, 2>>}
================================================================================
