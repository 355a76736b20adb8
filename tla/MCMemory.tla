------------------------------- MODULE MCMemory -------------------------------
(* Small instances of the parts of the memory.                             *)
EXTENDS Memory, TLC

(* Three facts and three other rows; the word "prazo" is in one of them    *)
(* and, for lack of a backslash, is not recognised as a term.              *)
SixRows == 1..6
ThreeFacts == {1, 3, 4}
RowWords == [r \in 1..6 |-> IF r = 4 THEN {"prazo"} ELSE IF r \in {1, 2, 6} THEN {"www"} ELSE {}]
AnyQuery == {{}, {"www"}, {"prazo"}}

(* A day of two messages and a reply, then one of a message and a reply.   *)
FourMessages == 1..4
TwoDays == <<1, 1, 1, 2>>
OneReply == <<0, 0, 1, 0>>
FiveDays == 1..5

Symmetry == Permutations(Sources) \cup Permutations(Workers)
=============================================================================
