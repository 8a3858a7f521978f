--------------------------- MODULE MCResponseCache ---------------------------
(* TLC instances of ResponseCache. *)
EXTENDS ResponseCache, TLC

CONSTANTS t1, t2

TwoTxns == {t1, t2}
TxnSymmetry == Permutations(TwoTxns)

Get == [key |-> "a", method |-> "GET", auth |-> FALSE, sse |-> FALSE]
OnlyGet == {Get}
GetAndPost == {Get, [Get EXCEPT !.auth = TRUE], [Get EXCEPT !.method = "POST"]}

Json == [status |-> 200, cc |-> {}, life |-> <<>>, typed |-> TRUE, framed |-> TRUE,
         declared |-> 1, size |-> 1]
MaxAge(n) == [d \in {"max-age"} |-> n]
SomeResponses ==
  {Json,
   [Json EXCEPT !.declared = 0, !.size = 3],
   [Json EXCEPT !.cc = {"private"}],
   [Json EXCEPT !.cc = {"must-revalidate"}, !.life = MaxAge(1)],
   [Json EXCEPT !.life = MaxAge(2)],
   [Json EXCEPT !.life = [d \in {"s-maxage", "max-age"} |-> IF d = "max-age" THEN 1 ELSE 0]],
   [Json EXCEPT !.life = [d \in {"expires"} |-> 2]],
   [Json EXCEPT !.status = 304, !.declared = 0, !.size = 0]}
==============================================================================
