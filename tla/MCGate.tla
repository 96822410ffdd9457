-------------------------------- MODULE MCGate --------------------------------
(* Gate for TLC: patches of a file with an exported and an unexported       *)
(* function; each diff comes for two versions of the file.                  *)
EXTENDS Gate

Field(n, type) == [names |-> n, type |-> type]
Function(key, exported, params, results) ==
  [key |-> key, exported |-> exported, tparams |-> <<>>, params |-> params, results |-> results]

Pair == Function("Store.Pair", TRUE, <<Field(2, "int")>>, <<Field(2, "int")>>)
Helper == Function("helper", FALSE, <<Field(1, "int")>>, <<>>)

Go(funcs) == [parses |-> TRUE, funcs |-> funcs]
NotGo == [parses |-> FALSE, funcs |-> <<>>]
Old == Go(<<Pair, Helper>>)

Change(diff, orig, patched) == [diff |-> diff, orig |-> orig, patched |-> patched]

Patch ==
  [breaks  |-> Change("d1", Old, NotGo),
   splits  |-> Change("d1", Go(<<Pair>>), Go(<<[Pair EXCEPT !.params = <<Field(1, "int"), Field(1, "int")>>], Helper>>)),
   loses   |-> Change("d2", Old, Go(<<Helper>>)),
   narrows |-> Change("d2", Go(<<Pair>>), Go(<<[Pair EXCEPT !.params = <<Field(1, "int")>>]>>))]
=============================================================================
