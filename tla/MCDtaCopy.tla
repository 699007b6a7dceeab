----------------------------- MODULE MCDtaCopy -----------------------------
(* Tables, strings and numbers for the runs of DtaCopy. *)
EXTENDS DtaCopy, TLC

StrStrNum == <<"str", "str", "num">>
StrStrStr == <<"str", "str", "str">>
EnumNum == <<"enum", "num">>

Labels == "0" :> "low" @@ "1" :> "high"

Numbers == {"n", Null, OutOfRange}
EnumValues == {"low", "high", Null}

EnumNumRows == EnumValues \X Numbers
StrStrNumRows ==
  {<<"a", "b", "n">>, <<"b", "a", "n">>, <<"b", "", OutOfRange>>, <<Null, "b", Null>>}
WideRows == {<<"a", "b", "c">>, <<"c", "c", "a">>}

ThreadSymmetry == Permutations(Threads)
=============================================================================
