----------------------------- MODULE MCEncodings -----------------------------
(* Encodings for TLC: texts that share letters with what separates them. *)
EXTENDS Encodings

MCLetter == {"a", "b", ":", "k", "l"}
MCText == {<<>>, <<"a">>, <<":">>, <<"a", ":", "b">>}
MCSizes == {<<Zero, Zero>>, <<"a", Zero>>, <<Zero, "a">>, <<":", " ">>}
MCDefault == <<"k">> :> <<"b">> @@ <<"l">> :> <<>>
=============================================================================
