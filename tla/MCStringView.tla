------------------------------ MODULE MCStringView ------------------------------
(***************************************************************************)
(* Words that overlap themselves and one another, in views of two letters, *)
(* the separator and NUL; key-value lines; numbers; CPU lists.             *)
(***************************************************************************)
EXTENDS StringViewCheck

Test(look_for, chars, max) == [word |-> look_for, chars |-> chars, max |-> max]

MCTests ==
  {Test(w, {"a", "b", " ", NUL}, 7) :
     w \in {<<>>, <<"a">>, <<"a", "a">>, <<"a", "b">>, <<"a", "b", "a">>}}
  \cup {Test(KeyValueSeparator, {"a", ":", " ", NUL}, 7),
        Test(<<>>, {"0", "x", "a", "7", "F"}, 6),
        Test(<<"3", "-", "8">>, {"0", "3", "-", ","}, 7)}
===============================================================================
