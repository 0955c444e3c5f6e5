---------------------------- MODULE MCJsonDocument ----------------------------
(***************************************************************************)
(* Small instances of JsonDocument.                                        *)
(***************************************************************************)
EXTENDS JsonDocument

\* Two keys whose hashes are the same: 33 * 'E' + 'z' = 33 * 'F' + 'Y'.
MCKeys == {<<"Ez">>, <<"FY">>}
MCHash(key) == IF key \in {<<Quote, "Ez", Quote>>, <<Quote, "FY", Quote>>} THEN "2399" ELSE "0"

D(neg, whole, micro, quarter) ==
  Dbl([kind |-> "number", neg |-> neg, whole |-> whole, micro |-> micro,
       quarter |-> quarter])
\* The long string runs over its token and into the value of the next.
MCValues == {Str(<<"on">>), Str(<<"a", Comma, "b">>),
             Str(<<"------------------------------ seventy characters -----------------------">>),
             D(FALSE, 0, 12500, 2), D(TRUE, 9, 999999, 3), Dbl([kind |-> "huge"]),
             Object, Array}
MCElements == {Int32(-120), Null, Object, Array}

=============================================================================
