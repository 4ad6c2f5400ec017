------------------------------ MODULE Returns ------------------------------
(***************************************************************************)
(* What a method call gives to its caller: nothing, a truth value, a       *)
(* value, an exception, the end of the process in a failed assert, or      *)
(* anything at all where it used memory that is not its own.               *)
(***************************************************************************)
None      == <<"none">>
Ok        == <<"ok">>
Yes       == <<"true">>
No        == <<"false">>
Throw     == <<"throw">>
Abort     == <<"abort">>
Undefined == <<"undefined">>

Bool(b)  == IF b THEN Yes ELSE No
Value(v) == <<"value", v>>

\* The program goes on after a call that gave r.
GoesOn(r) == r # Abort /\ r # Undefined
=============================================================================
