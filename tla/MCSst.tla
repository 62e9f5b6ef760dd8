------------------------------- MODULE MCSst -------------------------------
(* Values of the constants of Sst for TLC. *)
EXTENDS Sst

Letters == {"a", "b", "c", "4", "2"}

\* A string of two characters and one of one.
Strings == {<<"a", "b">>, <<"c">>}
Final == <<"4", "2">>

\* One request of the user process that may do wrong, two of the other.
Requests == <<1, 2>>

\* The printer of the user process that may trap.
FirstPrinter == {printer(1)}
=============================================================================
