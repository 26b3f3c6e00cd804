----------------------------- MODULE PythonNone ------------------------------
(* The value of a field, an argument or a result that is absent. *)
CONSTANT None
=============================================================================
