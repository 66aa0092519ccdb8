------------------------------- MODULE Nothing -------------------------------
(* The value of what is not there: an absent file, an unset field, no        *)
(* command under way.  One declaration, for the modules that are composed.   *)
CONSTANT None
=============================================================================
