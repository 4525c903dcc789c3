---------------------------- MODULE MCRequestBody ----------------------------
(* Small instances of RequestBody for TLC.                                 *)
EXTENDS RequestBody

CONSTANT eob

=============================================================================
