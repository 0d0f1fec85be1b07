---------------------------- MODULE MCLogChannel ----------------------------
(* TLC: refusing above three entries, admitting again below two.           *)
EXTENDS LogChannel

=============================================================================
