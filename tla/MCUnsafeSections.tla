-------------------------- MODULE MCUnsafeSections --------------------------
(* Every source of NTokens tokens of the kinds given; "other" tokens stand *)
(* for the shorter sources.                                                *)
EXTENDS UnsafeSections
=============================================================================
