--------------------------- MODULE MCCountryProxy ---------------------------
(* CountryProxy for TLC. *)
EXTENDS CountryProxy
=============================================================================
