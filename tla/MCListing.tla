----------------------------- MODULE MCListing -----------------------------
(***************************************************************************)
(* Lists of up to four rows.                                               *)
(***************************************************************************)
EXTENDS ListingProperties

CONSTANTS a, b, c, d

MCRows == {a, b, c, d}
RowSymmetry == Permutations(MCRows)
=============================================================================
