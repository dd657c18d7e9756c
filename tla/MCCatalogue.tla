----------------------------- MODULE MCCatalogue -----------------------------
(* Instances of Catalogue.                                                  *)
EXTENDS Catalogue

CONSTANTS i1, i2, d1, p1
=============================================================================
