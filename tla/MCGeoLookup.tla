------------------------------ MODULE MCGeoLookup ------------------------------
(* Model checking of GeoLookup: lookups are interchangeable, and so are the  *)
(* addresses a provider can locate.                                          *)
EXTENDS GeoLookup, TLC

Symmetry == Permutations(Lookups) \cup Permutations(Addrs \ Private)
===============================================================================
