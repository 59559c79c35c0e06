------------------------------- MODULE MCGeoIP -------------------------------
(* GeoIPService on a small instance.                                        *)
EXTENDS GeoIP

CONSTANTS a, b

\* Both editions of the MMDB files are complete for a and not for b: a lookup of
\* a is poor only if the reader it holds was closed under it.
TwoEditions == <<{a}, {a}>>
=============================================================================
