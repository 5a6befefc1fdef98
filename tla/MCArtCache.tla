----------------------------- MODULE MCArtCache -----------------------------
EXTENDS ArtCache

CONSTANTS g1, g2

MCCards == <<g1, g2>>
=============================================================================
