---------------------------- MODULE MCPublication ----------------------------
\* Two collectors and two contents: the smallest instance in which a call meets
\* another publisher's file, complete or not, with its own or another content.
EXTENDS Publication
CONSTANTS p1, p2, c1, c2
MCPublishers == {p1, p2}
MCContents == {c1, c2}
BothLinkOutcomes == LinkResults
OnlyRefused == {"refused"}
=============================================================================
