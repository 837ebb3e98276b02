-------------------------- MODULE MCSingularCalls --------------------------
EXTENDS SingularCalls
CONSTANTS g1, i1, i2
MCGapRings == {g1}
MCRings == {g1, i1, i2}
=============================================================================
