------------------------- MODULE MCLowLevelMappings -------------------------
EXTENDS LowLevelMappings, TLC
Symmetry == Permutations(Bags) \cup Permutations(Rings) \cup Permutations(Data)
MCMappings == {"p_Mult_nn", "p_Add_q",
               "pLength", "pReverse"}
=============================================================================
