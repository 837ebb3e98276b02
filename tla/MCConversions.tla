--------------------------- MODULE MCConversions ---------------------------
EXTENDS Conversions

Leaves(t, n) == [k \in 1..n |-> Leaf(t, k)]
MCFlat == {Vector("ideal", Leaves("poly", 2)), Vector("intvec", Leaves("int", 3)),
           Matrix("matrix", 2, 3, Leaves("poly", 6)),
           Matrix("intmat", 1, 2, Leaves("int", 2)),
           Matrix("bigintmat", 3, 1, Leaves("bigint", 3)),
           Leaf("poly", 7)}
MCLists == {Vector("list", <<a, b>>) : a, b \in MCFlat \cup {Vector("list", <<>>)}}
MCNested == {Vector("list", <<a>>) : a \in MCLists}
MCObjects == MCFlat \cup MCLists \cup MCNested

MCIntegers == -20..20
MCNumbers == {GapInt(n) : n \in MCIntegers}
             \cup {GapRat(n, d) : n \in {-17, -1, 2, 11}, d \in {5, 7, 15}}
             \cup {GapRat(9, 7), GapRat(-10, 7)}
             \cup {GapFFE(5, 1, v) : v \in 0..4}
             \cup {GapFFE(3, 1, 2), GapFFE(5, 2, 3), GapOther}
MCFields == {[kind |-> "Q", char |-> 0], [kind |-> "Zp", char |-> 3],
             [kind |-> "Zp", char |-> 5], [kind |-> "other", char |-> 5]}
=============================================================================
