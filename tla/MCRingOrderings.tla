-------------------------- MODULE MCRingOrderings --------------------------
EXTENDS RingOrderings

(***************************************************************************)
(* One entry of every kind the code tells apart, accepted or refused.      *)
(***************************************************************************)
MCEntries ==
  {Entry("d", "int", n) : n \in -1..2}
    \cup {Entry("w", "list", n) : n \in 1..2}
    \cup {Entry("M", "list", n) : n \in {1, 2, 4}}
    \cup {Entry("a", "list", 1), Entry("a", "other", 0), Entry("M", "int", 1),
          Entry("w", "int", 1), Entry("w?", "list", 1), Entry("?", "int", 1),
          Entry("d", "none", 0), Entry("d", "list", 1), Entry("bad", "int", 1)}
    \cup {Entry("c", "none", 0), Entry("c", "int", 0), Entry("c", "int", 1),
          Entry("c", "list", 1), Entry("c", "other", 0)}
=============================================================================
