----------------------------- MODULE MCCatalog -----------------------------
(* An instance of Catalog for TLC: two tables, one of them with two        *)
(* indexes.                                                                *)
EXTENDS Catalog, TLC

CONSTANTS t, u, i, j

MCTab == {t, u}
MCTabSeq == <<t, u>>
MCIndex == {i, j}
MCTabOf == [x \in MCIndex |-> t]
MCSymmetry == Permutations(MCIndex)
=============================================================================
