---------------------------- MODULE MCTieredProxy ----------------------------
EXTENDS TieredProxy, TLC
\* Two nodes of the cheap tier and one dear node.
TierCost == <<1, 1, 2>>
\* One node of each tier.
PairCost == <<1, 2>>
\* A node answers quickly or not at all at first.
FirstSpeed == {100, Down}
=============================================================================
