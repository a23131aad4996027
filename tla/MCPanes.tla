------------------------------ MODULE MCPanes -------------------------------
(* Panes with ops of two layers and of two of the buckets outside them. *)
EXTENDS Panes

Op(layer, cls, lat, signs) == [layer |-> layer, cls |-> cls, lat |-> lat, signs |-> signs]

MCOps == {Op(0, "Attn", 1, {"outlier", "cpu"}), Op(0, "MLP", 2, {"cpu"}),
          Op(1, "Attn", 1, {"nan", "outlier"}),
          Op(-1, "Embed", 0, {"cpu"}), Op(-1, "Norm", 3, {"inf"})}

MCMatrices == {[rows |-> 1, cols |-> 6], [rows |-> 5, cols |-> 5]}
=============================================================================
