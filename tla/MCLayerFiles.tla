---------------------------- MODULE MCLayerFiles ----------------------------
(* MCLayerStore where failures and a kill may come in one behaviour.       *)
EXTENDS MCLayerStore

\* A bound: the second build of the first version and the second version are
\* not there together; either comes to the first build, or after it.
OneAtATime ==
    ~({Build(1, 2), Layer(app, 2, "binary", "stable")} \subseteq named \cup live \cup deferred \cup dirs)
=============================================================================
