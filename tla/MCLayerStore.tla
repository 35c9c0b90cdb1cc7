---------------------------- MODULE MCLayerStore ----------------------------
(* LayerStore on small instances.                                          *)
EXTENDS LayerStore, TLC

CONSTANTS app, base

Ref(i, v) == [id |-> i, version |-> v]
Layer(i, v, m, s) == [ref |-> Ref(i, v), module |-> m, repo |-> s]

\* Two versions of an app and their base, all of them in the remote.
Plain == {Layer(app, 1, "binary", "stable"), Layer(app, 2, "binary", "stable"),
          Layer(base, 1, "binary", "stable")}

Build(v, n) == [ref |-> Ref(app, v), module |-> "binary", repo |-> "local", build |-> n]

\* The first version comes in two layer files, built one after the other.
WithFiles == {Layer(app, 2, "binary", "stable"), Layer(base, 1, "binary", "stable"),
              Build(1, 1), Build(1, 2)}

\* The first version, with a module, comes in files only, the second one from
\* the remote; so does a newer base.
WithModules == {Layer(app, 1, "binary", "local"), Layer(app, 1, "develop", "local"),
                Layer(app, 2, "binary", "stable"), Layer(app, 2, "develop", "stable"),
                Layer(base, 1, "binary", "stable"), Layer(base, 2, "binary", "stable")}

TwoApps   == [r \in {Ref(app, v) : v \in 1..2} |-> base]
=============================================================================
