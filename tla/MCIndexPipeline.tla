---------------------------- MODULE MCIndexPipeline ----------------------------
(* Two processes, two input files and a handful of manifests.  The manifests   *)
(* m and mCtx differ in a material way, mMeta and m only in their metadata,    *)
(* mCmd and m in a way that changes the snapshot but is not material.          *)
EXTENDS IndexPipeline, TLC

Manifest(c, e, t) == [ctx |-> c, extra |-> e, meta |-> t]
m == Manifest("c1", "e1", "t1")
mCtx == Manifest("c2", "e1", "t1")
mCmd == Manifest("c1", "e2", "t1")
mMeta == Manifest("c1", "e1", "t2")

OneManifest == {m}
TwoContexts == {m, mCtx}
ThreeManifests == {m, mCtx, mCmd}
WithMetadata == {m, mMeta}
ManySources == {m, mCtx, mMeta, Absent}
===============================================================================
