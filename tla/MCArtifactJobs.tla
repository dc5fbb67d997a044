--------------------------- MODULE MCArtifactJobs ---------------------------
(* Model values for module ArtifactJobs.                                    *)
EXTENDS ArtifactJobs, TLC

SmallSizes == <<1, 2>>

(* No manifest, one that cuts by items and one that cuts by bytes.          *)
SmallManifests == {NoManifest, [items |-> 1, bytes |-> 3], [items |-> 2, bytes |-> 2]}

Symmetry == Permutations(Workers)
=============================================================================
