------------------------ MODULE MCAnnotationReview ------------------------
(* Small instances of AnnotationReview for TLC.                            *)
EXTENDS AnnotationReview, TLC

Symmetry == Permutations(Users) \union Permutations(Shapes)
=============================================================================
