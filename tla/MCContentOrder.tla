---------------------------- MODULE MCContentOrder -----------------------------
(* Three tutorials and a content of another type, two requests at a time.  *)
EXTENDS ContentOrder, TLC

CONSTANTS s1, s2, s3, o1, r1, r2

MCStarts == {<<s1, s2, s3>>, <<s1, s2>>}

Symmetry == Permutations({r1, r2})

===============================================================================
