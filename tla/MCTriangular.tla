---------------------------- MODULE MCTriangular ----------------------------
(* Three tokens in a triangle, a second pool on one of its sides, and a    *)
(* fourth token beyond it.                                                 *)
EXTENDS Triangular

MCPool == {"ab", "bc", "bc2", "ca", "cd", "da"}
MCT0 == [p \in MCPool |-> CASE p = "ab" -> "a" [] p \in {"bc", "bc2"} -> "b"
                            [] p \in {"ca", "cd"} -> "c" [] p = "da" -> "d"]
MCT1 == [p \in MCPool |-> CASE p \in {"ca", "da"} -> "a" [] p = "ab" -> "b"
                            [] p \in {"bc", "bc2"} -> "c" [] p = "cd" -> "d"]
=============================================================================
