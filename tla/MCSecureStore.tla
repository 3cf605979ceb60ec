--------------------------- MODULE MCSecureStore ---------------------------
(* Values for the constants of SecureStore: two users, one game per cycle. *)
EXTENDS SecureStore, TLC

CONSTANTS ann, bob, c1, c2, hades

MCGames == [c \in {c1, c2} |-> {hades}]

MCSymmetry == Permutations({ann, bob}) \cup Permutations({c1, c2})
=============================================================================
