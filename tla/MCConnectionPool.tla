--------------------------- MODULE MCConnectionPool ---------------------------
(* Two attempts continue one provider session. *)
EXTENDS ConnectionPool

MCSession == [a \in Attempts |-> CHOOSE x \in Sessions : TRUE]
=============================================================================
