-------------------------- MODULE MCServerQueries --------------------------
(***************************************************************************)
(* A small instance of ServerQueries: a ring of four records, times out of *)
(* four in any order.                                                      *)
(***************************************************************************)
EXTENDS ServerQueries

ReadErrors == {"read_error"}
=============================================================================
