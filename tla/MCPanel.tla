------------------------------ MODULE MCPanel ------------------------------
(***************************************************************************)
(* A small instance of Panel: the panel of the logger, and times in the    *)
(* order of the real ones (a screen 4 s, an id and a long press 5 s).      *)
(***************************************************************************)
EXTENDS Panel

Pictures == {"garbled", "blank", "ready", "error", "id", "0", "1", "2"}
AfterTwo == {2}
=============================================================================
