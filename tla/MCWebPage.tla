----------------------------- MODULE MCWebPage -----------------------------
(***************************************************************************)
(* A small instance of WebPage: two clients and an id to rename one to, a  *)
(* long and a short range, one setting.                                    *)
(***************************************************************************)
EXTENDS WebPage

CONSTANTS id1, id2, id3, n1, u, v

Ids      == {id1, id2, id3}
Clients  == {id1, id2}
Uploaded == {id1}
Names    == {n1}
Ranges   == {3, 24}
Day      == {24}
Values   == {u, v}
Settings == {"timezone"}
=============================================================================
