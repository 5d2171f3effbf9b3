--------------------------- MODULE MCWifiManager ---------------------------
(***************************************************************************)
(* Small instances of WifiManager: the two networks of dual mode.          *)
(***************************************************************************)
EXTENDS WifiManager
=============================================================================
