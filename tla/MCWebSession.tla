---------------------------- MODULE MCWebSession ----------------------------
(***************************************************************************)
(* A small instance of WebSession, given in WebSession_tabs.cfg.           *)
(***************************************************************************)
EXTENDS WebSession
=============================================================================
