---------------------------- MODULE MCOAuth2Popup ----------------------------
(***************************************************************************)
(* Small instances of OAuth2Popup, given in the OAuth2Popup_*.cfg.         *)
(***************************************************************************)
EXTENDS OAuth2Popup
=============================================================================
