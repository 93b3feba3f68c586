-------------------------- MODULE MCNotifications --------------------------
(***************************************************************************)
(* Small instances of Notifications, given in the Notifications_*.cfg.     *)
(***************************************************************************)
EXTENDS Notifications
=============================================================================
