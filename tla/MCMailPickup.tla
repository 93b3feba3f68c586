---------------------------- MODULE MCMailPickup ----------------------------
(***************************************************************************)
(* Small instances of MailPickup: two instances of the tab and two mailboxes *)
(* added; two instances, or two listenings, with a lost request; and a      *)
(* listening among two mailboxes.                                           *)
(***************************************************************************)
EXTENDS MailPickup, TLC

\* a1 is the address of an account, a2 one of a domain.
CONSTANTS a1, a2, k1, k2
SmallAccountOf == a1 :> k1 @@ a2 :> None

SmallBounds ==
  {[ids |-> 2, mounts |-> 2, starts |-> 0, lost |-> 0, random |-> TRUE],
   [ids |-> 1, mounts |-> 2, starts |-> 1, lost |-> 1, random |-> FALSE],
   [ids |-> 1, mounts |-> 1, starts |-> 2, lost |-> 1, random |-> FALSE],
   [ids |-> 2, mounts |-> 1, starts |-> 1, lost |-> 0, random |-> FALSE]}
=============================================================================
