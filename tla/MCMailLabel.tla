---------------------------- MODULE MCMailLabel ----------------------------
(* MailLabel for TLC: two labels that share a message, and a message that only
   one of them can carry.                                                  *)
EXTENDS MailLabel, TLC

CONSTANTS inbox, work, m1, m2

MCInitially == [l \in {inbox, work} |-> {m1}]

MCCarries == (inbox :> {m1, m2}) @@ (work :> {m1})
=============================================================================
