----------------------------- MODULE MCMailboxDB -----------------------------
(* Model-checking instance of MailboxDB: two remote ids, two names, four  *)
(* mailbox rows, two messages, and generator values 1 and 2 so that a     *)
(* reload can both leave and raise the global UIDVALIDITY.                *)
EXTENDS MailboxDB

MCGeneratorValues == {1, 2}

=============================================================================
