------------------------------- MODULE MCImap -------------------------------
(* Imap with two mailing addresses, one of them also spelled in capitals. *)
EXTENDS Imap

CONSTANTS ann, bob, BOB

MCAddresses == {ann, bob, BOB}
MCLower == [a \in MCAddresses |-> IF a = BOB THEN bob ELSE a]

Mail(to, wanted, parts, intact) ==
  [to |-> to, wanted |-> wanted, parts |-> parts, intact |-> intact]

\* A code; a code for the other spelling, after a part without one; a code that
\* a later part hides; a mail the criteria leave out; one that cannot be read.
MCMails ==
  {Mail(bob, TRUE, <<TRUE>>, TRUE), Mail(BOB, TRUE, <<FALSE, TRUE>>, TRUE),
   Mail(ann, TRUE, <<TRUE, FALSE>>, TRUE), Mail(ann, FALSE, <<TRUE>>, TRUE),
   Mail(ann, TRUE, <<TRUE>>, FALSE)}
=============================================================================
