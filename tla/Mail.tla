-------------------------------- MODULE Mail --------------------------------
(***************************************************************************)
(* Both sides of SMTP: the sessions that send a message, and the           *)
(* connection of a server that takes messages.                             *)
(***************************************************************************)
EXTENDS SmtpClient, SmtpServer

\* Messages are delivered and kept once, whole and by the right ones: what holds
\* of the sessions of SMTPClient.message() and of a connection of the server.
MailSafety == DeliverySafety /\ MailboxSafety
=============================================================================
