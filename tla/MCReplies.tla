----------------------------- MODULE MCReplies -----------------------------
(* A program that sends mail or one that moves files.                      *)
EXTENDS Smtp, Ftp

MCMessages ==
  UNION {[1..n -> {"x", ".", "nl"}] : n \in 0..2} \cup
  {<<".", "nl", ".">>, <<"nl", ".", "nl">>, <<"x", ".", "nl">>, <<"x", "nl", ".">>}

\* The second leads to a port whose low byte is 0.
MCBusy == {{}, 10000..10239}

vars == <<client, revars, smtpvars, ftpvars>>

MCInit ==
  \/ SmtpStart /\ FtpInit /\ ret = "2"
  \/ FtpStart /\ mail = "none" /\ stored = <<>>

MCNext ==
  \/ client = "smtp" /\ SmtpNext /\ UNCHANGED <<client, ftpvars>>
  \/ client = "ftp" /\ FtpNext /\ UNCHANGED <<client, smtpvars>>

\* A program carries its calls out, and a server answers.
MCWork ==
  /\ (client = "smtp" /\ SmtpWork /\ UNCHANGED ftpvars) \/
     (client = "ftp" /\ FtpWork /\ UNCHANGED smtpvars)
  /\ UNCHANGED client
MCServers ==
  /\ (client = "smtp" /\ SmtpServe /\ UNCHANGED ftpvars) \/
     (client = "ftp" /\ FtpServers /\ UNCHANGED smtpvars)
  /\ UNCHANGED client

MCSpec == MCInit /\ [][MCNext]_vars /\ WF_vars(MCWork) /\ WF_vars(MCServers)
=============================================================================
