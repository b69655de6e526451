---------------------------- MODULE MCBatchSend ----------------------------
(***************************************************************************)
(* TLC instance of BatchSend: every message on its own, and batches of up  *)
(* to three messages that the backends treat differently.                  *)
(***************************************************************************)
EXTENDS BatchSend

Keys == {Key("X-Tag"), Key("Bcc")}
        \cup [name : {"Message-Id", "Mime-Version"}, spelling : {"other_case"}]
        \cup [name : {"Reply-To"}, spelling : {"other_case", "blank"}]
ASSUME Keys \subseteq HeaderKeys(Managed \cup {"X-Tag", "Bcc"})

Plain    == [from |-> TRUE, text |-> TRUE, html |-> FALSE, replyTo |-> FALSE, attachments |-> 0,
             headers |-> {}, recipients |-> {"To", "Bcc"}]
Attached == [Plain EXCEPT !.attachments = 1, !.html = TRUE, !.from = FALSE]
Empty    == [Plain EXCEPT !.text = FALSE]

OneMail    == {<<m>> : m \in EmailMessages(Keys, 2)}
SomeMails  == UNION {[1..n -> {Plain, Attached, Empty}] : n \in 2..3}
MCMails    == OneMail \cup SomeMails
MCEvents   == {[i \in 1..n |-> i] : n \in 1..5}
=============================================================================
