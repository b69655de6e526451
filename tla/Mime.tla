-------------------------------- MODULE Mime --------------------------------
(***************************************************************************)
(* The message buildMIME writes (src/email/mime.go): which header lines,   *)
(* and which tree of parts. Header names and the kinds of part are kept,   *)
(* the texts and their encodings are not.                                  *)
(***************************************************************************)
EXTENDS Naturals, Sequences, Functions

\* A key of a Headers map: the header it names, and how: as CanonicalMIMEHeaderKey
\* would, in upper and lower case otherwise, or with a blank, which no header name has.
\* A key that holds a line break, and so is no one header, is left out.
HeaderKeys(names) == [name : names, spelling : {"canonical", "other_case", "blank"}]

\* An EmailMessage: which recipients and bodies it has, whether a Reply-To, how many
\* attachments, and the keys of its Headers map.
EmailMessages(keys, attachments) ==
    [from : BOOLEAN, text : BOOLEAN, html : BOOLEAN, replyTo : BOOLEAN,
     attachments : 0..attachments, headers : SUBSET keys,
     recipients : (SUBSET {"To", "Cc", "Bcc"}) \ {{}}]

Key(n) == [name |-> n, spelling |-> "canonical"]

\* It folds the case of a header name, and leaves what is none as it is.
CanonicalMIMEHeaderKey(key) == IF key.spelling = "blank" THEN key ELSE Key(key.name)

Managed == {"From", "To", "Cc", "Reply-To", "Subject", "Message-Id", "Mime-Version",
            "Content-Type", "Content-Transfer-Encoding"}

\* The cases of the switch. Written like the lines themselves, "Message-ID" and
\* "MIME-Version", two of them are no canonical keys.
SwitchCases_AsWritten ==
    {[name |-> n,
      spelling |-> IF n \in {"Message-Id", "Mime-Version"} THEN "other_case" ELSE "canonical"] :
        n \in Managed}

SwitchCases == {Key(n) : n \in Managed}

\* The caller's own headers, a line for each, but for those the switch skips.
CallerLines(msg) == {k \in msg.headers : CanonicalMIMEHeaderKey(k) \notin SwitchCases}

Optional(cond, name) == IF cond THEN <<name>> ELSE <<>>

Single(tree) == tree.type \in {"text", "html"}

\* The lines the backend writes itself, in their order; the caller's come before the
\* last three.
OwnLines(msg, withID, tree) ==
    <<"From">>
    \o Optional("To" \in msg.recipients, "To")
    \o Optional("Cc" \in msg.recipients, "Cc")
    \o Optional(msg.replyTo, "Reply-To")
    \o Optional(TRUE, "Subject")
    \o Optional(withID, "Message-Id")
    \o Optional(TRUE, "Mime-Version")
    \o Optional(TRUE, "Content-Type")
    \o Optional(Single(tree), "Content-Transfer-Encoding")

Leaf(type) == [type |-> type, parts |-> <<>>]

\* The plain text first: a reader shows the last alternative it understands.
WriteAlternative == [type |-> "alternative", parts |-> <<Leaf("text"), Leaf("html")>>]

BuildBody(msg) ==
    IF msg.text /\ msg.html THEN WriteAlternative
    ELSE IF msg.html THEN Leaf("html") ELSE Leaf("text")

\* The same choice, as the first part of a multipart/mixed.
WriteBodyPart_One(msg) == IF msg.html THEN Leaf("html") ELSE Leaf("text")

WriteBodyPart(msg) ==
    IF msg.text /\ msg.html THEN WriteAlternative
    ELSE IF msg.html THEN Leaf("html") ELSE Leaf("text")

BuildMixed(msg) ==
    [type |-> "mixed",
     parts |-> <<WriteBodyPart(msg)>> \o [i \in 1..msg.attachments |-> Leaf("attachment")]]

BuildMIME(msg, withID) ==
    LET tree == IF msg.attachments > 0 THEN BuildMixed(msg) ELSE BuildBody(msg)
    IN  [own |-> OwnLines(msg, withID, tree), callers |-> CallerLines(msg), tree |-> tree]
-----------------------------------------------------------------------------
(* What a mail reader finds.                                               *)

\* Header names are read in any case; with a blank before its colon, a line is taken for
\* none (the obsolete syntax would allow it).
ReadAs(key, name) == key.name = name /\ key.spelling # "blank"

\* The leaves of a tree of at most three levels, from left to right.
Leaves(tree) ==
    LET under(t) == IF t.parts = <<>> THEN <<t.type>> ELSE [i \in DOMAIN t.parts |-> t.parts[i].type]
    IN  IF tree.type # "mixed" THEN under(tree)
        ELSE under(tree.parts[1]) \o [i \in 1..(Len(tree.parts) - 1) |-> tree.parts[i + 1].type]

Expected(msg) ==
    (IF msg.text THEN <<"text">> ELSE <<>>)
    \o (IF msg.html THEN <<"html">> ELSE <<>>)
    \o [i \in 1..msg.attachments |-> "attachment"]

\* Each line of the backend's is there once, and read from no other line: not twice
\* from its own, nor from one of the caller's, however that is spelt. What a message
\* must have is there, Bcc is not, and no other header of the caller's is missing.
HeadersOnce(raw, msg) ==
    /\ IsInjective(raw.own)
    /\ \A name \in Range(raw.own) : \A k \in raw.callers : ~ReadAs(k, name)
    /\ {"From", "Subject", "Mime-Version", "Content-Type"} \subseteq Range(raw.own)
    /\ "Bcc" \notin Range(raw.own)
    /\ \A k \in msg.headers : k.name \notin Managed => k \in raw.callers
=============================================================================
