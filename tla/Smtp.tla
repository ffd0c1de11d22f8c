-------------------------------- MODULE Smtp --------------------------------
(***************************************************************************)
(* smtp.C of socket++: a client that sends mail.  The replies of the       *)
(* server go to the ostream o; if there is none the program reads them     *)
(* itself, a reply after each command.                                     *)
(***************************************************************************)
EXTENDS Replies

CONSTANTS
  Messages,   \* the messages mailed: sequences of "x", "." and "nl"
  CHUNK,      \* the characters of a file that are read at a time
  MaxMails    \* bound: a program makes no more calls when it has sent so much

ASSUME SmtpAssumption == Messages \subseteq Seq({"x", ".", "nl"}) /\ CHUNK \in Nat \ {0}

VARIABLES
  mail,       \* what is mailed: its text and lines, and how send_buf gets it
  stored      \* the messages the server has taken: the lines of each

smtpvars == <<mail, stored>>

----------------------------------------------------------------------------
(* What is sent *)

\* The lines of a text; the last one has no newline behind it.
With(lines, c) ==
  IF c = "nl" THEN Append(lines, <<>>) ELSE [lines EXCEPT ![Len(lines)] = Append(@, c)]
Lines(s) ==
  LET l[k \in 0..Len(s)] == IF k = 0 THEN << <<>> >> ELSE With(l[k - 1], s[k])
  IN  l[Len(s)]

\* Mutant: the first character of the text is not looked at.
send_buf_first(buf, beyond) ==
  LET text == Append(buf, beyond)
      sent[i \in 0..Len(buf)] ==
        IF i = 0 THEN <<>>
        ELSE sent[i - 1] \o (IF text[i] = "nl" /\ text[i + 1] = "." THEN <<"nl", ".">>
                             ELSE <<text[i]>>)
  IN  sent[Len(buf)]

\* Newlines become CRLF, one character here, and a dot is put before a dot that
\* begins a line.  The character behind the last one is looked at too.
send_buf(buf, beyond) ==
  LET text == Append(buf, beyond)
      sent[i \in 0..Len(buf)] ==
        IF i = 0 THEN (IF buf # <<>> /\ text[1] = "." THEN <<".">> ELSE <<>>)
        ELSE sent[i - 1] \o (IF text[i] = "nl" /\ text[i + 1] = "." THEN <<"nl", ".">>
                             ELSE <<text[i]>>)
  IN  sent[Len(buf)]

\* A C string ends with a 0; a file is read into an array CHUNK characters at a
\* time, and what is behind them there is left from before.
Body(text, file, beyond) ==
  LET chunk(k) == SubSeq(text, (k - 1) * CHUNK + 1, IF k * CHUNK < Len(text) THEN k * CHUNK
                                                                          ELSE Len(text))
      sent[k \in 0..((Len(text) + CHUNK - 1) \div CHUNK)] ==
        IF k = 0 THEN <<>> ELSE sent[k - 1] \o send_buf(chunk(k), beyond)
  IN  (IF file THEN sent[(Len(text) + CHUNK - 1) \div CHUNK] ELSE send_buf(text, beyond))
        \o <<"nl", ".", "nl">>

\* What a program mails: the lines of a text and of its body.  clean: it is one
\* that send_buf gets right, a string, or a file of one chunk in an array where no
\* dot happens to follow.
SmtpInit ==
  /\ \E text \in Messages, beyond \in {"0", ".", "x"} :
       mail = [lines |-> Lines(text), body |-> Lines(Body(text, beyond # "0", beyond)),
               clean |-> beyond = "0" \/ (Len(text) <= CHUNK /\ beyond # ".")]
  /\ stored = <<>>

----------------------------------------------------------------------------
(* The client.  A command is a list of things to do: lines and texts to send, *)
(* and replies to "get", or to "print" if the program does it.                *)

Got == IF o THEN <<"get">> ELSE <<>>
Printed == IF o THEN <<>> ELSE <<"print">>

\* What a call does, in order, and what the program prints after it.  helo gets
\* the greeting first; data does not wait between its two parts if there is no
\* ostream.
Steps(cmd) ==
  CASE cmd = "HELO" -> Got \o Printed \o <<"line">> \o Got \o Printed
    [] cmd = "DATA" -> <<"data">> \o Got \o <<"body">> \o Got \o Printed \o Printed
    [] OTHER -> <<"line">> \o Got \o Printed

SmtpCall(cmd) ==
  /\ Idle /\ asked < MaxMails
  /\ todo' = Steps(cmd)
  /\ UNCHANGED <<o, tosrv, srv, onway, fetched, hungUp, asked, heard, faults, smtpvars>>

\* send_cmd up to the flush, and the text of data.
smtp_send_cmd ==
  /\ todo # <<>> /\ Head(todo) \in {"line", "data", "body"}
  /\ tosrv' = Append(tosrv, Head(todo))
  /\ asked' = asked + 1
  /\ todo' = Tail(todo)
  /\ UNCHANGED <<o, srv, onway, fetched, hungUp, heard, faults, smtpvars>>

\* Mutant: the reply ends with a line that continues.
smtp_get_response_minus ==
  /\ Getting
  /\ \/ NoMore /\ todo' = Tail(todo) /\ UNCHANGED <<fetched, heard>>
     \/ /\ fetched # <<>> /\ fetched[1].part # "stub"
        /\ fetched' = Tail(fetched) /\ heard' = fetched[1].to /\ todo' = Tail(todo)
  /\ UNCHANGED <<o, tosrv, srv, onway, hungUp, asked, faults, smtpvars>>

\* Mutant: a line that ends a reply does not end the loop.
smtp_get_response_on ==
  /\ Getting
  /\ \/ NoMore /\ todo' = Tail(todo) /\ UNCHANGED <<fetched, heard>>
     \/ fetched # <<>> /\ fetched' = Tail(fetched) /\ heard' = fetched[1].to /\ UNCHANGED todo
  /\ UNCHANGED <<o, tosrv, srv, onway, hungUp, asked, faults, smtpvars>>

\* A turn of get_response's loop.  With less than five bytes, and with part of a
\* line that continues, it turns without reading on; what is not a whole line
\* is not consumed.  The fourth byte of a tail is anything.
smtp_get_response ==
  /\ Getting
  /\ \/ NoMore /\ todo' = Tail(todo) /\ UNCHANGED <<fetched, heard>>
     \/ /\ fetched # <<>> /\ fetched[1].part # "stub"
        /\ \E last \in BOOLEAN :
             /\ fetched[1].part # "tail" => (last <=> fetched[1].sep # "-")
             /\ todo' = IF last THEN Tail(todo) ELSE todo
        /\ IF fetched[1].part = "head"
           THEN UNCHANGED <<fetched, heard>>
           ELSE fetched' = Tail(fetched) /\ heard' = fetched[1].to
  /\ UNCHANGED <<o, tosrv, srv, onway, hungUp, asked, faults, smtpvars>>

\* operator<<(ostream&, smtp&): getline waits for the whole of a line.
print ==
  /\ todo # <<>> /\ Head(todo) = "print" /\ (fetched # <<>> \/ NoMore)
  /\ IF fetched = <<>>
     THEN todo' = Tail(todo) /\ UNCHANGED <<fetched, heard>>
     ELSE /\ fetched' = Tail(fetched)
          /\ heard' = fetched[1].to
          /\ todo' = IF fetched[1].sep = "-" \/ fetched[1].part \in {"stub", "head"} THEN todo
                     ELSE Tail(todo)
  /\ UNCHANGED <<o, tosrv, srv, onway, hungUp, asked, faults, smtpvars>>

----------------------------------------------------------------------------
(* The server (external) *)

Unstuff(line) == IF line # <<>> /\ line[1] = "." THEN Tail(line) ELSE line

\* The lines of a text up to the first that is a dot are the message, without the
\* dots that they begin with.  What is behind that dot, and a text that is not
\* expected, are commands, each answered with an error.
SmtpServe ==
  /\ tosrv # <<>> /\ ~hungUp
  /\ tosrv' = Tail(tosrv)
  /\ LET n == asked - Len(tosrv) + 1
         what == Head(tosrv)
         lines == mail.body
         errors(k) == [i \in 1..k |-> Line("5", " ", n)]
     IN  \/ what = "line" /\ Reply("2", n) /\ UNCHANGED <<srv, stored, faults>>
         \/ /\ what = "data" /\ srv' = "data" /\ Reply("3", n)
            /\ UNCHANGED <<stored, faults>>
         \/ /\ what = "data" /\ Goes("refused") /\ Reply("5", n)
            /\ UNCHANGED <<srv, stored>>
         \/ /\ what = "body" /\ srv = "data" /\ srv' = "command"
            /\ LET d == CHOOSE i \in DOMAIN lines : lines[i] = <<".">> /\
                                  \A j \in 1..(i - 1) : lines[j] # <<".">>
               IN  /\ stored' = Append(stored, [i \in 1..(d - 1) |-> Unstuff(lines[i])])
                   /\ onway' = onway \o <<Line("2", " ", n)>> \o errors(Len(lines) - d - 1)
            /\ UNCHANGED faults
         \/ /\ what = "body" /\ srv = "command"
            /\ onway' = onway \o errors(Len(lines) - 1)
            /\ UNCHANGED <<srv, stored, faults>>
  /\ UNCHANGED <<fetched, hungUp, todo, asked, heard, o, mail>>

SmtpWork == smtp_send_cmd \/ (Refill /\ UNCHANGED smtpvars) \/ smtp_get_response \/ print

\* The program calls helo first.
SmtpStart == client = "smtp" /\ RepliesInit /\ SmtpInit /\ todo = Steps("HELO")
SmtpNext ==
  \/ \E cmd \in {"DATA", "NOOP"} : SmtpCall(cmd)
  \/ SmtpWork \/ SmtpServe \/ (HangUp /\ UNCHANGED smtpvars)

SmtpSpec ==
  SmtpStart /\ [][SmtpNext /\ UNCHANGED client]_<<client, revars, smtpvars>>

----------------------------------------------------------------------------
(* Properties *)

\* Every message the server has taken is the one that was mailed, dots and all.
Transparent ==
  client = "smtp" /\ mail.clean => \A i \in DOMAIN stored : stored[i] = mail.lines

\* When a command has returned, every line of every reply has been read, and the
\* last one read answers the last thing sent; without an ostream, even if
\* replies arrive in pieces.
SmtpInStep ==
  client = "smtp" /\ Idle /\ mail.clean /\
  faults \subseteq (IF o THEN {} ELSE {"split"}) => Caught

\* A command returns, even if the connection is lost, unless a line that the
\* client reads for its ostream arrives in pieces.
SmtpReturns == client = "smtp" /\ todo # <<>> ~> (Idle \/ (o /\ "split" \in faults))
=============================================================================
