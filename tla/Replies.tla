------------------------------ MODULE Replies ------------------------------
(***************************************************************************)
(* The replies on the control connection of the smtp and ftp clients of    *)
(* socket++: lines that the server has sent, and the get area that         *)
(* sockbuf::underflow fills with what has arrived of them.                  *)
(***************************************************************************)
EXTENDS Integers, Sequences

CONSTANT
  Cuts        \* where a line may be cut: "stub", "head"

ASSUME RepliesAssumption == Cuts \subseteq {"stub", "head"}

VARIABLES
  client,     \* the client at work, "smtp" or "ftp"
  o,          \* whether the client has an ostream for the replies
  tosrv,      \* what the client has sent and the server has not yet read
  srv,        \* what the server is doing
  onway,      \* the lines, and ends of lines, not yet read from the socket
  fetched,    \* gptr to egptr
  hungUp,     \* the server has closed the connection
  todo,       \* what is left of the command that the client carries out
  asked,      \* the number of commands sent
  heard,      \* history: the number of the command that the last line read answers
  faults      \* history: what went wrong outside the client; bound: one thing

revars == <<o, tosrv, srv, onway, fetched, hungUp, todo, asked, heard, faults>>

\* A line "221 response" or, if more is to come, "221-response" in answer to
\* command number to.  part: all of it; a head of five bytes and more; a stub of
\* less than five; or the tail, five bytes and more, of one that was cut.
Line(code, sep, to) == [code |-> code, sep |-> sep, to |-> to, part |-> "whole"]

\* A reply is one line or two.
Answers(code, to) == {<<Line(code, " ", to)>>, <<Line(code, "-", to), Line(code, " ", to)>>}

RepliesInit ==
  /\ o \in BOOLEAN /\ tosrv = <<>> /\ srv = "command" /\ onway \in Answers("2", 0)
  /\ fetched = <<>> /\ hungUp = FALSE /\ asked = 0 /\ heard = -1 /\ faults = {}

Goes(wrong) == faults = {} /\ faults' = {wrong}

\* underflow with an empty get area: some lines, and perhaps a part of the next.
Refill ==
  /\ todo # <<>> /\ Head(todo) \in {"get", "print"} /\ fetched = <<>>
  /\ \/ \E k \in 1..Len(onway) :
          /\ fetched' = SubSeq(onway, 1, k)
          /\ onway' = SubSeq(onway, k + 1, Len(onway))
          /\ UNCHANGED faults
     \/ \E k \in 1..Len(onway), cut \in Cuts :
          /\ onway[k].part = "whole"
          /\ fetched' = [SubSeq(onway, 1, k) EXCEPT ![k].part = cut]
          /\ onway' = [SubSeq(onway, k, Len(onway)) EXCEPT ![1].part = "tail"]
          /\ Goes("split")
  /\ UNCHANGED <<o, tosrv, srv, hungUp, todo, asked, heard>>

\* underflow returns EOF.
NoMore == fetched = <<>> /\ onway = <<>> /\ hungUp

\* The server hangs up.
HangUp ==
  /\ ~hungUp /\ hungUp' = TRUE
  /\ Goes("dropped")
  /\ UNCHANGED <<o, tosrv, srv, onway, fetched, todo, asked, heard>>

Reply(code, to) == \E lines \in Answers(code, to) : onway' = onway \o lines

Idle == todo = <<>>
Getting == todo # <<>> /\ Head(todo) = "get"

\* The client is between two commands and every reply has been read.
Caught == fetched = <<>> /\ onway = <<>> /\ heard = asked
=============================================================================
