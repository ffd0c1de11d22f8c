-------------------------------- MODULE Ftp --------------------------------
(***************************************************************************)
(* ftp.C of socket++: a client that moves files.  A file goes over a data  *)
(* connection that the server makes to a port of the client's; a command   *)
(* that moves one has two replies, before and after.                       *)
(***************************************************************************)
EXTENDS Replies, SequencesExt

CONSTANTS
  FirstPort,   \* the port that bind_until_success tries first
  Busy,        \* the sets of ports that may be in use
  FILESIZE,    \* the bytes of a file
  MaxLines     \* bound: a program makes no more calls when it has sent so many

\* The search for a port ends.
ASSUME FtpAssumption ==
  /\ FirstPort \in Nat /\ FILESIZE \in Nat
  /\ \A busy \in Busy : \E p \in FirstPort..65535 : p \notin busy

VARIABLES
  first,       \* firstline in get_response
  code,        \* replycode, its first digit
  ret,         \* what the last call returned
  port,        \* the port of the data socket, 0 if there is none
  heeds,       \* whether the data socket listens
  conn,        \* the data connection: "none", "made", "accepted", or "ignored" if
               \* the client does not read what is sent
  ended,       \* who has closed the data connection
  inpipe,      \* bytes in the data connection
  taken,       \* bytes that the receiver of the file has
  told,        \* the port that the server knows
  dir          \* the transfer of the server: "get", "put" or "none"

datavars == <<port, heeds, conn, ended, inpipe, taken>>
ftpvars == <<first, code, ret, datavars, told, dir>>

FtpInit ==
  /\ first = TRUE /\ code \in {"2", "5"} /\ ret = code
  /\ port = 0 /\ heeds = FALSE /\ conn = "none" /\ ended = {} /\ inpipe = 0 /\ taken = 0
  /\ told = 0 /\ dir = "none"

Error(c) == c \in {"4", "5"}

----------------------------------------------------------------------------
(* The calls.  What each does, in order: lines it sends, each answered by a *)
(* reply to "get"; a "check" that ends it after an error; the steps of the  *)
(* data connection.                                                         *)

\* Mutant: the connection is left open after a file has been written.
ftpdata_open(cmd, copy) ==
  <<"bind", "PORT", "get", "listen", cmd, "get", "check", "accept",
    IF copy = "send" THEN "sendonly" ELSE copy, "get", "end">>

ftpdata(cmd, copy) ==
  <<"bind", "PORT", "get", "listen", cmd, "get", "check", "accept", copy, "get", "end">>

list == ftpdata("LIST", IF o THEN "receive" ELSE "ignore")

\* Without the name of a remote file getfile lists the directory and goes on.
getfile(named) ==
  IF named THEN ftpdata("RETR", "receive") ELSE list \o ftpdata("nameless", "receive")

putfile == ftpdata("STOR", "send")

\* append leaves the name of the remote file out.
append == ftpdata("nameless", "send")

rename == <<"RNFR", "get", "check", "RNTO", "get", "end">>

\* All the other calls send a line.
Calls ==
  {<<"line", "get", "end">>, rename, list, getfile(TRUE), getfile(FALSE), putfile, append}

\* Bound: a program makes no more calls when something has gone wrong.
FtpCall(steps) ==
  /\ Idle /\ asked < MaxLines /\ faults = {}
  /\ todo' = steps
  /\ UNCHANGED <<o, tosrv, srv, onway, fetched, hungUp, asked, heard, faults, ftpvars>>

At(step) == todo # <<>> /\ Head(todo) = step

----------------------------------------------------------------------------
(* The client *)

\* The bytes that follow the address in the argument of PORT.
useraddr(p) == <<p \div 256, p % 256>>

\* bind_until_success: the first port that is not in use.
bind_until_success(busy) ==
  CHOOSE p \in FirstPort..65535 :
    p \notin busy /\ \A q \in FirstPort..(p - 1) : q \in busy

Sent == {"line", "PORT", "RNFR", "RNTO", "LIST", "RETR", "STOR", "nameless"}

ftp_send_cmd ==
  /\ todo # <<>> /\ Head(todo) \in Sent
  /\ tosrv' = Append(tosrv, [cmd |-> Head(todo), port |-> useraddr(port)])
  /\ asked' = asked + 1
  /\ todo' = Tail(todo)
  /\ UNCHANGED <<o, srv, onway, fetched, hungUp, heard, faults, ftpvars>>

\* Mutant: a reply ends with the first line that does not continue.
ftp_get_response_blank ==
  /\ Getting
  /\ \/ NoMore /\ ret' = code /\ todo' = Tail(todo) /\ first' = TRUE
        /\ UNCHANGED <<fetched, heard, code>>
     \/ /\ fetched # <<>> /\ fetched[1].part # "stub"
        /\ fetched' = Tail(fetched) /\ heard' = fetched[1].to
        /\ code' = IF first THEN fetched[1].code ELSE code
        /\ IF fetched[1].sep = " "
           THEN first' = TRUE /\ ret' = code' /\ todo' = Tail(todo)
           ELSE first' = FALSE /\ UNCHANGED <<ret, todo>>
  /\ UNCHANGED <<o, tosrv, srv, onway, hungUp, asked, faults, datavars, told, dir>>

\* A turn of get_response's loop.  With less than five bytes it turns without
\* reading on; part of a line is taken for all of it, and the tail of one for a
\* line of its own.  At the end of the stream the last code is returned again.
ftp_get_response ==
  /\ Getting
  /\ \/ NoMore /\ ret' = code /\ todo' = Tail(todo) /\ first' = TRUE
        /\ UNCHANGED <<fetched, heard, code>>
     \/ /\ fetched # <<>> /\ fetched[1].part # "stub"
        /\ fetched' = Tail(fetched) /\ heard' = fetched[1].to
        /\ \E c \in {"2", "5"}, s \in {" ", "-"} :
             LET line == IF fetched[1].part = "tail" THEN [code |-> c, sep |-> s] ELSE fetched[1]
             IN  /\ code' = IF first THEN line.code ELSE code
                 /\ IF line.sep = " " /\ line.code = code'
                    THEN first' = TRUE /\ ret' = code' /\ todo' = Tail(todo)
                    ELSE first' = FALSE /\ UNCHANGED <<ret, todo>>
  /\ UNCHANGED <<o, tosrv, srv, onway, hungUp, asked, faults, datavars, told, dir>>

\* An error ends the call.
check ==
  /\ At("check")
  /\ IF Error(ret)
     THEN /\ ret' = "4"
          /\ todo' = SubSeq(todo, SelectInSeq(todo, LAMBDA s : s = "end"), Len(todo))
     ELSE todo' = Tail(todo) /\ UNCHANGED ret
  /\ UNCHANGED <<o, tosrv, srv, onway, fetched, hungUp, asked, heard, faults, first, code,
                 datavars, told, dir>>

\* The steps of ftpdata that are about the data connection, and its end, where
\* both sockets are closed.
ftpdata_step ==
  /\ \/ /\ At("bind") /\ \E busy \in Busy : port' = bind_until_success(busy)
        /\ taken' = 0 /\ UNCHANGED <<heeds, conn, ended, inpipe>>
     \/ At("listen") /\ heeds' = TRUE /\ UNCHANGED <<port, conn, ended, inpipe, taken>>
     \/ /\ At("accept") /\ conn = "made" /\ conn' = "accepted"
        /\ UNCHANGED <<port, heeds, ended, inpipe, taken>>
     \/ At("ignore") /\ conn' = "ignored" /\ UNCHANGED <<port, heeds, ended, inpipe, taken>>
     \/ /\ At("receive") /\ inpipe = 0 /\ "server" \in ended /\ UNCHANGED datavars
     \/ /\ At("send") /\ taken + inpipe = FILESIZE /\ ended' = ended \cup {"client"}
        /\ UNCHANGED <<port, heeds, conn, inpipe, taken>>
     \/ At("sendonly") /\ taken + inpipe = FILESIZE /\ UNCHANGED datavars
     \/ /\ At("end") /\ port' = 0 /\ heeds' = FALSE /\ conn' = "none" /\ ended' = {}
        /\ inpipe' = 0 /\ UNCHANGED taken
  /\ todo' = Tail(todo)
  /\ UNCHANGED <<o, tosrv, srv, onway, fetched, hungUp, asked, heard, faults, first, code, ret,
                 told, dir>>

\* Mutant: no more is read when nothing has arrived.
sys_read_short ==
  /\ At("receive") /\ inpipe > 0
  /\ inpipe' = 0 /\ taken' = taken + inpipe /\ todo' = Tail(todo)
  /\ UNCHANGED <<o, tosrv, srv, onway, fetched, hungUp, asked, heard, faults, first, code, ret,
                 port, heeds, conn, ended, told, dir>>

\* What has arrived is read.
sys_read ==
  /\ At("receive") /\ inpipe > 0
  /\ \E k \in 1..inpipe : inpipe' = inpipe - k /\ taken' = taken + k
  /\ UNCHANGED <<revars, first, code, ret, port, heeds, conn, ended, told, dir>>

sys_write ==
  /\ At("send") /\ taken + inpipe < FILESIZE
  /\ inpipe' = inpipe + 1
  /\ UNCHANGED <<revars, first, code, ret, port, heeds, conn, ended, taken, told, dir>>

FtpWork ==
  \/ ftp_send_cmd \/ (Refill /\ UNCHANGED ftpvars) \/ ftp_get_response \/ check
  \/ ftpdata_step \/ sys_read \/ sys_write

----------------------------------------------------------------------------
(* The server (external) *)

\* A long reply may have a line in it that begins with anything.
FtpReply(c) ==
  \E lines \in {<<Line(c, " ", asked)>>,
                <<Line(c, "-", asked), Line("text", " ", asked), Line(c, " ", asked)>>} :
    onway' = onway \o lines

FtpServe ==
  /\ tosrv # <<>> /\ ~hungUp /\ srv = "command"
  /\ tosrv' = Tail(tosrv)
  /\ LET cmd == Head(tosrv).cmd
         p == Head(tosrv).port
     IN  \/ /\ FtpReply("5") /\ UNCHANGED <<srv, told, dir>>
            /\ IF cmd = "PORT" THEN Goes("refused") ELSE UNCHANGED faults
         \/ /\ cmd = "PORT" /\ FtpReply("2") /\ told' = 256 * p[1] + p[2]
            /\ UNCHANGED <<srv, dir, faults>>
         \/ cmd \in {"line", "RNTO"} /\ FtpReply("2") /\ UNCHANGED <<srv, told, dir, faults>>
         \/ cmd = "RNFR" /\ FtpReply("3") /\ UNCHANGED <<srv, told, dir, faults>>
         \/ /\ cmd \in {"LIST", "RETR", "STOR"} /\ FtpReply("1") /\ srv' = "connect"
            /\ dir' = IF cmd = "STOR" THEN "put" ELSE "get"
            /\ UNCHANGED <<told, faults>>
  /\ UNCHANGED <<o, fetched, hungUp, todo, asked, heard, first, code, ret, datavars>>

Deserted == srv' = "command" /\ dir' = "none" /\ FtpReply("4")

\* The server connects, to the port it was told; it may fail to.
Connect ==
  /\ srv = "connect" /\ ~hungUp
  /\ \/ /\ told = port /\ heeds /\ conn' = "made" /\ srv' = "transfer"
        /\ UNCHANGED <<onway, dir, faults>>
     \/ ~(told = port /\ heeds) /\ Deserted /\ UNCHANGED <<conn, faults>>
     \/ Deserted /\ Goes("deserted") /\ UNCHANGED conn
  /\ UNCHANGED <<o, tosrv, fetched, hungUp, todo, asked, heard, first, code, ret, port, heeds,
                 ended, inpipe, taken, told>>

\* A file goes out or comes in; at its end, or before, the server closes the
\* connection and replies.
Transfer ==
  /\ srv = "transfer" /\ ~hungUp
  /\ \/ /\ dir = "get" /\ taken + inpipe < FILESIZE /\ inpipe' = inpipe + 1
        /\ UNCHANGED <<taken, ended, srv, dir, onway>>
     \/ /\ dir = "put" /\ inpipe > 0 /\ inpipe' = inpipe - 1 /\ taken' = taken + 1
        /\ UNCHANGED <<ended, srv, dir, onway>>
     \/ /\ IF dir = "get" THEN taken + inpipe = FILESIZE
                          ELSE inpipe = 0 /\ "client" \in ended
        /\ srv' = "command" /\ dir' = "none" /\ FtpReply("2")
        /\ ended' = ended \cup {"server"}
        /\ UNCHANGED <<taken, inpipe>>
     \/ /\ dir = "get" /\ Deserted /\ ended' = ended \cup {"server"}
        /\ UNCHANGED <<taken, inpipe>>
  /\ UNCHANGED <<o, tosrv, fetched, hungUp, todo, asked, heard, faults, first, code, ret, port,
                 heeds, conn, told>>

FtpServers == FtpServe \/ Connect \/ Transfer

\* The program reads the greeting first.
FtpStart == client = "ftp" /\ RepliesInit /\ FtpInit /\ todo = <<"get", "end">>
FtpNext ==
  \/ \E steps \in Calls : FtpCall(steps)
  \/ FtpWork \/ FtpServers \/ (HangUp /\ UNCHANGED ftpvars)

FtpSpec ==
  FtpStart /\ [][FtpNext /\ UNCHANGED client]_<<client, revars, ftpvars>>

----------------------------------------------------------------------------
(* Properties *)

\* When a call has returned, every line of every reply has been read and no data
\* connection is left.
FtpInStep ==
  client = "ftp" /\ Idle /\ faults = {} => Caught /\ conn = "none" /\ srv = "command"

\* A call that moves a file, in either direction, and returns success has moved
\* all of it.
FileWhole ==
  client = "ftp" /\ At("end") /\ conn = "accepted" /\ faults = {} /\ ret = "2" =>
    inpipe = 0 /\ taken = FILESIZE

\* A call returns, unless the server hangs up, refuses the port, does not make the
\* connection it has announced, or sends a reply in pieces.
FtpReturns == client = "ftp" /\ todo # <<>> ~> (Idle \/ faults # {})
=============================================================================
