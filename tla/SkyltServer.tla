---------------------------- MODULE SkyltServer ----------------------------
(***************************************************************************)
(* skyltsrv/skyltclient.cc: the server that receives a picture programme   *)
(* over TCP and keeps it in the file skyltdata.  It serves one client      *)
(* after another: copies what the client sends into the file, until the    *)
(* client closes the connection, and opens the file for reading.           *)
(*                                                                         *)
(* The byte at a position of the file is abstracted to the client it came  *)
(* from.  The connections are the kernel's: a client connects, sends,      *)
(* closes, or goes away in the middle, while the server does other things. *)
(***************************************************************************)
EXTENDS Integers, Sequences, FiniteSets

CONSTANTS
  Clients,    \* the clients, one connection each
  Length,     \* Length[c]: the bytes that c wants to send
  Backlog,    \* connections the kernel holds for accept, listen's 10
  BufSize     \* sizeof(buffer), 4096

ASSUME ServerAssumption ==
  /\ Length \in [Clients -> Nat]
  /\ Backlog \in Nat \ {0} /\ BufSize \in Nat \ {0}

VARIABLES
  pc,         \* what the server does next
  queue,      \* connections that wait for accept
  conn,       \* conn[c]: the state of c's connection
  sent,       \* sent[c]: the bytes of c that the kernel has received
  clisock,    \* the client being served, or the last one
  got,        \* the bytes of clisock that have been read
  bytesread,  \* the variable of that name
  sd,         \* the variable of that name: what the descriptor is open for
  held,       \* how many descriptors of the file the process holds
  file,       \* the bytes of the file
  copies      \* history: <<client, bytes>> for every copy that reached the file

vars == <<pc, queue, conn, sent, clisock, got, bytesread, sd, held, file, copies>>

Nobody == "nobody"
Reset == -1          \* what read returns for a connection that was reset
IsOpen(d) == d \in {"write", "read"}

TypeOK ==
  /\ pc \in {"start", "accept", "open", "read", "write", "close", "reopen", "failed"}
  /\ queue \in Seq(Clients)
  /\ conn \in [Clients -> {"new", "up", "closed", "reset", "broken", "done"}]
  /\ sent \in [Clients -> Nat] /\ \A c \in Clients : sent[c] <= Length[c]
  /\ clisock \in Clients \cup {Nobody}
  /\ got \in Nat
  /\ bytesread \in Reset..BufSize
  /\ sd \in {"zero", "failed", "write", "read"}
  /\ held \in Nat
  /\ file \in Seq(Clients)
  /\ copies \in Seq(Clients \X Nat)

Init ==
  /\ pc = "start"
  /\ queue = <<>>
  /\ conn = [c \in Clients |-> "new"]
  /\ sent = [c \in Clients |-> 0]
  /\ clisock = Nobody
  /\ got = 0
  /\ bytesread = 0
  /\ sd = "zero"
  /\ held = 0
  /\ file = <<>>
  /\ copies = <<>>

----------------------------------------------------------------------------
(* The server.  A failing start or accept ends the program.                *)

kernel == <<queue, conn, sent>>
transfer == <<clisock, got, bytesread>>
disk == <<sd, held, file, copies>>

Listen ==
  /\ pc = "start"
  /\ pc' \in {"accept", "failed"}
  /\ UNCHANGED <<kernel, transfer, disk>>

Accept ==
  /\ pc = "accept" /\ queue # <<>>
  /\ clisock' = Head(queue)
  /\ queue' = Tail(queue)
  /\ got' = 0
  /\ pc' = "open"
  /\ UNCHANGED <<conn, sent, bytesread, disk>>

AcceptFails ==
  /\ pc = "accept"
  /\ pc' = "failed"
  /\ UNCHANGED <<kernel, transfer, disk>>

\* close(sd) of the copy before, and open(path, O_WRONLY|O_CREAT): the file
\* keeps what it holds.  A failing open is reported and the copy goes on.
OpenFile ==
  /\ pc = "open" /\ pc' = "read"
  /\ LET left == IF IsOpen(sd) THEN held - 1 ELSE held
     IN  \/ sd' = "write" /\ held' = left + 1
         \/ sd' = "failed" /\ held' = left
  /\ UNCHANGED <<kernel, transfer, file, copies>>

\* read(clisock, buffer, sizeof(buffer)): some of the bytes that have arrived,
\* 0 at the end of the stream, -1 once if the client reset the connection.
\* With none of these it waits.
Arrived == sent[clisock] - got
ReadSocket ==
  /\ pc = "read" /\ pc' = "write"
  /\ \/ /\ conn[clisock] \in {"up", "closed", "reset"} /\ Arrived > 0
        /\ bytesread' \in 1..(IF Arrived < BufSize THEN Arrived ELSE BufSize)
        /\ UNCHANGED conn
     \/ /\ (conn[clisock] = "closed" /\ Arrived = 0) \/ conn[clisock] = "broken"
        /\ bytesread' = 0
        /\ UNCHANGED conn
     \/ /\ conn[clisock] = "reset"
        /\ bytesread' = Reset
        /\ conn' = [conn EXCEPT ![clisock] = "broken"]
  /\ got' = got + (IF bytesread' = Reset THEN 0 ELSE bytesread')
  /\ UNCHANGED <<queue, sent, clisock, disk>>

\* Mutant: the file opened with O_APPEND.
Overwrite_append(at, bytes) == file \o [k \in 1..bytes |-> clisock]

\* The file after clisock's bytes have been written behind the first at bytes.
Overwrite(at, bytes) ==
  [k \in 1..(IF at + bytes > Len(file) THEN at + bytes ELSE Len(file)) |->
     IF k \in (at + 1)..(at + bytes) THEN clisock ELSE file[k]]

\* Mutants: a short read taken for the end; the end not noticed.
WriteFile_untilShort ==
  /\ pc = "write"
  /\ file' = IF sd = "write" /\ bytesread > 0 THEN Overwrite(got - bytesread, bytesread)
                                              ELSE file
  /\ pc' = IF bytesread = BufSize THEN "read" ELSE "close"
  /\ UNCHANGED <<kernel, transfer, sd, held, copies>>
WriteFile_endless ==
  /\ pc = "write"
  /\ file' = IF sd = "write" /\ bytesread > 0 THEN Overwrite(got - bytesread, bytesread)
                                              ELSE file
  /\ pc' = IF bytesread >= 0 THEN "read" ELSE "close"
  /\ UNCHANGED <<kernel, transfer, sd, held, copies>>

\* write(sd, buffer, bytesread), which fails for -1, and the loop's condition.
WriteFile ==
  /\ pc = "write"
  /\ file' = IF sd = "write" /\ bytesread > 0 THEN Overwrite(got - bytesread, bytesread)
                                              ELSE file
  /\ pc' = IF bytesread # 0 THEN "read" ELSE "close"
  /\ UNCHANGED <<kernel, transfer, sd, held, copies>>

\* Mutant: only the connection is closed.
CloseBoth_one ==
  /\ pc = "close" /\ pc' = "reopen"
  /\ held' = held
  /\ copies' = IF sd = "write" THEN Append(copies, <<clisock, got>>) ELSE copies
  /\ conn' = [conn EXCEPT ![clisock] = IF @ = "closed" THEN "done" ELSE @]
  /\ UNCHANGED <<queue, sent, transfer, sd, file>>

\* close(sd); close(clisock).
CloseBoth ==
  /\ pc = "close" /\ pc' = "reopen"
  /\ held' = IF IsOpen(sd) THEN held - 1 ELSE held
  /\ copies' = IF sd = "write" THEN Append(copies, <<clisock, got>>) ELSE copies
  /\ conn' = [conn EXCEPT ![clisock] = IF @ = "closed" THEN "done" ELSE @]
  /\ UNCHANGED <<queue, sent, transfer, sd, file>>

\* open(path, O_RDONLY); "Data copied".
Reopen ==
  /\ pc = "reopen" /\ pc' = "accept"
  /\ \/ sd' = "read" /\ held' = held + 1
     \/ sd' = "failed" /\ held' = held
  /\ UNCHANGED <<kernel, transfer, file, copies>>

Server ==
  Listen \/ Accept \/ AcceptFails \/ OpenFile \/ ReadSocket \/ WriteFile \/ CloseBoth \/ Reopen

----------------------------------------------------------------------------
(* The clients and the network *)

server == <<pc, clisock, got, bytesread, sd, held, file, copies>>

Connect(c) ==
  /\ conn[c] = "new" /\ pc \notin {"start", "failed"} /\ Len(queue) < Backlog
  /\ conn' = [conn EXCEPT ![c] = "up"]
  /\ queue' = Append(queue, c)
  /\ UNCHANGED <<server, sent>>

Send(c) ==
  /\ conn[c] = "up" /\ sent[c] < Length[c]
  /\ sent' = [sent EXCEPT ![c] = @ + 1]
  /\ UNCHANGED <<server, conn, queue>>

\* c has sent all it has, and closes.
Close(c) ==
  /\ conn[c] = "up" /\ sent[c] = Length[c]
  /\ conn' = [conn EXCEPT ![c] = "closed"]
  /\ UNCHANGED <<server, sent, queue>>

\* c goes away: what has arrived and not been read may be lost.
GoAway(c) ==
  /\ conn[c] = "up"
  /\ conn' = [conn EXCEPT ![c] = "reset"]
  /\ UNCHANGED <<server, sent, queue>>

Client(c) == Connect(c) \/ Send(c) \/ Close(c) \/ GoAway(c)

Over == pc = "failed" /\ UNCHANGED vars

Next == Server \/ (\E c \in Clients : Client(c)) \/ Over

Spec == Init /\ [][Next]_vars

\* The server runs, and a connected client that does not go away sends and closes.
FairSpec == Spec /\ WF_vars(Server) /\ \A c \in Clients : WF_vars(Send(c) \/ Close(c))

----------------------------------------------------------------------------
(* Properties *)

\* The copies that have reached the file, the one at hand among them.
Written == IF pc = "write" /\ bytesread > 0 THEN got - bytesread ELSE got
AllCopies ==
  IF pc \in {"read", "write", "close"} /\ sd = "write"
  THEN Append(copies, <<clisock, Written>>) ELSE copies

\* f is what the copies cs leave: the byte at every position is from the latest
\* copy that is longer than the position.
LeftBy(f, cs) ==
  /\ \A k \in 1..Len(f) : \E j \in 1..Len(cs) :
       /\ cs[j][1] = f[k] /\ cs[j][2] >= k
       /\ \A later \in (j + 1)..Len(cs) : cs[later][2] < k
  /\ \A j \in 1..Len(cs) : cs[j][2] <= Len(f)

\* The file is what the copies leave: chunks are never lost, shifted or taken
\* for another client's.  (A short copy leaves the tail of a longer one.)
FileExact == LeftBy(file, AllCopies)

\* What a client that closes its connection has sent is copied as a whole,
\* however the network cuts it up.
CopiedWhole ==
  \A j \in 1..Len(copies) : conn[copies[j][1]] = "done" => copies[j][2] = Length[copies[j][1]]

\* The server never leaks a descriptor of the file, whichever open fails.
NoDescriptorLeak == held = IF IsOpen(sd) /\ pc # "reopen" THEN 1 ELSE 0

\* "Data copied" (skyltclient.cc:92): the file then is what the client sent.
DataCopied ==
  pc = "accept" /\ copies # <<>> /\ copies[Len(copies)] = <<clisock, Length[clisock]>> =>
    file = [k \in 1..Length[clisock] |-> clisock]

\* A connection is served until it ends, unless the server gives up.
Served ==
  \A c \in Clients : conn[c] = "up" ~> (conn[c] \in {"done", "broken"} \/ pc = "failed")
=============================================================================
