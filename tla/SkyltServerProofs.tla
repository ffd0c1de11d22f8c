------------------------- MODULE SkyltServerProofs -------------------------
(***************************************************************************)
(* Proofs about skyltsrv/skyltclient.cc, for every set of clients, every   *)
(* length of their programmes, every backlog and buffer.                   *)
(***************************************************************************)
EXTENDS SkyltServer, TLAPS, SequenceTheorems

Serving == pc \in {"open", "read", "write", "close"}
Alive == {"up", "closed", "reset"}
Ended == {"done", "broken"}

\* A client waits in the queue, is served, or has been copied, and never two of
\* these at once.
PlaceInv ==
  /\ \A k \in 1..Len(queue) : conn[queue[k]] \in Alive
  /\ \A j, k \in 1..Len(queue) : queue[j] = queue[k] => j = k
  /\ Serving => /\ clisock \in Clients
                /\ conn[clisock] \in Alive \cup {"broken"}
                /\ \A k \in 1..Len(queue) : queue[k] # clisock
  /\ \A j \in 1..Len(copies) : /\ conn[copies[j][1]] \in Ended
                               /\ Serving => copies[j][1] # clisock

\* The loop ends only when all that has been sent is read, or at a reset.
ReadInv ==
  /\ \A c \in Clients : conn[c] = "closed" => sent[c] = Length[c]
  /\ Serving => got <= sent[clisock]
  /\ pc = "open" => got = 0
  /\ pc = "write" => bytesread <= got
  /\ pc \in {"read", "write", "close"} /\ sd = "write" => Written <= Len(file)
  /\ (pc = "write" /\ bytesread = 0) \/ pc = "close" =>
       conn[clisock] = "broken" \/ (conn[clisock] = "closed" /\ got = sent[clisock])

ServerInv == TypeOK /\ PlaceInv /\ ReadInv /\ NoDescriptorLeak

----------------------------------------------------------------------------
LEMMA InitInv == Init => ServerInv
<1> SUFFICES ASSUME Init PROVE ServerInv
  OBVIOUS
<1>1. <<>> \in Seq(Clients) /\ <<>> \in Seq(Clients \X Nat) /\ Len(<<>>) = 0 /\ 1..0 = {}
  OBVIOUS
<1>2. TypeOK
  BY <1>1, ServerAssumption DEF Init, TypeOK, Reset
<1>3. PlaceInv /\ ReadInv
  BY <1>1 DEF Init, PlaceInv, ReadInv, Serving
<1>4. NoDescriptorLeak
  BY DEF Init, NoDescriptorLeak, IsOpen
<1>5. QED
  BY <1>2, <1>3, <1>4 DEF ServerInv

\* What has been read of the served client grows by what read returns.
LEMMA ReadFacts ==
  ASSUME ServerInv, ReadSocket
  PROVE  /\ clisock \in Clients /\ got \in Nat /\ sent[clisock] \in Nat
         /\ bytesread' \in Reset..BufSize
         /\ got' = got + (IF bytesread' = Reset THEN 0 ELSE bytesread')
         /\ got' \in Nat /\ got' <= sent[clisock] /\ bytesread' <= got'
         /\ bytesread' = 0 => conn'[clisock] = "broken"
                                \/ (conn'[clisock] = "closed" /\ got' = sent[clisock])
         /\ conn' \in [Clients -> {"new", "up", "closed", "reset", "broken", "done"}]
         /\ conn' = conn \/ conn' = [conn EXCEPT ![clisock] = "broken"]
<1>1. clisock \in Clients /\ got \in Nat /\ sent[clisock] \in Nat /\ got <= sent[clisock]
  BY DEF ServerInv, TypeOK, PlaceInv, ReadInv, ReadSocket, Serving
<1>2. BufSize \in Nat \ {0} /\ conn \in [Clients -> {"new", "up", "closed", "reset", "broken", "done"}]
  BY ServerAssumption DEF ServerInv, TypeOK
<1>3. got' = got + (IF bytesread' = Reset THEN 0 ELSE bytesread')
  BY DEF ReadSocket
<1>4. CASE /\ Arrived > 0 /\ UNCHANGED conn
           /\ bytesread' \in 1..(IF Arrived < BufSize THEN Arrived ELSE BufSize)
  <2>1. Arrived = sent[clisock] - got
    BY DEF Arrived
  <2> DEFINE k == bytesread'
  <2>2. k \in 1..(IF Arrived < BufSize THEN Arrived ELSE BufSize)
    BY <1>4
  <2> HIDE DEF k
  <2>3. k \in Nat \ {0} /\ k <= BufSize /\ k <= sent[clisock] - got
    BY <1>1, <1>2, <2>1, <2>2
  <2>4. got' = got + k
    BY <1>3, <2>3 DEF k, Reset
  <2>5. /\ k \in Reset..BufSize /\ k # 0
        /\ got + k \in Nat /\ got + k <= sent[clisock] /\ k <= got + k
    BY <1>1, <1>2, <2>3 DEF Reset
  <2>6. QED
    BY <1>1, <1>2, <1>3, <1>4, <2>4, <2>5 DEF k
<1>5. CASE /\ (conn[clisock] = "closed" /\ Arrived = 0) \/ conn[clisock] = "broken"
           /\ bytesread' = 0 /\ UNCHANGED conn
  BY <1>1, <1>2, <1>3, <1>5 DEF Arrived, Reset
<1>6. CASE bytesread' = Reset /\ conn' = [conn EXCEPT ![clisock] = "broken"]
  BY <1>1, <1>2, <1>3, <1>6 DEF Reset
<1>7. QED
  BY <1>4, <1>5, <1>6 DEF ReadSocket

LEMMA TypeStep == ServerInv /\ [Next]_vars => TypeOK'
<1> SUFFICES ASSUME ServerInv, [Next]_vars PROVE TypeOK'
  OBVIOUS
<1>0. TypeOK
  BY DEF ServerInv
<1> USE <1>0 DEF TypeOK
<1>1. CASE Listen \/ AcceptFails
  BY <1>1 DEF Listen, AcceptFails, kernel, transfer, disk
<1>2. CASE Accept
  <2>1. Head(queue) \in Clients /\ Tail(queue) \in Seq(Clients)
    BY <1>2 DEF Accept
  <2>2. QED
    BY <1>2, <2>1 DEF Accept, disk
<1>3. CASE OpenFile
  <2>1. held' \in Nat
    BY <1>3 DEF OpenFile, ServerInv, NoDescriptorLeak, IsOpen
  <2>2. sd' \in {"write", "failed"} /\ pc' = "read"
    BY <1>3 DEF OpenFile
  <2>3. QED
    BY <1>3, <2>1, <2>2 DEF OpenFile, kernel, transfer
<1>4. CASE ReadSocket
  BY <1>4, ReadFacts DEF ReadSocket, disk
<1>5. CASE WriteFile
  <2>1. file' \in Seq(Clients)
    <3>1. CASE sd = "write" /\ bytesread > 0
      <4>1. clisock \in Clients
        BY <1>5 DEF WriteFile, ServerInv, PlaceInv, Serving
      <4>2. got - bytesread \in Nat /\ bytesread \in Nat
        BY <1>5, <3>1 DEF WriteFile, ServerInv, ReadInv, Reset
      <4> DEFINE at == got - bytesread
      <4>3. file' = Overwrite(at, bytesread)
        BY <1>5, <3>1 DEF WriteFile
      <4>4. Len(file) \in Nat /\ \A k \in 1..Len(file) : file[k] \in Clients
        OBVIOUS
      <4> HIDE DEF at
      <4>5. Overwrite(at, bytesread) \in Seq(Clients)
        <5> DEFINE m == IF at + bytesread > Len(file) THEN at + bytesread ELSE Len(file)
        <5>1. m \in Nat
          BY <4>2, <4>4 DEF at
        <5>2. at <= Len(file)
          BY <1>5, <3>1, <4>2 DEF WriteFile, ServerInv, ReadInv, Written, at
        <5>3. \A k \in 1..m : ~(k \in (at + 1)..(at + bytesread)) => file[k] \in Clients
          BY <4>2, <4>4, <5>2 DEF at
        <5>4. Overwrite(at, bytesread) \in [1..m -> Clients]
          BY <4>1, <5>3 DEF Overwrite
        <5> HIDE DEF m
        <5>5. QED
          BY <5>1, <5>4
      <4>6. QED
        BY <4>3, <4>5
    <3>2. CASE ~(sd = "write" /\ bytesread > 0)
      BY <1>5, <3>2 DEF WriteFile
    <3>3. QED
      BY <3>1, <3>2
  <2>2. QED
    BY <1>5, <2>1 DEF WriteFile, kernel, transfer
<1>6. CASE CloseBoth
  <2>1. held' \in Nat
    BY <1>6 DEF CloseBoth, ServerInv, NoDescriptorLeak
  <2>2. clisock \in Clients /\ got \in Nat
    BY <1>6 DEF CloseBoth, ServerInv, PlaceInv, Serving
  <2>3. copies' \in Seq(Clients \X Nat)
    <3>1. <<clisock, got>> \in Clients \X Nat
      BY <2>2
    <3> DEFINE entry == <<clisock, got>>
    <3>2. copies' = Append(copies, entry) \/ copies' = copies
      BY <1>6 DEF CloseBoth
    <3> DEFINE S == Clients \X Nat
    <3>3. entry \in S /\ copies \in Seq(S)
      BY <3>1
    <3>4. copies' \in Seq(S)
      <4> HIDE DEF entry, S
      <4>1. Append(copies, entry) \in Seq(S)
        BY <3>3, AppendProperties
      <4>2. QED
        BY <3>2, <3>3, <4>1
    <3>5. QED
      BY <3>4
  <2>4. conn' \in [Clients -> {"new", "up", "closed", "reset", "broken", "done"}]
    BY <1>6 DEF CloseBoth
  <2>5. QED
    BY <1>6, <2>1, <2>3, <2>4 DEF CloseBoth, transfer
<1>7. CASE Reopen
  BY <1>7 DEF Reopen, kernel, transfer
<1>8. ASSUME NEW c \in Clients, Client(c) PROVE TypeOK'
  <2>1. CASE Connect(c)
    BY <2>1 DEF Connect, server
  <2>2. CASE Send(c)
    <3>1. sent[c] \in Nat /\ Length[c] \in Nat /\ sent[c] < Length[c]
      BY <2>2, ServerAssumption DEF Send
    <3>2. QED
      BY <2>2, <3>1 DEF Send, server
  <2>3. CASE Close(c) \/ GoAway(c)
    BY <2>3 DEF Close, GoAway, server
  <2>4. QED
    BY <1>8, <2>1, <2>2, <2>3 DEF Client
<1>9. CASE UNCHANGED vars
  BY <1>9 DEF vars
<1>10. QED
  BY <1>1, <1>2, <1>3, <1>4, <1>5, <1>6, <1>7, <1>8, <1>9 DEF Next, Server, Over

----------------------------------------------------------------------------
LEMMA PlaceStep == ServerInv /\ [Next]_vars => PlaceInv'
<1> SUFFICES ASSUME ServerInv, [Next]_vars PROVE PlaceInv'
  OBVIOUS
<1>0. TypeOK /\ PlaceInv /\ ReadInv
  BY DEF ServerInv
<1>a. /\ conn \in [Clients -> {"new", "up", "closed", "reset", "broken", "done"}]
      /\ queue \in Seq(Clients) /\ copies \in Seq(Clients \X Nat)
      /\ Len(queue) \in Nat /\ Len(copies) \in Nat
      /\ \A k \in 1..Len(queue) : queue[k] \in Clients
      /\ \A j \in 1..Len(copies) : copies[j] \in Clients \X Nat
  BY <1>0 DEF TypeOK
<1>b. \A j \in 1..Len(copies) : copies[j][1] \in Clients
  BY <1>a
<1>1. CASE Listen \/ AcceptFails \/ Reopen
  BY <1>0, <1>1 DEF PlaceInv, Serving, Listen, AcceptFails, Reopen, kernel, transfer, disk
<1>2. CASE Accept
  <2>1. /\ Len(queue) > 0 /\ clisock' = queue[1] /\ queue' = Tail(queue)
        /\ UNCHANGED <<conn, copies>>
    BY <1>2, <1>a DEF Accept, disk
  <2>2. Len(Tail(queue)) = Len(queue) - 1
        /\ \A k \in 1..(Len(queue) - 1) : Tail(queue)[k] = queue[k + 1]
    BY <1>a, <2>1
  <2>3. \A k \in 1..Len(queue') :
          queue'[k] = queue[k + 1] /\ k + 1 \in 1..Len(queue) /\ k + 1 # 1
    BY <1>a, <2>1, <2>2
  <2>4. \A j, k \in 1..Len(queue') : queue'[j] = queue'[k] => j = k
    <3>1. SUFFICES ASSUME NEW j \in 1..Len(queue'), NEW k \in 1..Len(queue'), queue'[j] = queue'[k]
                   PROVE  j = k
      OBVIOUS
    <3>2. j + 1 = k + 1
      BY <1>0, <2>3, <3>1 DEF PlaceInv
    <3>3. QED
      BY <1>a, <2>1, <2>2, <3>2
  <2>5. 1 \in 1..Len(queue) /\ clisock' \in Clients /\ conn[clisock'] \in Alive
    BY <1>0, <1>a, <2>1 DEF PlaceInv
  <2>6. \A k \in 1..Len(queue') : queue'[k] # clisock' /\ conn[queue'[k]] \in Alive
    BY <1>0, <2>1, <2>3, <2>5 DEF PlaceInv
  <2>7. \A j \in 1..Len(copies) : conn[copies[j][1]] \in Ended /\ copies[j][1] # clisock'
    BY <1>0, <2>5 DEF PlaceInv, Alive, Ended
  <2>8. QED
    BY <2>1, <2>4, <2>5, <2>6, <2>7 DEF PlaceInv
<1>3. CASE OpenFile \/ WriteFile
  <2>1. Serving /\ UNCHANGED <<queue, conn, clisock, copies>>
    BY <1>3 DEF Serving, OpenFile, WriteFile, kernel, transfer
  <2>2. QED
    BY <1>0, <2>1 DEF PlaceInv
<1>4. CASE ReadSocket
  <2>1. Serving /\ UNCHANGED <<queue, clisock, copies>>
        /\ (conn' = conn \/ conn' = [conn EXCEPT ![clisock] = "broken"])
    BY <1>4, ReadFacts DEF Serving, ReadSocket, disk
  <2>2. clisock \in Clients /\ conn'[clisock] \in Alive \cup {"broken"}
        /\ \A c \in Clients : c # clisock => conn'[c] = conn[c]
    BY <1>0, <1>a, <2>1 DEF PlaceInv
  <2>3. QED
    BY <1>0, <1>a, <1>b, <2>1, <2>2 DEF PlaceInv
<1>5. CASE CloseBoth
  <2>1. /\ Serving /\ ~Serving' /\ UNCHANGED <<queue, clisock>>
        /\ clisock \in Clients /\ conn[clisock] \in {"broken", "closed"}
    BY <1>0, <1>5 DEF Serving, CloseBoth, transfer, PlaceInv, ReadInv
  <2>2. conn'[clisock] \in Ended /\ \A c \in Clients : c # clisock => conn'[c] = conn[c]
    BY <1>5, <1>a, <2>1 DEF CloseBoth, Ended
  <2>3. \A k \in 1..Len(queue') : conn'[queue'[k]] \in Alive
    BY <1>0, <1>a, <2>1, <2>2 DEF PlaceInv
  <2>4. \A j \in 1..Len(copies) : conn'[copies[j][1]] \in Ended
    BY <1>0, <1>b, <2>1, <2>2 DEF PlaceInv
  <2>5. \A j \in 1..Len(copies') : conn'[copies'[j][1]] \in Ended
    <3>1. CASE copies' = copies
      BY <2>4, <3>1
    <3>2. CASE copies' = Append(copies, <<clisock, got>>)
      <4>1. ASSUME NEW j \in 1..Len(copies')
            PROVE  copies'[j] = <<clisock, got>> \/ (j \in 1..Len(copies) /\ copies'[j] = copies[j])
        BY <1>a, <3>2
      <4>2. QED
        BY <2>2, <2>4, <4>1
    <3>3. QED
      BY <1>5, <3>1, <3>2 DEF CloseBoth
  <2>6. QED
    BY <1>0, <2>1, <2>3, <2>5 DEF PlaceInv
<1>6. ASSUME NEW c \in Clients, Connect(c) PROVE PlaceInv'
  <2>1. /\ conn[c] = "new" /\ conn' = [conn EXCEPT ![c] = "up"] /\ queue' = Append(queue, c)
        /\ UNCHANGED <<pc, clisock, copies>>
    BY <1>6 DEF Connect, server
  <2>2. conn'[c] = "up" /\ \A d \in Clients : d # c => conn'[d] = conn[d]
    BY <1>a, <2>1
  <2>3. /\ \A k \in 1..Len(queue) : queue[k] # c
        /\ Serving => clisock # c
        /\ \A j \in 1..Len(copies) : copies[j][1] # c
    BY <1>0, <2>1 DEF PlaceInv, Alive, Ended
  <2>4. \A k \in 1..Len(queue') :
          (k = Len(queue) + 1 /\ queue'[k] = c) \/ (k \in 1..Len(queue) /\ queue'[k] = queue[k])
    BY <1>a, <2>1
  <2>5. \A j, k \in 1..Len(queue') : queue'[j] = queue'[k] => j = k
    BY <1>0, <2>3, <2>4 DEF PlaceInv
  <2>6. \A k \in 1..Len(queue') : conn'[queue'[k]] \in Alive
    BY <1>0, <1>a, <2>2, <2>3, <2>4 DEF PlaceInv, Alive
  <2>7. Serving' = Serving
    BY <2>1 DEF Serving
  <2>8. QED
    BY <1>0, <1>a, <1>b, <2>1, <2>2, <2>3, <2>4, <2>5, <2>6, <2>7 DEF PlaceInv
<1>7. ASSUME NEW c \in Clients, Send(c) \/ Close(c) \/ GoAway(c) PROVE PlaceInv'
  <2>1. /\ conn[c] = "up" /\ UNCHANGED <<pc, queue, clisock, copies>>
        /\ conn' = conn \/ conn' = [conn EXCEPT ![c] = "closed"]
             \/ conn' = [conn EXCEPT ![c] = "reset"]
    BY <1>7 DEF Send, Close, GoAway, server
  <2>2. conn'[c] \in Alive /\ \A d \in Clients : d # c => conn'[d] = conn[d]
    BY <1>a, <2>1 DEF Alive
  <2>3. \A j \in 1..Len(copies) : copies[j][1] # c
    BY <1>0, <2>1 DEF PlaceInv, Ended
  <2>4. Serving' = Serving
    BY <2>1 DEF Serving
  <2>5. QED
    BY <1>0, <1>a, <1>b, <2>1, <2>2, <2>3, <2>4 DEF PlaceInv
<1>8. CASE UNCHANGED vars
  BY <1>0, <1>8 DEF vars, PlaceInv, Serving
<1>9. QED
  BY <1>1, <1>2, <1>3, <1>4, <1>5, <1>6, <1>7, <1>8 DEF Next, Server, Over, Client

----------------------------------------------------------------------------
\* What a write leaves of the file.
LEMMA WrittenFile ==
  ASSUME ServerInv, WriteFile, sd = "write", bytesread > 0
  PROVE  /\ clisock \in Clients /\ got - bytesread \in Nat /\ bytesread \in Nat
         /\ got - bytesread <= Len(file) /\ Written = got - bytesread
         /\ file' \in Seq(Clients) /\ Len(file') >= got /\ Len(file') >= Len(file)
         /\ Len(file') = IF got > Len(file) THEN got ELSE Len(file)
         /\ \A k \in 1..Len(file') :
              file'[k] = IF k \in (got - bytesread + 1)..got THEN clisock ELSE file[k]
<1> DEFINE at == got - bytesread
           m == IF got > Len(file) THEN got ELSE Len(file)
<1>1. /\ clisock \in Clients /\ got \in Nat /\ at \in Nat /\ bytesread \in Nat
      /\ at <= Len(file) /\ Written = at /\ at + bytesread = got
      /\ Len(file) \in Nat /\ m \in Nat
  BY DEF WriteFile, ServerInv, TypeOK, PlaceInv, ReadInv, Serving, Reset, Written
<1>2. file' = [k \in 1..m |-> IF k \in (at + 1)..got THEN clisock ELSE file[k]]
  BY <1>1 DEF WriteFile, Overwrite
<1>3. file' \in Seq(Clients)
  BY TypeStep DEF TypeOK, Next, Server
<1>4. Len(file') = m
  <2> DEFINE new == file'
  <2> HIDE DEF at, m
  <2>1. DOMAIN new = 1..m
    BY <1>2
  <2>2. new \in Seq(Clients)
    BY <1>3
  <2> HIDE DEF new
  <2>3. DOMAIN new = 1..Len(new) /\ Len(new) \in Nat
    BY <2>2
  <2>4. Len(new) = m
    BY <1>1, <2>1, <2>3
  <2>5. QED
    BY <2>4 DEF new
<1>5. QED
  BY <1>1, <1>2, <1>3, <1>4

LEMMA ReadStep == ServerInv /\ [Next]_vars => ReadInv'
<1> SUFFICES ASSUME ServerInv, [Next]_vars PROVE ReadInv'
  OBVIOUS
<1>0. TypeOK /\ PlaceInv /\ ReadInv
  BY DEF ServerInv
<1>a. /\ conn \in [Clients -> {"new", "up", "closed", "reset", "broken", "done"}]
      /\ sent \in [Clients -> Nat] /\ got \in Nat /\ Len(file) \in Nat
      /\ Serving => clisock \in Clients
  BY <1>0 DEF TypeOK, PlaceInv
<1>1. CASE Listen \/ AcceptFails \/ Reopen
  BY <1>0, <1>1 DEF ReadInv, Serving, Listen, AcceptFails, Reopen, kernel, transfer
<1>2. CASE Accept
  <2>1. queue # <<>> /\ clisock' = Head(queue) /\ Head(queue) \in Clients
    BY <1>0, <1>2 DEF Accept, TypeOK
  <2>2. QED
    BY <1>0, <1>2, <1>a, <2>1 DEF ReadInv, Accept, disk
<1>3. CASE OpenFile
  <2>1. got = 0 /\ UNCHANGED <<conn, sent, clisock, got, file>> /\ pc' = "read" /\ Serving
    BY <1>0, <1>3 DEF ReadInv, Serving, OpenFile, kernel, transfer
  <2>2. QED
    BY <1>0, <1>a, <2>1 DEF ReadInv, Written, Serving
<1>4. CASE ReadSocket
  <2>1. /\ pc = "read" /\ pc' = "write" /\ UNCHANGED <<sent, clisock, sd, file>>
        /\ Serving /\ clisock \in Clients
    BY <1>4, <1>a DEF ReadSocket, disk, Serving
  <2>2. /\ got' <= sent'[clisock'] /\ bytesread' <= got'
        /\ bytesread' = 0 => conn'[clisock'] = "broken"
                               \/ (conn'[clisock'] = "closed" /\ got' = sent'[clisock'])
    BY <1>4, <2>1, ReadFacts
  <2>3. \A c \in Clients : conn'[c] = "closed" => sent'[c] = Length[c]
    BY <1>0, <1>4, <1>a, <2>1, ReadFacts DEF ReadInv
  <2>4. Written' = got /\ Written = got
    BY <1>4, <1>a, <2>1, ReadFacts DEF Written, Reset
  <2>5. QED
    BY <1>0, <2>1, <2>2, <2>3, <2>4 DEF ReadInv
<1>5. CASE WriteFile
  <2>1. /\ pc = "write" /\ UNCHANGED <<conn, sent, clisock, got, bytesread, sd>> /\ Serving
        /\ pc' = IF bytesread # 0 THEN "read" ELSE "close"
    BY <1>5 DEF WriteFile, kernel, transfer, Serving
  <2>2. sd' = "write" => Written' <= Len(file')
    <3>1. CASE sd = "write" /\ bytesread > 0
      BY <1>5, <2>1, <3>1, WrittenFile DEF Written
    <3>2. CASE sd = "write" /\ ~(bytesread > 0)
      BY <1>0, <1>5, <2>1, <3>2 DEF Written, ReadInv, WriteFile
    <3>3. QED
      BY <2>1, <3>1, <3>2
  <2>3. QED
    BY <1>0, <2>1, <2>2 DEF ReadInv, Serving
<1>6. CASE CloseBoth
  <2>1. /\ pc' = "reopen" /\ UNCHANGED sent
        /\ conn' = [conn EXCEPT ![clisock] = IF @ = "closed" THEN "done" ELSE @]
    BY <1>6 DEF CloseBoth
  <2>2. QED
    BY <1>0, <1>a, <2>1 DEF ReadInv, Serving
<1>7. ASSUME NEW c \in Clients, Connect(c) \/ GoAway(c) PROVE ReadInv'
  <2>1. /\ UNCHANGED <<pc, clisock, got, bytesread, sd, file, sent>>
        /\ conn[c] \in {"new", "up"}
        /\ conn' = [conn EXCEPT ![c] = "up"] \/ conn' = [conn EXCEPT ![c] = "reset"]
    BY <1>7 DEF Connect, GoAway, server
  <2>2. Serving' = Serving /\ Written' = Written
    BY <2>1 DEF Serving, Written
  <2>3. \A d \in Clients : conn'[d] = conn[d] \/ (d = c /\ conn'[d] \in {"up", "reset"})
    BY <1>a, <2>1
  <2>4. QED
    BY <1>0, <1>a, <2>1, <2>2, <2>3 DEF ReadInv, Serving
<1>8. ASSUME NEW c \in Clients, Send(c) PROVE ReadInv'
  <2>1. /\ UNCHANGED <<pc, clisock, got, bytesread, sd, file, conn>> /\ conn[c] = "up"
        /\ sent' = [sent EXCEPT ![c] = @ + 1]
    BY <1>8 DEF Send, server
  <2>2. Serving' = Serving /\ Written' = Written
    BY <2>1 DEF Serving, Written
  <2>3. \A d \in Clients : sent[d] \in Nat /\ sent'[d] >= sent[d] /\ (d # c => sent'[d] = sent[d])
    BY <1>a, <2>1
  <2>4. Serving => got <= sent'[clisock]
    <3> SUFFICES ASSUME Serving PROVE got <= sent'[clisock]
      OBVIOUS
    <3>1. got <= sent[clisock] /\ sent'[clisock] >= sent[clisock]
          /\ sent[clisock] \in Nat
      BY <1>0, <1>a, <2>3 DEF ReadInv
    <3>2. sent'[clisock] \in Nat
      BY <1>a, <2>1
    <3>3. QED
      BY <1>a, <3>1, <3>2
  <2>5. QED
    BY <1>0, <1>a, <2>1, <2>2, <2>3, <2>4 DEF ReadInv, Serving
<1>9. ASSUME NEW c \in Clients, Close(c) PROVE ReadInv'
  <2>1. /\ UNCHANGED <<pc, clisock, got, bytesread, sd, file, sent>> /\ conn[c] = "up"
        /\ sent[c] = Length[c] /\ conn' = [conn EXCEPT ![c] = "closed"]
    BY <1>9 DEF Close, server
  <2>2. Serving' = Serving /\ Written' = Written
    BY <2>1 DEF Serving, Written
  <2>3. \A d \in Clients : conn'[d] = IF d = c THEN "closed" ELSE conn[d]
    BY <1>a, <2>1
  <2>4. QED
    BY <1>0, <1>a, <2>1, <2>2, <2>3 DEF ReadInv, Serving
<1>10. CASE UNCHANGED vars
  BY <1>0, <1>10 DEF vars, ReadInv, Serving, Written
<1>11. QED
  BY <1>1, <1>2, <1>3, <1>4, <1>5, <1>6, <1>7, <1>8, <1>9, <1>10
  DEF Next, Server, Over, Client

LEMMA LeakStep == ServerInv /\ [Next]_vars => NoDescriptorLeak'
<1> SUFFICES ASSUME ServerInv, [Next]_vars PROVE NoDescriptorLeak'
  OBVIOUS
<1>0. NoDescriptorLeak /\ held \in Nat /\ sd \in {"zero", "failed", "write", "read"}
  BY DEF ServerInv, TypeOK
<1> USE <1>0 DEF NoDescriptorLeak, IsOpen
<1>1. CASE Listen \/ Accept \/ AcceptFails
  BY <1>1 DEF Listen, Accept, AcceptFails, disk
<1>2. CASE OpenFile
  BY <1>2 DEF OpenFile
<1>3. CASE ReadSocket \/ WriteFile
  BY <1>3 DEF ReadSocket, WriteFile, disk
<1>4. CASE CloseBoth
  BY <1>4 DEF CloseBoth
<1>5. CASE Reopen
  BY <1>5 DEF Reopen
<1>6. ASSUME NEW c \in Clients, Client(c) PROVE NoDescriptorLeak'
  BY <1>6 DEF Client, Connect, Send, Close, GoAway, server
<1>7. CASE UNCHANGED vars
  BY <1>7 DEF vars
<1>8. QED
  BY <1>1, <1>2, <1>3, <1>4, <1>5, <1>6, <1>7 DEF Next, Server, Over

LEMMA ServerInvariant == Spec => []ServerInv
<1>1. ServerInv /\ [Next]_vars => ServerInv'
  BY TypeStep, PlaceStep, ReadStep, LeakStep DEF ServerInv
<1>2. QED
  BY InitInv, <1>1, PTL DEF Spec

\* The states of the server and of the connections it serves.
THEOREM TypeCorrect == Spec => []TypeOK
<1>1. ServerInv => TypeOK
  BY DEF ServerInv
<1>2. QED
  BY <1>1, ServerInvariant, PTL

\* The process holds at most one descriptor of the file, whichever open fails:
\* close(sd) at the top of the loop and behind the copy never misses one.
THEOREM NoLeak == Spec => []NoDescriptorLeak
<1>1. ServerInv => NoDescriptorLeak
  BY DEF ServerInv
<1>2. QED
  BY <1>1, ServerInvariant, PTL

----------------------------------------------------------------------------
\* What CloseBoth appends, and what no other step touches.
LEMMA CopiesStep ==
  ASSUME ServerInv, [Next]_vars
  PROVE  \/ copies' = copies
         \/ CloseBoth /\ clisock \in Clients /\ got \in Nat /\ copies' = Append(copies, <<clisock, got>>)
<1>1. CASE CloseBoth
  <2>1. clisock \in Clients /\ got \in Nat
    BY <1>1 DEF CloseBoth, ServerInv, TypeOK, PlaceInv, Serving
  <2>2. QED
    BY <1>1, <2>1 DEF CloseBoth
<1>2. CASE ~CloseBoth
  BY <1>2 DEF Next, Server, Over, Client, vars, disk, kernel, transfer, server,
     Listen, Accept, AcceptFails, OpenFile, ReadSocket, WriteFile, Reopen, Connect, Send, Close, GoAway
<1>3. QED
  BY <1>1, <1>2

LEMMA WholeStep == ServerInv /\ CopiedWhole /\ [Next]_vars => CopiedWhole'
<1> SUFFICES ASSUME ServerInv, CopiedWhole, [Next]_vars PROVE CopiedWhole'
  OBVIOUS
<1>0. TypeOK /\ PlaceInv /\ ReadInv
  BY DEF ServerInv
<1>a. /\ conn \in [Clients -> {"new", "up", "closed", "reset", "broken", "done"}]
      /\ copies \in Seq(Clients \X Nat) /\ Len(copies) \in Nat
      /\ \A j \in 1..Len(copies) : copies[j] \in Clients \X Nat
  BY <1>0 DEF TypeOK
<1>b. \A j \in 1..Len(copies) : copies[j][1] \in Clients
  BY <1>a
<1>1. CASE CloseBoth
  <2>1. /\ Serving /\ clisock \in Clients
        /\ conn[clisock] = "broken" \/ (conn[clisock] = "closed" /\ got = Length[clisock])
    BY <1>0, <1>1 DEF Serving, CloseBoth, PlaceInv, ReadInv
  <2>2. /\ conn'[clisock] = "done" => got = Length[clisock]
        /\ \A c \in Clients : c # clisock => conn'[c] = conn[c]
    BY <1>1, <1>a, <2>1 DEF CloseBoth
  <2>3. ASSUME NEW j \in 1..Len(copies), conn'[copies[j][1]] = "done"
        PROVE  copies[j][2] = Length[copies[j][1]]
    BY <1>0, <1>b, <2>1, <2>2, <2>3 DEF PlaceInv, CopiedWhole
  <2>4. CASE copies' = copies
    BY <2>3, <2>4 DEF CopiedWhole
  <2>5. CASE copies' = Append(copies, <<clisock, got>>)
    <3>1. ASSUME NEW j \in 1..Len(copies')
          PROVE  copies'[j] = <<clisock, got>> \/ (j \in 1..Len(copies) /\ copies'[j] = copies[j])
      BY <1>a, <2>5
    <3>2. QED
      BY <2>2, <2>3, <3>1 DEF CopiedWhole
  <2>6. QED
    BY <2>4, <2>5, CopiesStep
<1>2. CASE ~CloseBoth
  <2>1. copies' = copies
    BY <1>2, CopiesStep
  <2>2. \A c \in Clients : conn'[c] = "done" => conn[c] = "done"
    <3>1. CASE ReadSocket
      BY <1>a, <3>1, ReadFacts
    <3>2. CASE conn' = conn
      BY <3>2
    <3>3. ASSUME NEW c \in Clients, Connect(c) \/ Close(c) \/ GoAway(c)
          PROVE  \A d \in Clients : conn'[d] = "done" => conn[d] = "done"
      BY <1>a, <3>3 DEF Connect, Close, GoAway
    <3>4. ReadSocket \/ conn' = conn \/ \E c \in Clients : Connect(c) \/ Close(c) \/ GoAway(c)
      BY <1>2 DEF Next, Server, Over, Client, vars, disk, kernel, transfer, server,
         Listen, Accept, AcceptFails, OpenFile, WriteFile, Reopen, Send
    <3>5. QED
      BY <3>1, <3>2, <3>3, <3>4
  <2>3. QED
    BY <1>b, <2>1, <2>2 DEF CopiedWhole
<1>3. QED
  BY <1>1, <1>2

\* What a client that closes its connection has sent is copied as a whole: no
\* short read ends the loop, and the end of the stream comes behind every byte.
THEOREM CopyIsWhole == Spec => []CopiedWhole
<1>1. Init => CopiedWhole
  BY DEF Init, CopiedWhole
<1>2. QED
  BY <1>1, WholeStep, ServerInvariant, PTL DEF Spec

----------------------------------------------------------------------------
\* A write of the running copy keeps the file what the copies leave.
LEMMA Overwritten ==
  ASSUME NEW f \in Seq(Clients), NEW g \in Seq(Clients), NEW cs \in Seq(Clients \X Nat),
         NEW c \in Clients, NEW w \in Nat, NEW b \in Nat, w <= Len(f),
         Len(g) = IF w + b > Len(f) THEN w + b ELSE Len(f),
         \A k \in 1..Len(g) : g[k] = IF k \in (w + 1)..(w + b) THEN c ELSE f[k],
         LeftBy(f, Append(cs, <<c, w>>))
  PROVE  LeftBy(g, Append(cs, <<c, w + b>>))
<1> DEFINE n == Len(cs)
           old == Append(cs, <<c, w>>)
           new == Append(cs, <<c, w + b>>)
<1>1. n \in Nat /\ Len(old) = n + 1 /\ Len(new) = n + 1 /\ Len(f) \in Nat /\ Len(g) \in Nat
  OBVIOUS
<1>2. /\ old[n + 1] = <<c, w>> /\ new[n + 1] = <<c, w + b>>
      /\ \A j \in 1..n : old[j] = cs[j] /\ new[j] = cs[j]
  OBVIOUS
<1>3. \A j \in 1..n : cs[j] \in Clients \X Nat
  OBVIOUS
<1>4. /\ old[n + 1][1] = c /\ old[n + 1][2] = w /\ new[n + 1][1] = c /\ new[n + 1][2] = w + b
      /\ \A j \in 1..n : new[j] = old[j] /\ old[j][2] \in Nat
  BY <1>2, <1>3
<1>5. /\ \A k \in 1..Len(f) : \E j \in 1..(n + 1) :
           /\ old[j][1] = f[k] /\ old[j][2] >= k
           /\ \A later \in (j + 1)..(n + 1) : old[later][2] < k
      /\ \A j \in 1..(n + 1) : old[j][2] <= Len(f)
  BY <1>1 DEF LeftBy
<1> HIDE DEF n, old, new
<1>6. ASSUME NEW k \in 1..Len(g)
      PROVE  \E j \in 1..(n + 1) :
               /\ new[j][1] = g[k] /\ new[j][2] >= k
               /\ \A later \in (j + 1)..(n + 1) : new[later][2] < k
  <2>1. CASE k \in (w + 1)..(w + b)
    <3>1. g[k] = c /\ w + b >= k /\ n + 1 \in 1..(n + 1)
      BY <1>1, <2>1
    <3>2. \A later \in (n + 1 + 1)..(n + 1) : FALSE
      BY <1>1
    <3>3. QED
      BY <1>4, <3>1, <3>2
  <2>2. CASE ~(k \in (w + 1)..(w + b))
    <3>1. g[k] = f[k] /\ k \in 1..Len(f) /\ (k <= w \/ k > w + b)
      BY <1>1, <2>2
    <3>2. PICK j \in 1..(n + 1) :
            /\ old[j][1] = f[k] /\ old[j][2] >= k
            /\ \A later \in (j + 1)..(n + 1) : old[later][2] < k
      BY <1>5, <3>1
    <3>3. CASE k <= w
      <4>1. j = n + 1
        <5>1. SUFFICES ASSUME j # n + 1 PROVE FALSE
          OBVIOUS
        <5>2. n + 1 \in (j + 1)..(n + 1)
          BY <1>1, <5>1
        <5>3. w < k
          BY <1>4, <3>2, <5>2
        <5>4. QED
          BY <3>1, <3>3, <5>3
      <4>2. new[j][1] = g[k] /\ new[j][2] >= k
        BY <1>4, <3>1, <3>2, <3>3, <4>1
      <4>3. \A later \in (j + 1)..(n + 1) : FALSE
        BY <1>1, <4>1
      <4>4. QED
        BY <4>2, <4>3
    <3>4. CASE k > w + b
      <4>1. j # n + 1
        BY <1>4, <3>2, <3>4
      <4>2. j \in 1..n
        BY <1>1, <4>1
      <4>3. new[j][1] = g[k] /\ new[j][2] >= k
        BY <1>4, <3>1, <3>2, <4>2
      <4>4. ASSUME NEW later \in (j + 1)..(n + 1) PROVE new[later][2] < k
        <5>1. later = n + 1 \/ later \in 1..n
          BY <1>1, <4>2
        <5>2. QED
          BY <1>4, <3>2, <3>4, <5>1
      <4>5. QED
        BY <4>3, <4>4
    <3>5. QED
      BY <3>1, <3>3, <3>4
  <2>3. QED
    BY <2>1, <2>2
<1>7. ASSUME NEW j \in 1..(n + 1) PROVE new[j][2] <= Len(g)
  <2>1. Len(f) <= Len(g) /\ w + b <= Len(g)
    BY <1>1
  <2>2. j = n + 1 \/ j \in 1..n
    BY <1>1
  <2>3. CASE j = n + 1
    BY <1>4, <2>1, <2>3
  <2>4. CASE j \in 1..n
    <3>1. new[j] = old[j] /\ old[j][2] \in Nat /\ old[j][2] <= Len(f)
      BY <1>1, <1>4, <1>5, <2>4
    <3>2. QED
      BY <1>1, <2>1, <3>1
  <2>5. QED
    BY <2>2, <2>3, <2>4
<1>8. LeftBy(g, new)
  BY <1>1, <1>6, <1>7 DEF LeftBy, new
<1>9. QED
  BY <1>8 DEF new

\* A copy that has brought nothing yet.
LEMMA NothingYet ==
  ASSUME NEW f \in Seq(Clients), NEW cs \in Seq(Clients \X Nat), NEW c \in Clients, LeftBy(f, cs)
  PROVE  LeftBy(f, Append(cs, <<c, 0>>))
<1> DEFINE n == Len(cs)
           new == Append(cs, <<c, 0>>)
<1>1. /\ n \in Nat /\ Len(new) = n + 1 /\ Len(f) \in Nat
      /\ new[n + 1] = <<c, 0>> /\ \A j \in 1..n : new[j] = cs[j]
  OBVIOUS
<1>2. new[n + 1][2] = 0
  BY <1>1
<1>3. /\ \A k \in 1..Len(f) : \E j \in 1..n :
           /\ cs[j][1] = f[k] /\ cs[j][2] >= k
           /\ \A later \in (j + 1)..n : cs[later][2] < k
      /\ \A j \in 1..n : cs[j][2] <= Len(f)
  BY DEF LeftBy
<1> HIDE DEF n, new
<1>4. ASSUME NEW k \in 1..Len(f)
      PROVE  \E j \in 1..(n + 1) :
               /\ new[j][1] = f[k] /\ new[j][2] >= k
               /\ \A later \in (j + 1)..(n + 1) : new[later][2] < k
  <2>1. PICK j \in 1..n : /\ cs[j][1] = f[k] /\ cs[j][2] >= k
                          /\ \A later \in (j + 1)..n : cs[later][2] < k
    BY <1>3
  <2>2. j \in 1..(n + 1) /\ new[j] = cs[j]
    BY <1>1
  <2>3. ASSUME NEW later \in (j + 1)..(n + 1) PROVE new[later][2] < k
    <3>1. later = n + 1 \/ (later \in (j + 1)..n /\ later \in 1..n)
      BY <1>1
    <3>2. CASE later = n + 1
      BY <1>1, <1>2, <3>2
    <3>3. CASE later \in (j + 1)..n /\ later \in 1..n
      BY <1>1, <2>1, <3>3
    <3>4. QED
      BY <3>1, <3>2, <3>3
  <2>4. QED
    BY <2>1, <2>2, <2>3
<1>5. \A j \in 1..(n + 1) : new[j][2] <= Len(f)
  <2>1. \A j \in 1..(n + 1) : j = n + 1 \/ j \in 1..n
    BY <1>1
  <2>2. QED
    BY <1>1, <1>2, <1>3, <2>1
<1>6. QED
  BY <1>1, <1>4, <1>5 DEF LeftBy, new

LEMMA FileStep == ServerInv /\ FileExact /\ [Next]_vars => FileExact'
<1> SUFFICES ASSUME ServerInv, FileExact, [Next]_vars PROVE FileExact'
  OBVIOUS
<1>0. TypeOK /\ PlaceInv /\ ReadInv
  BY DEF ServerInv
<1>a. file \in Seq(Clients) /\ copies \in Seq(Clients \X Nat) /\ got \in Nat
  BY <1>0 DEF TypeOK
<1>1. CASE Listen \/ Accept \/ AcceptFails \/ Reopen
  <2>1. UNCHANGED <<file, copies>> /\ AllCopies' = copies' /\ AllCopies = copies
    BY <1>1 DEF Listen, Accept, AcceptFails, Reopen, disk, AllCopies
  <2>2. QED
    BY <2>1 DEF FileExact
<1>2. CASE OpenFile
  <2>1. /\ UNCHANGED <<file, copies, clisock>> /\ got' = 0 /\ clisock \in Clients
        /\ pc = "open" /\ pc' = "read"
    BY <1>0, <1>2 DEF OpenFile, kernel, transfer, ReadInv, PlaceInv, Serving
  <2>2. LeftBy(file, copies)
    BY <2>1 DEF FileExact, AllCopies
  <2>3. LeftBy(file, Append(copies, <<clisock, 0>>))
    BY <1>a, <2>1, <2>2, NothingYet
  <2>4. AllCopies' = copies \/ AllCopies' = Append(copies, <<clisock, 0>>)
    BY <2>1 DEF AllCopies, Written
  <2>5. QED
    BY <2>1, <2>2, <2>3, <2>4 DEF FileExact
<1>3. CASE ReadSocket
  <2>1. pc = "read" /\ pc' = "write" /\ UNCHANGED <<file, copies, clisock, sd>>
    BY <1>3 DEF ReadSocket, disk
  <2>2. Written' = Written
    BY <1>3, <1>a, <2>1, ReadFacts DEF Written, Reset
  <2>3. QED
    BY <2>1, <2>2 DEF FileExact, AllCopies
<1>4. CASE WriteFile
  <2>1. /\ UNCHANGED <<copies, clisock, sd, got, bytesread>>
        /\ pc = "write" /\ pc' \in {"read", "close"}
    BY <1>4 DEF WriteFile, kernel, transfer
  <2>2. Written' = got
    BY <2>1 DEF Written
  <2>3. CASE sd = "write" /\ bytesread > 0
    <3> DEFINE at == got - bytesread
               new == file'
    <3>1. /\ clisock \in Clients /\ at \in Nat /\ bytesread \in Nat /\ at + bytesread = got
          /\ at <= Len(file) /\ new \in Seq(Clients)
          /\ Len(new) = IF got > Len(file) THEN got ELSE Len(file)
          /\ \A k \in 1..Len(new) : new[k] = IF k \in (at + 1)..got THEN clisock ELSE file[k]
      BY <1>4, <1>a, <2>3, WrittenFile
    <3>2. LeftBy(file, Append(copies, <<clisock, at>>))
      BY <1>4, <2>1, <2>3, WrittenFile DEF FileExact, AllCopies
    <3> HIDE DEF at, new
    <3>3. LeftBy(new, Append(copies, <<clisock, at + bytesread>>))
      BY <1>a, <3>1, <3>2, Overwritten
    <3>4. AllCopies' = Append(copies, <<clisock, got>>)
      BY <2>1, <2>2, <2>3 DEF AllCopies
    <3>5. QED
      BY <3>1, <3>3, <3>4 DEF FileExact, new
  <2>4. CASE ~(sd = "write" /\ bytesread > 0)
    <3>1. file' = file
      BY <1>4, <2>4 DEF WriteFile
    <3>2. AllCopies' = AllCopies
      BY <2>1, <2>2, <2>4 DEF AllCopies, Written
    <3>3. QED
      BY <3>1, <3>2 DEF FileExact
  <2>5. QED
    BY <2>3, <2>4
<1>5. CASE CloseBoth
  <2>1. /\ pc = "close" /\ pc' = "reopen" /\ file' = file
        /\ copies' = IF sd = "write" THEN Append(copies, <<clisock, got>>) ELSE copies
    BY <1>5 DEF CloseBoth
  <2>2. AllCopies' = copies' /\ AllCopies = copies'
    BY <2>1 DEF AllCopies, Written
  <2>3. QED
    BY <2>1, <2>2 DEF FileExact
<1>6. ASSUME NEW c \in Clients, Client(c) PROVE FileExact'
  <2>1. UNCHANGED <<pc, clisock, got, bytesread, sd, file, copies>>
    BY <1>6 DEF Client, Connect, Send, Close, GoAway, server
  <2>2. QED
    BY <2>1 DEF FileExact, AllCopies, Written
<1>7. CASE UNCHANGED vars
  BY <1>7 DEF vars, FileExact, AllCopies, Written
<1>8. QED
  BY <1>1, <1>2, <1>3, <1>4, <1>5, <1>6, <1>7 DEF Next, Server, Over

\* The file is what the copies leave: every byte is from the latest copy that
\* is longer than its position, however the reads cut the copies up.
THEOREM FileStaysExact == Spec => []FileExact
<1>1. Init => FileExact
  BY DEF Init, FileExact, AllCopies, LeftBy
<1>2. QED
  BY <1>1, FileStep, ServerInvariant, PTL DEF Spec
=============================================================================
