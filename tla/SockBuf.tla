------------------------------ MODULE SockBuf ------------------------------
(***************************************************************************)
(* sockstream.C of socket++: stream buffers over sockets.  Copies of a     *)
(* sockbuf share one counted socket (rep), but each has its own put area,  *)
(* get area, flags and timeouts.  A program makes any sequence of calls;   *)
(* the kernel and the peer act between them.                               *)
(*                                                                         *)
(* A sockcnt and the socket it stands for have one name, a rep.  The       *)
(* buffers are line buffered, as the constructors leave them; operator =,  *)
(* which runs the destructor on a live object, is left out.                *)
(***************************************************************************)
EXTENDS Integers, Sequences, FiniteSets

CONSTANTS
  Bufs,        \* names for sockbuf objects
  Streams,     \* those that an iosockstream owns
  Reps,        \* names for sockets
  BUFSIZ,      \* bytes of a put or get area
  MaxIn,       \* bound: bytes a peer sends
  MaxCalls     \* bound: calls made by the program

None == "none"

ASSUME SockAssumption ==
  /\ IsFiniteSet(Bufs) /\ Streams \subseteq Bufs /\ None \notin Reps
  /\ BUFSIZ \in Nat \ {0} /\ MaxIn \in Nat /\ MaxCalls \in Nat

VARIABLES
  live,      \* the sockbufs that exist; a name is used once
  rep,       \* rep[b]: the sockcnt of b, None if the name is unused
  cnt,       \* cnt[r]: its count
  open,      \* the reps whose sock is a descriptor and not -1
  flags,     \* flags[b]: xflags of b
  rtmo,      \* the buffers with a receive timeout
  alloc,     \* the buffers whose areas doallocate has made
  put,       \* put[b]: pbase to pptr
  area,      \* area[b]: gptr to egptr
  kstate,    \* kstate[r]: the kernel's socket
  wire,      \* wire[r]: what the peer gets
  inq,       \* inq[r]: what has arrived and not been read
  sent,      \* sent[r]: the bytes the peer has sent
  fin,       \* the sockets on which nothing more will arrive
  acc,       \* history: acc[b], the bytes that calls on b accepted
  got,       \* history: got[b], the bytes that calls on b returned
  failed,    \* history: the buffers one of whose output calls returned EOF
  readErr,   \* history: the buffers one of whose reads returned -1
  shared,    \* history: the reps that have had two buffers
  shut,      \* history: the reps closed by close(), or left open on request
  garbled,   \* history: the buffers one of whose writes went out in parts
  calls      \* the number of calls made

out == <<put, wire, acc, failed, garbled>>
in == <<area, inq, sent, fin, got, readErr>>
life == <<live, rep, cnt, open, kstate, shared, shut>>
skvars == <<calls, live, rep, cnt, open, kstate, shared, shut, flags, rtmo, alloc, put, wire, acc,
            failed, garbled, area, inq, sent, fin, got, readErr>>

Writable(b) == rep[b] \in open /\ kstate[rep[b]] = "connected"
Readable(b) == rep[b] \in open /\ kstate[rep[b]] \in {"connected", "noWrites"}

SockInit ==
  /\ live = {} /\ rep = [b \in Bufs |-> None] /\ cnt = [r \in Reps |-> 0] /\ open = {}
  /\ flags = [b \in Bufs |-> {}] /\ rtmo = {} /\ alloc = {}
  /\ put = [b \in Bufs |-> <<>>] /\ area = [b \in Bufs |-> <<>>]
  /\ kstate = [r \in Reps |-> None]
  /\ wire = [r \in Reps |-> <<>>] /\ inq = [r \in Reps |-> <<>>] /\ fin = {}
  /\ sent = [r \in Reps |-> 0]
  /\ acc = [b \in Bufs |-> <<>>] /\ got = [b \in Bufs |-> <<>>]
  /\ failed = {} /\ readErr = {} /\ shared = {} /\ shut = {}
  /\ garbled = {} /\ calls = 0

Counted == calls < MaxCalls /\ calls' = calls + 1

----------------------------------------------------------------------------
(* Output.  io is a put area, whether it has been allocated, what has been *)
(* sent, and whether the last call was all right (did not return EOF).     *)

\* sys_write.  The kernel may take a part; the loop then counts down, but starts
\* again from the first byte.  An error ends it; a timeout sends nothing.
Write(b, data) ==
  LET written[n \in 0..Len(data)] ==
        IF n = 0 THEN {[sent |-> <<>>, ok |-> TRUE]}
        ELSE {[sent |-> <<>>, ok |-> FALSE]} \cup
             UNION {{[w EXCEPT !.sent = SubSeq(data, 1, k) \o @] : w \in written[n - k]} :
                    k \in 1..n}
  IN  IF Writable(b) THEN written[Len(data)] ELSE {[sent |-> <<>>, ok |-> FALSE]}

\* The put area is empty afterwards, even if the write has failed.
flush_output(b, io) ==
  IF io.put = <<>> THEN {[io EXCEPT !.ok = TRUE]}
  ELSE IF "NO_WRITES" \in flags[b] THEN {[io EXCEPT !.ok = FALSE]}
  ELSE {[io EXCEPT !.put = <<>>, !.sent = @ \o w.sent, !.ok = w.ok,
                   !.whole = @ /\ w.sent = io.put] : w \in Write(b, io.put)}

\* Mutant: a newline is not flushed.
overflow_fully(b, io, c) ==
  IF "NO_WRITES" \in flags[b] THEN {[io EXCEPT !.ok = FALSE]}
  ELSE UNION {IF x.ok THEN {[x EXCEPT !.put = Append(@, c), !.made = TRUE]} ELSE {x} :
              x \in IF Len(io.put) >= BUFSIZ THEN flush_output(b, io) ELSE {io}}

\* Make room, insert c, and flush after a newline or if there is no room left.
overflow(b, io, c) ==
  IF "NO_WRITES" \in flags[b] THEN {[io EXCEPT !.ok = FALSE]}
  ELSE LET insert(x) == [x EXCEPT !.put = Append(@, c), !.made = TRUE]
           flushed(x) == IF c.nl \/ Len(x.put) >= BUFSIZ THEN flush_output(b, x) ELSE {x}
       IN  UNION {IF x.ok THEN flushed(insert(x)) ELSE {x} :
                  x \in IF Len(io.put) >= BUFSIZ THEN flush_output(b, io) ELSE {io}}

\* streambuf's inline sputc: overflow only when there is no room.
sputc(b, io, c) ==
  IF io.made /\ Len(io.put) < BUFSIZ
  THEN {[io EXCEPT !.put = Append(@, c), !.ok = TRUE]}
  ELSE overflow(b, io, c)

\* xsputn: a newline goes through overflow, so that it is flushed.
xsputn(b, io, s) ==
  LET after[i \in 0..Len(s)] ==
        IF i = 0 THEN {io}
        ELSE UNION {IF ~x.ok THEN {x}
                    ELSE IF s[i].nl THEN overflow(b, x, s[i]) ELSE sputc(b, x, s[i]) :
                    x \in after[i - 1]}
  IN  after[Len(s)]

Start(b) == [put |-> put[b], made |-> b \in alloc, sent |-> <<>>, ok |-> TRUE, whole |-> TRUE]

Outcome(b, x) ==
  /\ failed' = IF x.ok THEN failed ELSE failed \cup {b}
  /\ garbled' = IF x.whole THEN garbled ELSE garbled \cup {b}

\* The outcome x of an output call that was given the bytes s.
Emit(b, x, s) ==
  /\ put' = [put EXCEPT ![b] = x.put]
  /\ alloc' = IF x.made THEN alloc \cup {b} ELSE alloc
  /\ wire' = [wire EXCEPT ![rep[b]] = @ \o x.sent]
  /\ acc' = IF x.ok THEN [acc EXCEPT ![b] = @ \o s] ELSE acc
  /\ Outcome(b, x)

Byte(b, k, nl, bulk) == [by |-> b, no |-> Len(acc[b]) + k, nl |-> nl, bulk |-> bulk]

Sputc(b, nl) ==
  /\ Counted /\ b \in live
  /\ LET c == Byte(b, 1, nl, FALSE)
     IN  \E x \in sputc(b, Start(b), c) : Emit(b, x, <<c>>)
  /\ UNCHANGED <<in, life, flags, rtmo>>

\* A word and a newline.
Xsputn(b) ==
  /\ Counted /\ b \in live
  /\ LET s == <<Byte(b, 1, FALSE, TRUE), Byte(b, 2, TRUE, TRUE)>>
     IN  \E x \in xsputn(b, Start(b), s) : Emit(b, x, s)
  /\ UNCHANGED <<in, life, flags, rtmo>>

sync(b) ==
  /\ Counted /\ b \in live /\ put[b] # <<>>
  /\ \E x \in flush_output(b, Start(b)) : Emit(b, x, <<>>)
  /\ UNCHANGED <<in, life, flags, rtmo>>

----------------------------------------------------------------------------
(* Input *)

AtEnd(b) == Readable(b) /\ inq[rep[b]] = <<>> /\ rep[b] \in fin
\* The call of select that waits fails on a closed socket, like a timeout.
TimedOut(b) == b \in rtmo /\ (rep[b] \notin open \/ (Readable(b) /\ inq[rep[b]] = <<>>))

\* Mutant: bytes that are fetched stay in the kernel.
Fetch_peek(b) ==
  LET q == inq[rep[b]]
  IN  /\ Readable(b)
      /\ \E k \in 1..Len(q) :
           /\ k <= BUFSIZ
           /\ got' = [got EXCEPT ![b] = Append(@, q[1])]
           /\ area' = [area EXCEPT ![b] = SubSeq(q, 2, k)]
           /\ inq' = [inq EXCEPT ![rep[b]] = Tail(q)]

\* What has arrived, as much of it as the get area holds; the first byte is
\* returned.
Fetch(b) ==
  LET q == inq[rep[b]]
  IN  /\ Readable(b)
      /\ \E k \in 1..Len(q) :
           /\ k <= BUFSIZ
           /\ got' = [got EXCEPT ![b] = Append(@, q[1])]
           /\ area' = [area EXCEPT ![b] = SubSeq(q, 2, k)]
           /\ inq' = [inq EXCEPT ![rep[b]] = SubSeq(q, k + 1, Len(q))]

\* Mutant: a timeout sets the flag too.
underflow_timeout(b) ==
  \/ /\ ~Readable(b) \/ AtEnd(b) \/ TimedOut(b)
     /\ flags' = [flags EXCEPT ![b] = @ \cup {"EOF_SEEN"}]
     /\ readErr' = IF Readable(b) THEN readErr ELSE readErr \cup {b}
     /\ UNCHANGED <<area, got, inq>>
  \/ Fetch(b) /\ UNCHANGED <<flags, readErr>>

\* An error and the end of the stream set the flag; a timeout returns EOF
\* without it; without a timeout the call waits.
underflow(b) ==
  \/ /\ ~Readable(b) \/ AtEnd(b)
     /\ flags' = [flags EXCEPT ![b] = @ \cup {"EOF_SEEN"}]
     /\ readErr' = IF Readable(b) THEN readErr ELSE readErr \cup {b}
     /\ UNCHANGED <<area, got, inq>>
  \/ TimedOut(b) /\ ~AtEnd(b) /\ UNCHANGED <<flags, readErr, area, got, inq>>
  \/ Fetch(b) /\ UNCHANGED <<flags, readErr>>

\* sbumpc: the next byte of the get area, or of what underflow fetches.
Sbumpc(b) ==
  /\ Counted /\ b \in live
  /\ IF area[b] # <<>>
     THEN /\ got' = [got EXCEPT ![b] = Append(@, Head(area[b]))]
          /\ area' = [area EXCEPT ![b] = Tail(@)]
          /\ UNCHANGED <<flags, inq, readErr, alloc>>
     ELSE /\ "NO_READS" \notin flags[b]
          /\ alloc' = alloc \cup {b}
          /\ underflow(b)
  /\ UNCHANGED <<out, life, sent, fin, rtmo>>

recvtimeout(b) ==
  /\ Counted /\ b \in live
  /\ rtmo' = IF b \in rtmo THEN rtmo \ {b} ELSE rtmo \cup {b}
  /\ UNCHANGED <<out, in, life, flags, alloc>>

----------------------------------------------------------------------------
(* Construction, copies, and the end *)

Unused(b) == rep[b] = None
FreeReps == {r \in Reps : kstate[r] = None}

\* A sockbuf with a socket of its own, in state st; sock is -1 if it is dead.
Own(b, st) ==
  /\ Counted /\ Unused(b) /\ b \notin Streams /\ FreeReps # {}
  /\ LET r == CHOOSE r \in FreeReps : TRUE
     IN  /\ rep' = [rep EXCEPT ![b] = r]
         /\ cnt' = [cnt EXCEPT ![r] = 1]
         /\ kstate' = [kstate EXCEPT ![r] = st]
         /\ open' = IF st = "dead" THEN open ELSE open \cup {r}
         /\ shut' = IF st = "dead" THEN shut \cup {r} ELSE shut
  /\ live' = live \cup {b}
  /\ UNCHANGED <<out, in, shared, flags, rtmo, alloc>>

\* sockbuf(domain, type, protocol): socket() may fail.
Construct(b) == \E st \in {"fresh", "dead"} : Own(b, st)

\* accept: an interrupted call is repeated, one that fails gives a sockbuf on -1.
accept(b, from) ==
  /\ from \in live /\ rep[from] \in open /\ kstate[rep[from]] = "listening"
  /\ \E st \in {"connected", "dead"} : Own(b, st)

\* connect, or bind and listen; a call that fails changes nothing.
Establish(b, st) ==
  /\ Counted /\ b \in live /\ rep[b] \in open /\ kstate[rep[b]] = "fresh"
  /\ kstate' = [kstate EXCEPT ![rep[b]] = st]
  /\ UNCHANGED <<out, in, live, rep, cnt, open, shared, shut, flags, rtmo, alloc>>

\* Mutant: the copy is not counted.
Copy_uncounted(b, from) ==
  /\ Counted /\ Unused(b) /\ from \in live
  /\ live' = live \cup {b}
  /\ rep' = [rep EXCEPT ![b] = rep[from]]
  /\ shared' = shared \cup {rep[from]}
  /\ rtmo' = IF from \in rtmo THEN rtmo \cup {b} ELSE rtmo
  /\ UNCHANGED <<out, in, cnt, open, kstate, shut, flags, alloc>>

\* sockbuf(const sockbuf&): the socket and the timeouts; areas of its own.
Copy(b, from) ==
  /\ Counted /\ Unused(b) /\ from \in live
  /\ live' = live \cup {b}
  /\ rep' = [rep EXCEPT ![b] = rep[from]]
  /\ cnt' = [cnt EXCEPT ![rep[from]] = @ + 1]
  /\ shared' = shared \cup {rep[from]}
  /\ rtmo' = IF from \in rtmo THEN rtmo \cup {b} ELSE rtmo
  /\ UNCHANGED <<out, in, open, kstate, shut, flags, alloc>>

\* iosockstream(sb) keeps a copy of sb for itself.
iosockstream(b, from) == b \in Streams /\ Copy(b, from)

\* A program sets the flag _S_DELETE_DONT_CLOSE.
xsetflags(b) ==
  /\ Counted /\ b \in live /\ flags' = [flags EXCEPT ![b] = @ \cup {"DELETE_DONT_CLOSE"}]
  /\ UNCHANGED <<out, in, life, rtmo, alloc>>

close(b) ==
  /\ Counted /\ b \in live /\ rep[b] \in open
  /\ open' = open \ {rep[b]}
  /\ kstate' = [kstate EXCEPT ![rep[b]] = "dead"]
  /\ shut' = shut \cup {rep[b]}
  /\ UNCHANGED <<out, in, live, rep, cnt, shared, flags, rtmo, alloc>>

\* The flags stop this buffer, the kernel stops every buffer on the socket.
shutdown(b, how) ==
  /\ Counted /\ b \in live
  /\ flags' = [flags EXCEPT ![b] = @ \cup how]
  /\ IF Readable(b)
     THEN /\ fin' = IF "NO_READS" \in how THEN fin \cup {rep[b]} ELSE fin
          /\ kstate' = IF "NO_WRITES" \in how THEN [kstate EXCEPT ![rep[b]] = "noWrites"]
                                               ELSE kstate
     ELSE UNCHANGED <<fin, kstate>>
  /\ UNCHANGED <<out, area, inq, sent, got, readErr, live, rep, cnt, open, shared, shut,
                 rtmo, alloc>>

\* What ~sockbuf does after the flush: close if this is the last one on the
\* socket, free the areas, and the sockcnt with the last one.
Release(b) ==
  LET r == rep[b]
      closes == cnt[r] = 1 /\ "DELETE_DONT_CLOSE" \notin flags[b]
  IN  /\ open' = IF closes THEN open \ {r} ELSE open
      /\ kstate' = IF closes THEN [kstate EXCEPT ![r] = "dead"] ELSE kstate
      /\ shut' = IF cnt[r] = 1 /\ ~closes THEN shut \cup {r} ELSE shut
      /\ cnt' = [cnt EXCEPT ![r] = @ - 1]
      /\ live' = live \ {b}
      /\ put' = [put EXCEPT ![b] = <<>>] /\ area' = [area EXCEPT ![b] = <<>>]

\* Mutant: the output is not flushed.
Destroy_unflushed(b) ==
  /\ Counted /\ b \in live
  /\ Release(b)
  /\ UNCHANGED <<wire, failed, garbled, acc, inq, sent, fin, got, readErr, rep, shared,
                 flags, rtmo, alloc>>

\* ~sockbuf: overflow(EOF), and the rest.
Destroy(b) ==
  /\ Counted /\ b \in live
  /\ \E x \in flush_output(b, Start(b)) :
       /\ wire' = [wire EXCEPT ![rep[b]] = @ \o x.sent]
       /\ Outcome(b, x)
  /\ Release(b)
  /\ UNCHANGED <<acc, inq, sent, fin, got, readErr, rep, shared, flags, rtmo, alloc>>

----------------------------------------------------------------------------
(* The peer of a connected socket (external), and the system *)

PeerSends(r) ==
  /\ kstate[r] \in {"connected", "noWrites"} /\ r \notin fin /\ sent[r] < MaxIn
  /\ sent' = [sent EXCEPT ![r] = @ + 1]
  /\ inq' = [inq EXCEPT ![r] = Append(@, sent'[r])]
  /\ UNCHANGED <<calls, out, life, flags, rtmo, alloc, area, fin, got, readErr>>

PeerCloses(r) ==
  /\ kstate[r] \in {"connected", "noWrites"} /\ r \notin fin
  /\ fin' = fin \cup {r}
  /\ UNCHANGED <<calls, out, life, flags, rtmo, alloc, area, inq, sent, got, readErr>>

Call(b) ==
  \/ (\E nl \in BOOLEAN : Sputc(b, nl)) \/ Xsputn(b) \/ sync(b)
  \/ Sbumpc(b) \/ recvtimeout(b)
  \/ Construct(b) \/ (\E from \in Bufs : accept(b, from))
  \/ (\E st \in {"connected", "listening"} : Establish(b, st))
  \/ (\E from \in Bufs : (b \notin Streams /\ Copy(b, from)) \/ iosockstream(b, from))
  \/ xsetflags(b) \/ close(b) \/ Destroy(b)
  \/ \E how \in SUBSET {"NO_READS", "NO_WRITES"} \ {{}} : shutdown(b, how)

SockNext == (\E b \in Bufs : Call(b)) \/ \E r \in Reps : PeerSends(r) \/ PeerCloses(r)

SockSpec == SockInit /\ [][SockNext]_skvars

----------------------------------------------------------------------------
(* Properties *)

\* The bytes of s that came through b.
BytesOf(b, s) ==
  LET among[i \in 0..Len(s)] ==
        IF i = 0 THEN <<>>
        ELSE IF s[i].by = b THEN Append(among[i - 1], s[i]) ELSE among[i - 1]
  IN  among[Len(s)]

\* Until an output call on b returns EOF, or a write goes out in parts, every byte
\* that b was given is on the wire or in the put area, once and in order, however
\* many copies share the socket; and on the wire when b has been destroyed.
NothingLost ==
  \A b \in Bufs \ (failed \cup garbled) : rep[b] # None =>
    BytesOf(b, wire[rep[b]]) \o put[b] = acc[b]

\* A newline that came through xsputn never stays behind in the put area.
LinesGoOut ==
  \A b \in Bufs : \A i \in DOMAIN put[b] : ~(put[b][i].nl /\ put[b][i].bulk)

\* A socket is open as long as a sockbuf refers to it, and not longer, unless
\* the program has closed it or asked for it to be left open.
SocketsLive ==
  \A r \in Reps :
    /\ cnt[r] = Cardinality({b \in live : rep[b] = r})
    /\ kstate[r] # None /\ r \notin shut =>
         (kstate[r] # "dead" <=> \E b \in live : rep[b] = r)

\* Every byte of the peer is handed out once, and in order; all of them to a
\* buffer that has the socket for itself.
ReadOnce ==
  LET mine(b) == got[b] \o area[b]
      rising(s) == \A i, j \in DOMAIN s : i < j => s[i] < s[j]
  IN  \A b \in live :
        /\ rising(mine(b) \o inq[rep[b]])
        /\ \A d \in live \ {b} : rep[d] = rep[b] =>
             \A i \in DOMAIN mine(b), j \in DOMAIN mine(d) : mine(b)[i] # mine(d)[j]
        /\ rep[b] \notin shared => mine(b) \o inq[rep[b]] = [i \in 1..sent[rep[b]] |-> i]

\* The flag that is_eof reads means that no byte is left to be read and none will
\* come, or that a read has failed: a timeout does not set it.
EofTruthful ==
  \A b \in live : "EOF_SEEN" \in flags[b] /\ b \notin readErr =>
    area[b] = <<>> /\ inq[rep[b]] = <<>> /\ rep[b] \in fin
=============================================================================
