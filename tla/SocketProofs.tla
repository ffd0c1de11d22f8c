---------------------------- MODULE SocketProofs ----------------------------
(***************************************************************************)
(* Proofs about socket++.  sockbuf, for any number of sockbufs and         *)
(* sockets, sizes of the areas and sequence of calls: a socket lives       *)
(* exactly as long as its last sockbuf, is_eof tells the truth, every byte *)
(* of the peer is handed out once, and nothing that is accepted gets       *)
(* lost.  The smtp client, for messages of any length: they arrive as they *)
(* were, and commands and replies keep in step.  The ftp client, for files *)
(* of any size: when a call returns, every reply has been read and no data *)
(* connection is left, and a file that is said to be moved is.             *)
(***************************************************************************)
EXTENDS SockBuf, Smtp, Ftp, FiniteSetTheorems, SequenceTheorems, TLAPS

\* The sockbufs on r.
On(r) == {b \in live : rep[b] = r}

\* The variables that the life of a socket depends on keep their types, and a
\* sockbuf, even one that has been destroyed, has a socket that has been made.
LifeType ==
  /\ live \subseteq Bufs
  /\ rep \in [Bufs -> Reps \cup {None}]
  /\ cnt \in [Reps -> Int]
  /\ DOMAIN kstate = Reps
  /\ \A b \in live : rep[b] # None
  /\ \A b \in Bufs : rep[b] # None => kstate[rep[b]] # None

Counts == \A r \in Reps : cnt[r] = Cardinality(On(r))

LivesByUse ==
  \A r \in Reps : kstate[r] # None /\ r \notin shut =>
    (kstate[r] # "dead" <=> \E b \in live : rep[b] = r)

LifeInv == LifeType /\ Counts /\ LivesByUse

----------------------------------------------------------------------------

\* Before the first call no socket is open.
LEMMA InitLife == SockInit => LifeInv
<1> SUFFICES ASSUME SockInit PROVE LifeInv
  OBVIOUS
<1>1. LifeType
  BY SockAssumption DEF SockInit, LifeType
<1>2. Counts
  <2> SUFFICES ASSUME NEW r \in Reps PROVE cnt[r] = Cardinality(On(r))
    BY DEF Counts
  <2>1. On(r) = {} /\ cnt[r] = 0
    BY DEF SockInit, On
  <2> QED
    BY <2>1, FS_EmptySet
<1>3. LivesByUse
  BY DEF SockInit, LivesByUse
<1> QED
  BY <1>1, <1>2, <1>3 DEF LifeInv

\* The sockbufs on a socket are finitely many.
LEMMA OnFinite == ASSUME LifeType, NEW r PROVE IsFiniteSet(On(r))
<1>1. On(r) \in SUBSET Bufs
  BY DEF On, LifeType
<1> QED
  BY <1>1, FS_Subset, SockAssumption

\* A new sockbuf on r adds one to the count of r, and to no other.
LEMMA NewSockbuf ==
  ASSUME LifeType, Counts, NEW b \in Bufs, rep[b] = None, NEW r \in Reps,
         live' = live \cup {b}, rep' = [rep EXCEPT ![b] = r], cnt' = [cnt EXCEPT ![r] = @ + 1]
  PROVE  Counts'
<1> SUFFICES ASSUME NEW q \in Reps PROVE cnt'[q] = Cardinality(On(q)')
  BY DEF Counts
<1>0. b \notin live
  BY DEF LifeType
<1>1. IsFiniteSet(On(q)) /\ cnt[q] = Cardinality(On(q)) /\ b \notin On(q)
  BY <1>0, OnFinite DEF Counts, On
<1>2. CASE q = r
  <2>1. On(q)' = On(q) \cup {b}
    BY <1>0, <1>2 DEF On, LifeType
  <2>2. Cardinality(On(q) \cup {b}) = Cardinality(On(q)) + 1
    BY <1>1, FS_AddElement
  <2> QED
    BY <1>1, <1>2, <2>1, <2>2 DEF LifeType
<1>3. CASE q # r
  <2>1. On(q)' = On(q)
    BY <1>0, <1>3 DEF On, LifeType
  <2> QED
    BY <1>1, <1>3, <2>1 DEF LifeType
<1> QED
  BY <1>2, <1>3

----------------------------------------------------------------------------

\* A new sockbuf with a socket of its own counts itself.
LEMMA OwnLife ==
  ASSUME LifeInv, NEW b \in Bufs, NEW st \in {"fresh", "connected", "dead"}, Own(b, st)
  PROVE  LifeInv'
<1> DEFINE r == CHOOSE q \in FreeReps : TRUE
<1>1. r \in Reps /\ kstate[r] = None /\ rep[b] = None
  BY DEF Own, FreeReps, Unused
<1> HIDE DEF r
<1>2. /\ live' = live \cup {b} /\ rep' = [rep EXCEPT ![b] = r]
      /\ cnt' = [cnt EXCEPT ![r] = 1] /\ kstate' = [kstate EXCEPT ![r] = st]
      /\ shut' = IF st = "dead" THEN shut \cup {r} ELSE shut
  BY DEF Own, r
<1>3. \A d \in Bufs : rep[d] # r
  BY <1>1, SockAssumption DEF LifeInv, LifeType
<1>4. cnt[r] = 0
  <2>1. On(r) = {}
    BY <1>3 DEF On, LifeInv, LifeType
  <2> QED
    BY <1>1, <2>1, FS_EmptySet DEF LifeInv, Counts
<1>5. LifeType'
  BY <1>1, <1>2, <1>3, SockAssumption DEF LifeInv, LifeType, None
<1>6. Counts'
  <2>1. cnt' = [cnt EXCEPT ![r] = @ + 1]
    BY <1>1, <1>2, <1>4 DEF LifeInv, LifeType
  <2> QED
    BY <1>1, <1>2, <2>1, NewSockbuf DEF LifeInv
<1>7. LivesByUse'
  <2> SUFFICES ASSUME NEW q \in Reps, (kstate[q] # None)', (q \notin shut)'
               PROVE  (kstate[q] # "dead" <=> \E d \in live : rep[d] = q)'
    BY DEF LivesByUse
  <2>1. CASE q = r
    BY <1>1, <1>2, <2>1 DEF LifeInv, LifeType
  <2>2. CASE q # r
    <3>1. kstate'[q] = kstate[q] /\ q \notin shut
      BY <1>2, <2>2 DEF LifeInv, LifeType
    <3>2. (\E d \in live : rep[d] = q)' <=> \E d \in live : rep[d] = q
      BY <1>1, <1>2, <2>2 DEF LifeInv, LifeType
    <3> QED
      BY <3>1, <3>2 DEF LifeInv, LivesByUse
  <2> QED
    BY <2>1, <2>2
<1> QED
  BY <1>5, <1>6, <1>7 DEF LifeInv

\* A copied sockbuf counts on the count of the other.
LEMMA CopyLife ==
  ASSUME LifeInv, NEW b \in Bufs, NEW from \in Bufs, Copy(b, from)
  PROVE  LifeInv'
<1>1. /\ rep[b] = None /\ from \in live /\ rep[from] \in Reps
      /\ live' = live \cup {b} /\ rep' = [rep EXCEPT ![b] = rep[from]]
      /\ cnt' = [cnt EXCEPT ![rep[from]] = @ + 1]
      /\ kstate' = kstate /\ shut' = shut
  BY DEF Copy, Unused, LifeInv, LifeType
<1>2. LifeType'
  BY <1>1 DEF LifeInv, LifeType
<1>3. Counts'
  BY <1>1, NewSockbuf DEF LifeInv
<1>4. LivesByUse'
  BY <1>1 DEF LifeInv, LifeType, LivesByUse
<1> QED
  BY <1>2, <1>3, <1>4 DEF LifeInv

\* A step that makes and destroys no sockbuf, and kills at most a socket that the
\* program closes.
LEMMA SameLife ==
  ASSUME LifeInv, UNCHANGED <<live, rep, cnt>>, shut \subseteq shut', DOMAIN kstate' = Reps,
         \A r \in Reps : kstate'[r] = kstate[r] \/
           (kstate[r] # None /\ kstate'[r] # None /\
            (r \in shut' \/ (kstate[r] # "dead" /\ kstate'[r] # "dead")))
  PROVE  LifeInv'
<1>1. LifeType'
  BY DEF LifeInv, LifeType
<1>2. Counts'
  BY DEF LifeInv, Counts, On
<1>3. LivesByUse'
  BY DEF LifeInv, LivesByUse
<1> QED
  BY <1>1, <1>2, <1>3 DEF LifeInv

\* close(b) closes a socket that the program wanted closed.
LEMMA CloseLife == ASSUME LifeInv, NEW b \in Bufs, close(b) PROVE LifeInv'
<1>1. b \in live /\ rep[b] \in Reps /\ kstate[rep[b]] # None
  BY DEF close, LifeInv, LifeType
<1>2. /\ kstate' = [kstate EXCEPT ![rep[b]] = "dead"] /\ shut' = shut \cup {rep[b]}
      /\ UNCHANGED <<live, rep, cnt>>
  BY DEF close
<1>3. \A r \in Reps : kstate'[r] = IF r = rep[b] THEN "dead" ELSE kstate[r]
  BY <1>2 DEF LifeInv, LifeType
<1> QED
  BY <1>1, <1>2, <1>3, SameLife DEF LifeInv, LifeType, None

\* A socket that becomes connected or listens stays open.
LEMMA EstablishLife ==
  ASSUME LifeInv, NEW b \in Bufs, NEW st \in {"connected", "listening"}, Establish(b, st)
  PROVE  LifeInv'
<1>1. kstate[rep[b]] = "fresh" /\ kstate' = [kstate EXCEPT ![rep[b]] = st]
      /\ UNCHANGED <<live, rep, cnt, shut>>
  BY DEF Establish
<1>2. \A r \in Reps : kstate'[r] = IF r = rep[b] THEN st ELSE kstate[r]
  BY <1>1 DEF LifeInv, LifeType
<1> QED
  BY <1>1, <1>2, SameLife DEF LifeInv, LifeType, None

\* shutdown leaves the socket open.
LEMMA ShutdownLife ==
  ASSUME LifeInv, NEW b \in Bufs, NEW how, shutdown(b, how)
  PROVE  LifeInv'
<1>1. UNCHANGED <<live, rep, cnt, shut>>
  BY DEF shutdown
<1>2. CASE UNCHANGED kstate
  BY <1>1, <1>2, SameLife DEF LifeInv, LifeType
<1>3. CASE kstate' # kstate
  <2>1. kstate' = [kstate EXCEPT ![rep[b]] = "noWrites"]
        /\ kstate[rep[b]] \in {"connected", "noWrites"}
    BY <1>3 DEF shutdown, Readable
  <2>2. \A r \in Reps : kstate'[r] = IF r = rep[b] THEN "noWrites" ELSE kstate[r]
    BY <2>1 DEF LifeInv, LifeType
  <2> QED
    BY <1>1, <2>1, <2>2, SameLife DEF LifeInv, LifeType, None
<1> QED
  BY <1>2, <1>3

----------------------------------------------------------------------------

\* ~sockbuf closes the socket if it is the last on it, and no sooner.
LEMMA ReleaseLife ==
  ASSUME LifeInv, NEW b \in live, Release(b), rep' = rep
  PROVE  LifeInv'
<1> DEFINE r == rep[b]
<1>1. b \in Bufs /\ r \in Reps /\ kstate[r] # None
  BY DEF LifeInv, LifeType
<1>2. /\ live' = live \ {b} /\ cnt' = [cnt EXCEPT ![r] = @ - 1]
      /\ \/ cnt[r] = 1 /\ kstate' = [kstate EXCEPT ![r] = "dead"] /\ shut' = shut
         \/ cnt[r] = 1 /\ kstate' = kstate /\ shut' = shut \cup {r}
         \/ cnt[r] # 1 /\ kstate' = kstate /\ shut' = shut
  BY DEF Release
<1>3. LifeType'
  BY <1>1, <1>2 DEF LifeInv, LifeType, None
<1>4. ASSUME NEW q \in Reps
      PROVE  On(q)' = IF q = r THEN On(r) \ {b} ELSE On(q)
  BY <1>2 DEF On
<1>5. IsFiniteSet(On(r)) /\ b \in On(r) /\ cnt[r] = Cardinality(On(r))
  BY <1>1, OnFinite DEF LifeInv, Counts, On
<1>6. Counts'
  <2> SUFFICES ASSUME NEW q \in Reps PROVE cnt'[q] = Cardinality(On(q)')
    BY DEF Counts
  <2>1. CASE q = r
    <3>1. Cardinality(On(r) \ {b}) = Cardinality(On(r)) - 1
      BY <1>5, FS_RemoveElement
    <3> QED
      BY <1>2, <1>4, <1>5, <2>1, <3>1 DEF LifeInv, LifeType
  <2>2. CASE q # r
    BY <1>2, <1>4, <2>2 DEF LifeInv, LifeType, Counts
  <2> QED
    BY <2>1, <2>2
<1>7. cnt[r] = 1 => \A d \in live' : rep[d] # r
  <2> SUFFICES ASSUME cnt[r] = 1, NEW d \in live', rep[d] = r PROVE FALSE
    OBVIOUS
  <2>1. d \in On(r) /\ d # b
    BY <1>2 DEF On
  <2>2. PICK x : On(r) = {x}
    BY <1>5, FS_Singleton
  <2> QED
    BY <1>5, <2>1, <2>2
<1>8. cnt[r] # 1 => \E d \in live' : rep[d] = r
  <2> SUFFICES ASSUME cnt[r] # 1, \A d \in live' : rep[d] # r PROVE FALSE
    OBVIOUS
  <2>1. On(r) = {b}
    BY <1>2, <1>5 DEF On
  <2> QED
    BY <1>5, <2>1, FS_Singleton
<1>9. LivesByUse'
  <2> SUFFICES ASSUME NEW q \in Reps, (kstate[q] # None)', (q \notin shut)'
               PROVE  (kstate[q] # "dead" <=> \E d \in live : rep[d] = q)'
    BY DEF LivesByUse
  <2>1. CASE q = r /\ cnt[r] = 1
    BY <1>1, <1>2, <1>7, <2>1 DEF LifeInv, LifeType
  <2>2. CASE q = r /\ cnt[r] # 1
    BY <1>1, <1>2, <1>8, <2>2 DEF LifeInv, LivesByUse
  <2>3. CASE q # r
    <3>1. kstate'[q] = kstate[q] /\ q \notin shut
      BY <1>2, <2>3 DEF LifeInv, LifeType
    <3>2. (\E d \in live : rep[d] = q)' <=> \E d \in live : rep[d] = q
      BY <1>2, <2>3
    <3> QED
      BY <3>1, <3>2 DEF LifeInv, LivesByUse
  <2> QED
    BY <2>1, <2>2, <2>3
<1> QED
  BY <1>3, <1>6, <1>9 DEF LifeInv

----------------------------------------------------------------------------

\* Every call keeps the count of a socket at the number of its sockbufs.
LEMMA NextLife == LifeInv /\ [SockNext]_skvars => LifeInv'
<1> SUFFICES ASSUME LifeInv, [SockNext]_skvars PROVE LifeInv'
  OBVIOUS
<1>1. CASE UNCHANGED life
  BY <1>1, SameLife DEF life, LifeInv, LifeType
<1>2. ASSUME NEW b \in Bufs, Call(b) PROVE LifeInv'
  <2>1. CASE (\E nl \in BOOLEAN : Sputc(b, nl)) \/ Xsputn(b) \/ sync(b) \/ Sbumpc(b)
    BY <1>1, <2>1 DEF Sputc, Xsputn, sync, Sbumpc
  <2>2. CASE recvtimeout(b) \/ xsetflags(b)
    BY <1>1, <2>2 DEF recvtimeout, xsetflags
  <2>3. CASE Construct(b)
    BY <2>3, OwnLife DEF Construct
  <2>4. CASE \E from \in Bufs : accept(b, from)
    BY <2>4, OwnLife DEF accept
  <2>5. CASE \E st \in {"connected", "listening"} : Establish(b, st)
    BY <2>5, EstablishLife
  <2>6. CASE \E from \in Bufs : (b \notin Streams /\ Copy(b, from)) \/ iosockstream(b, from)
    BY <2>6, CopyLife DEF iosockstream
  <2>7. CASE close(b)
    BY <2>7, CloseLife
  <2>8. CASE Destroy(b)
    BY <2>8, ReleaseLife DEF Destroy
  <2>9. CASE \E how \in SUBSET {"NO_READS", "NO_WRITES"} \ {{}} : shutdown(b, how)
    BY <2>9, ShutdownLife
  <2> QED
    BY <1>2, <2>1, <2>2, <2>3, <2>4, <2>5, <2>6, <2>7, <2>8, <2>9 DEF Call
<1>3. ASSUME NEW r \in Reps, PeerSends(r) \/ PeerCloses(r) PROVE LifeInv'
  BY <1>1, <1>3 DEF PeerSends, PeerCloses
<1>4. CASE UNCHANGED skvars
  BY <1>1, <1>4 DEF skvars, life
<1> QED
  BY <1>2, <1>3, <1>4 DEF SockNext

\* A socket is open as long as a sockbuf refers to it, and not longer, unless the
\* program has closed it or asked for it to be left open (sockbuf::~sockbuf and
\* the copy constructor).
THEOREM SocketsLiveByUse == SockSpec => []SocketsLive
<1>1. LifeInv => SocketsLive
  BY DEF LifeInv, Counts, On, LivesByUse, SocketsLive
<1> QED
  BY <1>1, InitLife, NextLife, PTL DEF SockSpec

----------------------------------------------------------------------------
(* The flag that is_eof reads *)

Flagged(b) == "EOF_SEEN" \in flags[b]
SeenEnd(b) == area[b] = <<>> /\ inq[rep[b]] = <<>> /\ rep[b] \in fin

\* A name that is not in use has no flags, so a new sockbuf begins without.
EofInv ==
  /\ DOMAIN flags = Bufs /\ DOMAIN area = Bufs /\ DOMAIN inq = Reps
  /\ \A b \in Bufs : rep[b] = None => ~Flagged(b)
  /\ \A b \in live : Flagged(b) /\ b \notin readErr => SeenEnd(b)

\* Before the first call no sockbuf has seen the end.
LEMMA InitEof == SockInit => EofInv
BY DEF SockInit, EofInv, Flagged

\* A step that sets no flag, and takes nothing in on a socket that has ended.
LEMMA QuietEof ==
  ASSUME LifeInv, EofInv,
         DOMAIN flags' = Bufs, DOMAIN area' = Bufs, DOMAIN inq' = Reps, readErr' = readErr,
         fin \subseteq fin',
         \A b \in Bufs : Flagged(b)' <=> Flagged(b),
         \A b \in Bufs : area[b] = <<>> => area'[b] = <<>>,
         \A r \in Reps : inq[r] = <<>> /\ r \in fin => inq'[r] = <<>>,
         \A b \in Bufs : rep[b] # None => rep'[b] = rep[b],
         \A b \in live' : b \in live \/ (b \in Bufs /\ rep[b] = None)
  PROVE  EofInv'
<1>1. ASSUME NEW b \in Bufs, rep'[b] = None PROVE ~Flagged(b)'
  BY <1>1 DEF EofInv
<1>2. ASSUME NEW b \in live', Flagged(b)', b \notin readErr' PROVE SeenEnd(b)'
  <2>1. b \in live /\ Flagged(b) /\ SeenEnd(b)
    BY <1>2 DEF EofInv, LifeInv, LifeType
  <2>2. b \in Bufs /\ rep[b] \in Reps /\ rep'[b] = rep[b]
    BY <2>1 DEF LifeInv, LifeType
  <2> QED
    BY <2>1, <2>2 DEF SeenEnd
<1> QED
  BY <1>1, <1>2 DEF EofInv

\* underflow with an empty get area sets the flag only when it has seen the end,
\* or has failed.
LEMMA UnderflowEof ==
  ASSUME LifeInv, EofInv, NEW b \in live, area[b] = <<>>, underflow(b),
         UNCHANGED <<live, rep, fin>>
  PROVE  EofInv'
<1>0. b \in Bufs /\ rep[b] \in Reps
  BY DEF LifeInv, LifeType
<1>1. CASE UNCHANGED <<flags, readErr, area, inq>>
  BY <1>1, QuietEof DEF Flagged, EofInv, LifeInv
<1>2. CASE ~Readable(b) \/ AtEnd(b)
  <2>1. CASE UNCHANGED <<area, inq>> /\ flags' = [flags EXCEPT ![b] = @ \cup {"EOF_SEEN"}]
             /\ readErr' = IF Readable(b) THEN readErr ELSE readErr \cup {b}
    <3>1. ASSUME NEW d \in Bufs, d # b PROVE flags'[d] = flags[d]
      BY <2>1, <3>1 DEF EofInv
    <3>2. ASSUME NEW d \in Bufs, rep'[d] = None PROVE ~Flagged(d)'
      BY <1>0, <3>1, <3>2, SockAssumption DEF EofInv, Flagged
    <3>3. ASSUME NEW d \in live', Flagged(d)', d \notin readErr' PROVE SeenEnd(d)'
      <4>1. CASE d = b
        BY <1>2, <2>1, <3>3, <4>1 DEF AtEnd, SeenEnd
      <4>2. CASE d # b
        <5>1. d \in Bufs /\ Flagged(d) /\ d \notin readErr /\ d \in live
          BY <2>1, <3>1, <3>3, <4>2 DEF Flagged, LifeInv, LifeType
        <5> QED
          BY <2>1, <5>1 DEF EofInv, SeenEnd
      <4> QED
        BY <4>1, <4>2
    <3> QED
      BY <2>1, <3>2, <3>3 DEF EofInv
  <2>2. CASE Fetch(b) /\ UNCHANGED <<flags, readErr>>
    BY <1>0, <1>2, <2>2 DEF Fetch, AtEnd
  <2> QED
    BY <1>1, <1>2, <2>1, <2>2 DEF underflow
<1>3. CASE Fetch(b) /\ UNCHANGED <<flags, readErr>>
  <2>1. inq[rep[b]] # <<>>
    BY <1>3 DEF Fetch
  <2>2. PICK s, t : area' = [area EXCEPT ![b] = s] /\ inq' = [inq EXCEPT ![rep[b]] = t]
    BY <1>3 DEF Fetch
  <2>3. ~Flagged(b) \/ b \in readErr
    BY <2>1 DEF EofInv, SeenEnd
  <2>4. ASSUME NEW d \in live', Flagged(d)', d \notin readErr' PROVE SeenEnd(d)'
    <3>1. d \in live /\ d \in Bufs /\ Flagged(d) /\ d \notin readErr /\ d # b
      BY <1>3, <2>3, <2>4 DEF Flagged, LifeInv, LifeType
    <3>2. SeenEnd(d) /\ rep[d] # rep[b] /\ rep[d] \in Reps
      BY <2>1, <3>1 DEF EofInv, SeenEnd, LifeInv, LifeType
    <3> QED
      BY <2>2, <3>1, <3>2 DEF EofInv, SeenEnd
  <2> QED
    BY <1>3, <2>2, <2>4 DEF EofInv, Flagged
<1> QED
  BY <1>1, <1>2, <1>3 DEF underflow

\* Every call keeps the truth about the end.
LEMMA NextEof == LifeInv /\ EofInv /\ [SockNext]_skvars => EofInv'
<1> SUFFICES ASSUME LifeInv, EofInv, [SockNext]_skvars PROVE EofInv'
  OBVIOUS
<1>1. CASE UNCHANGED <<live, rep, flags, area, inq, readErr, fin>>
  BY <1>1, QuietEof DEF Flagged, EofInv
<1>2. ASSUME NEW b \in Bufs, Call(b) PROVE EofInv'
  <2>1. CASE (\E nl \in BOOLEAN : Sputc(b, nl)) \/ Xsputn(b) \/ sync(b) \/ recvtimeout(b)
    BY <1>1, <2>1 DEF Sputc, Xsputn, sync, recvtimeout, in, life
  <2>2. CASE Sbumpc(b)
    <3>1. b \in live /\ UNCHANGED <<live, rep, fin>>
      BY <2>2 DEF Sbumpc, life
    <3>2. CASE area[b] # <<>>
      <4>1. area' = [area EXCEPT ![b] = Tail(@)] /\ UNCHANGED <<flags, inq, readErr>>
        BY <2>2, <3>2 DEF Sbumpc
      <4>2. \A d \in Bufs : area[d] = <<>> => area'[d] = <<>>
        BY <3>2, <4>1 DEF EofInv
      <4> QED
        BY <3>1, <4>1, <4>2, QuietEof DEF EofInv, Flagged
    <3>3. CASE area[b] = <<>>
      BY <2>2, <3>1, <3>3, UnderflowEof DEF Sbumpc
    <3> QED
      BY <3>2, <3>3
  <2>3. ASSUME NEW st, Own(b, st) PROVE EofInv'
    <3>1. rep[b] = None /\ live' = live \cup {b} /\ UNCHANGED <<flags, area, inq, readErr, fin>>
          /\ \E r : rep' = [rep EXCEPT ![b] = r]
      BY <2>3 DEF Own, Unused, in
    <3> QED
      BY <3>1, QuietEof DEF EofInv, Flagged, LifeInv, LifeType
  <2>4. CASE Construct(b) \/ \E from \in Bufs : accept(b, from)
    BY <2>3, <2>4 DEF Construct, accept
  <2>5. CASE (\E st \in {"connected", "listening"} : Establish(b, st)) \/ close(b)
    BY <1>1, <2>5 DEF Establish, close, in
  <2>6. CASE \E from \in Bufs : (b \notin Streams /\ Copy(b, from)) \/ iosockstream(b, from)
    <3>1. rep[b] = None /\ live' = live \cup {b} /\ UNCHANGED <<flags, area, inq, readErr, fin>>
          /\ \E r : rep' = [rep EXCEPT ![b] = r]
      BY <2>6 DEF iosockstream, Copy, Unused, in
    <3> QED
      BY <3>1, QuietEof DEF EofInv, Flagged, LifeInv, LifeType
  <2>7. CASE xsetflags(b)
    <3>1. flags' = [flags EXCEPT ![b] = @ \cup {"DELETE_DONT_CLOSE"}]
          /\ UNCHANGED <<live, rep, area, inq, readErr, fin>>
      BY <2>7 DEF xsetflags, in, life
    <3>2. \A d \in Bufs : Flagged(d)' <=> Flagged(d)
      BY <3>1 DEF Flagged, EofInv
    <3> QED
      BY <3>1, <3>2, QuietEof DEF EofInv
  <2>8. CASE Destroy(b)
    <3>1. /\ live' = live \ {b} /\ area' = [area EXCEPT ![b] = <<>>]
          /\ UNCHANGED <<rep, flags, inq, readErr, fin>>
      BY <2>8 DEF Destroy, Release
    <3> QED
      BY <3>1, QuietEof DEF EofInv, Flagged
  <2>9. CASE \E how \in SUBSET {"NO_READS", "NO_WRITES"} \ {{}} : shutdown(b, how)
    <3>1. PICK how \in SUBSET {"NO_READS", "NO_WRITES"} : shutdown(b, how)
      BY <2>9
    <3>2. flags' = [flags EXCEPT ![b] = @ \cup how] /\ fin \subseteq fin'
          /\ UNCHANGED <<live, rep, area, inq, readErr>>
      BY <3>1 DEF shutdown
    <3>3. \A d \in Bufs : Flagged(d)' <=> Flagged(d)
      BY <3>2 DEF Flagged, EofInv
    <3> QED
      BY <3>2, <3>3, QuietEof DEF EofInv
  <2> QED
    BY <1>2, <2>1, <2>2, <2>4, <2>5, <2>6, <2>7, <2>8, <2>9 DEF Call
<1>3. ASSUME NEW r \in Reps, PeerSends(r) PROVE EofInv'
  <2>1. r \notin fin /\ (\E s : inq' = [inq EXCEPT ![r] = s])
        /\ UNCHANGED <<live, rep, flags, area, readErr, fin>>
    BY <1>3 DEF PeerSends, life
  <2>2. DOMAIN inq' = Reps /\ \A q \in Reps : q \in fin => inq'[q] = inq[q]
    BY <2>1 DEF EofInv
  <2> QED
    BY <2>1, <2>2, QuietEof DEF EofInv, Flagged
<1>4. ASSUME NEW r \in Reps, PeerCloses(r) PROVE EofInv'
  <2>1. fin \subseteq fin' /\ UNCHANGED <<live, rep, flags, area, inq, readErr>>
    BY <1>4 DEF PeerCloses, life
  <2> QED
    BY <2>1, QuietEof DEF EofInv, Flagged
<1>5. CASE UNCHANGED skvars
  BY <1>1, <1>5 DEF skvars
<1> QED
  BY <1>2, <1>3, <1>4, <1>5 DEF SockNext

\* When a sockbuf says that it has seen the end, and no read of it has failed, no
\* byte is left for it and none will come, whatever the copies of it have read
\* (sockbuf::underflow).
THEOREM EofIsTruthful == SockSpec => []EofTruthful
<1>1. EofInv => EofTruthful
  BY DEF EofInv, Flagged, SeenEnd, EofTruthful
<1>2. LifeInv /\ EofInv /\ [SockNext]_skvars => (LifeInv /\ EofInv)'
  BY NextLife, NextEof
<1> QED
  BY <1>1, <1>2, InitLife, InitEof, PTL DEF SockSpec

----------------------------------------------------------------------------
(* Natural numbers and sequences *)

\* A set of natural numbers has a least element.
LEMMA LeastNatural ==
  ASSUME NEW T \in SUBSET Nat, T # {}
  PROVE  \E m \in T : \A n \in T : m <= n
<1> DEFINE Below == {0..m : m \in T}
<1>1. Below \subseteq FiniteSubsetsOf(Nat) /\ Below # {}
  <2>1. ASSUME NEW m \in T PROVE 0..m \in SUBSET Nat /\ IsFiniteSet(0..m)
    BY FS_Interval
  <2>2. \A m \in T : 0..m \in FiniteSubsetsOf(Nat)
    BY <2>1 DEF FiniteSubsetsOf
  <2> QED
    BY <2>2
<1>2. PICK B \in Below : \A C \in Below : <<C, B>> \notin StrictSubsetOrdering(Nat)
  BY <1>1, WFMin, FS_StrictSubsetOrderingWellFounded, Zenon
<1>3. PICK m \in T : B = 0..m
  BY <1>2
<1>4. ASSUME NEW n \in T, n < m PROVE FALSE
  <2>1. 0..n \in Below /\ 0..n \subseteq 0..m /\ 0..n # 0..m /\ 0..m \in SUBSET Nat /\ 0..n \in SUBSET Nat
    BY <1>4
  <2> QED
    BY <1>2, <1>3, <2>1 DEF StrictSubsetOrdering
<1> QED
  BY <1>4

\* Induction: a set that has 0, and n + 1 if it has n, has every natural number.
LEMMA Induction ==
  ASSUME NEW T, 0 \in T, \A n \in Nat : n \in T => n + 1 \in T
  PROVE  Nat \subseteq T
<1> SUFFICES ASSUME Nat \ T # {} PROVE FALSE
  OBVIOUS
<1>1. PICK m \in Nat \ T : \A n \in Nat \ T : m <= n
  BY LeastNatural
<1>2. m - 1 \in Nat /\ m - 1 \in T
  BY <1>1
<1> QED
  BY <1>1, <1>2

\* Concatenation is associative.
LEMMA Associative ==
  ASSUME NEW S, NEW s \in Seq(S), NEW t \in Seq(S), NEW u \in Seq(S)
  PROVE  (s \o t) \o u = s \o (t \o u)
<1>1. s \o t \in Seq(S) /\ t \o u \in Seq(S)
  BY ConcatProperties
<1>2. (s \o t) \o u \in Seq(S) /\ s \o (t \o u) \in Seq(S)
  BY <1>1, ConcatProperties
<1>3. Len((s \o t) \o u) = Len(s \o (t \o u))
  BY <1>1
<1>4. \A i \in 1..Len((s \o t) \o u) : ((s \o t) \o u)[i] = (s \o (t \o u))[i]
  BY <1>1
<1> QED
  BY <1>2, <1>3, <1>4, SeqEqual

\* To append to the last of two sequences is to append to both.
LEMMA AppendBehind ==
  ASSUME NEW S, NEW s \in Seq(S), NEW t \in Seq(S), NEW c \in S
  PROVE  s \o Append(t, c) = Append(s \o t, c)
<1> DEFINE u == s \o t
           v == Append(t, c)
<1>1. /\ Len(s) \in Nat /\ Len(t) \in Nat /\ v \in Seq(S) /\ u \in Seq(S)
      /\ Len(u) = Len(s) + Len(t) /\ Len(v) = Len(t) + 1 /\ v[Len(t) + 1] = c
      /\ \A i \in 1..Len(t) : v[i] = t[i]
  BY AppendProperties, ConcatProperties
<1>2. \A i \in 1..Len(s) + Len(t) : u[i] = IF i <= Len(s) THEN s[i] ELSE t[i - Len(s)]
  BY ConcatProperties
<1> HIDE DEF u, v
<1>3. /\ s \o v \in Seq(S) /\ Len(s \o v) = Len(s) + Len(v)
      /\ \A i \in 1..Len(s) + Len(v) : (s \o v)[i] = IF i <= Len(s) THEN s[i] ELSE v[i - Len(s)]
  <2>1. v \in Seq(S)
    BY <1>1
  <2> QED
    BY <2>1, ConcatProperties
<1>4. /\ Append(u, c) \in Seq(S) /\ Len(Append(u, c)) = Len(u) + 1
      /\ Append(u, c)[Len(u) + 1] = c /\ \A i \in 1..Len(u) : Append(u, c)[i] = u[i]
  BY <1>1, AppendProperties
<1>5. ASSUME NEW i \in 1..Len(s \o v) PROVE (s \o v)[i] = Append(u, c)[i]
  <2>1. i \in 1..Len(s) + Len(t) + 1
    BY <1>1, <1>3
  <2>2. CASE i <= Len(s)
    BY <1>1, <1>2, <1>3, <1>4, <2>1, <2>2
  <2>3. CASE i > Len(s) /\ i <= Len(s) + Len(t)
    <3>1. i - Len(s) \in 1..Len(t)
      BY <1>1, <2>1, <2>3
    <3> QED
      BY <1>1, <1>2, <1>3, <1>4, <2>1, <2>3, <3>1
  <2>4. CASE i = Len(s) + Len(t) + 1
    <3>1. i - Len(s) = Len(t) + 1 /\ i > Len(s)
      BY <1>1, <2>4
    <3> QED
      BY <1>1, <1>3, <1>4, <2>1, <2>4, <3>1
  <2> QED
    BY <1>1, <2>1, <2>2, <2>3, <2>4
<1>6. Len(s \o v) = Len(Append(u, c))
  BY <1>1, <1>3, <1>4
<1>7. s \o v = Append(u, c)
  BY <1>3, <1>4, <1>5, <1>6, SeqEqual
<1> QED
  BY <1>7 DEF u, v

----------------------------------------------------------------------------
(* The bytes of the peer *)

\* What b has handed out, and what it has fetched and not handed out.
Mine(b) == got[b] \o area[b]
Rising(s) == \A i, j \in DOMAIN s : i < j => s[i] < s[j]
Below(s, t) == \A i \in DOMAIN s, j \in DOMAIN t : s[i] < t[j]
Apart(s, t) == \A i \in DOMAIN s, j \in DOMAIN t : s[i] # t[j]
UpTo(s, n) == \A i \in DOMAIN s : s[i] <= n
Whole(s, n) == s = [i \in 1..n |-> i]

\* Names and sockets that are not in use have nothing to read.
ReadType ==
  /\ got \in [Bufs -> Seq(Nat)] /\ area \in [Bufs -> Seq(Nat)]
  /\ inq \in [Reps -> Seq(Nat)] /\ sent \in [Reps -> Nat]
  /\ \A b \in Bufs : rep[b] = None => got[b] = <<>> /\ area[b] = <<>>
  /\ \A r \in Reps : kstate[r] = None => inq[r] = <<>> /\ sent[r] = 0 /\ r \notin shared

\* What waits in the kernel is in order, and has been sent.
Waiting == \A r \in Reps : Rising(inq[r]) /\ UpTo(inq[r], sent[r])

\* What a buffer has fetched is in order, has been sent, and was sent before what
\* waits; a buffer that has the socket for itself has all of it.
Fetched ==
  \A b \in live :
    /\ Rising(Mine(b)) /\ UpTo(Mine(b), sent[rep[b]]) /\ Below(Mine(b), inq[rep[b]])
    /\ rep[b] \notin shared => Whole(Mine(b) \o inq[rep[b]], sent[rep[b]])

\* Two buffers on a socket have fetched different bytes, and the socket is shared.
Parted ==
  \A b \in live : \A d \in live \ {b} : rep[d] = rep[b] =>
    Apart(Mine(b), Mine(d)) /\ rep[b] \in shared

ReadInv == ReadType /\ Waiting /\ Fetched /\ Parted

----------------------------------------------------------------------------

\* A sequence in order, followed by one in order that lies above it, is in order.
LEMMA RisingParts ==
  ASSUME NEW s \in Seq(Nat), NEW t \in Seq(Nat), Rising(s), Rising(t), Below(s, t)
  PROVE  Rising(s \o t)
<1> SUFFICES ASSUME NEW i \in DOMAIN (s \o t), NEW j \in DOMAIN (s \o t), i < j
             PROVE  (s \o t)[i] < (s \o t)[j]
  BY DEF Rising
<1>0. Len(s) \in Nat /\ Len(t) \in Nat /\ Len(s \o t) = Len(s) + Len(t)
      /\ DOMAIN (s \o t) = 1..(Len(s) + Len(t)) /\ DOMAIN s = 1..Len(s) /\ DOMAIN t = 1..Len(t)
  OBVIOUS
<1>1. \A e \in DOMAIN (s \o t) :
        (s \o t)[e] = IF e <= Len(s) THEN s[e] ELSE t[e - Len(s)]
  BY ConcatProperties
<1>2. CASE j <= Len(s)
  BY <1>0, <1>1, <1>2 DEF Rising
<1>3. CASE i <= Len(s) /\ j > Len(s)
  <2>1. i \in DOMAIN s /\ j - Len(s) \in DOMAIN t
    BY <1>0, <1>3
  <2>2. (s \o t)[i] = s[i] /\ (s \o t)[j] = t[j - Len(s)]
    BY <1>0, <1>1, <1>3
  <2> QED
    BY <2>1, <2>2 DEF Below
<1>4. CASE i > Len(s)
  <2>1. i - Len(s) \in DOMAIN t /\ j - Len(s) \in DOMAIN t /\ i - Len(s) < j - Len(s)
    BY <1>0, <1>4
  <2>2. (s \o t)[i] = t[i - Len(s)] /\ (s \o t)[j] = t[j - Len(s)]
    BY <1>0, <1>1, <1>4
  <2> QED
    BY <2>1, <2>2 DEF Rising
<1> QED
  BY <1>0, <1>2, <1>3, <1>4

\* A read takes a part of what waits off its front and puts it behind what has
\* been fetched.
LEMMA Taken ==
  ASSUME NEW g \in Seq(Nat), NEW q \in Seq(Nat), NEW n \in 1..Len(q)
  PROVE  /\ SubSeq(q, 1, n) \in Seq(Nat) /\ SubSeq(q, n + 1, Len(q)) \in Seq(Nat)
         /\ Append(g, q[1]) \o SubSeq(q, 2, n) = g \o SubSeq(q, 1, n)
         /\ (g \o SubSeq(q, 1, n)) \o SubSeq(q, n + 1, Len(q)) = g \o q
<1>0. Len(q) \in Nat /\ n \in Nat /\ Len(g) \in Nat /\ q[1] \in Nat
  OBVIOUS
<1>1. SubSeq(q, 1, n) \in Seq(Nat) /\ SubSeq(q, n + 1, Len(q)) \in Seq(Nat)
      /\ SubSeq(q, 2, n) \in Seq(Nat) /\ <<q[1]>> \in Seq(Nat)
  BY <1>0, SubSeqProperties
<1>2. <<q[1]>> \o SubSeq(q, 2, n) = SubSeq(q, 1, n)
  BY <1>0, SubSeqRecursiveFirst
<1>3. Append(g, q[1]) = g \o <<q[1]>>
  BY <1>0, AppendIsConcat
<1>4. ASSUME NEW s \in Seq(Nat), NEW t \in Seq(Nat), NEW u \in Seq(Nat)
      PROVE  (s \o t) \o u = s \o (t \o u)
  <2>1. s \o t \in Seq(Nat) /\ t \o u \in Seq(Nat)
    BY ConcatProperties
  <2>2. (s \o t) \o u \in Seq(Nat) /\ s \o (t \o u) \in Seq(Nat)
    BY <2>1, ConcatProperties
  <2>3. Len((s \o t) \o u) = Len(s \o (t \o u))
    BY <2>1
  <2>4. \A i \in 1..Len((s \o t) \o u) : ((s \o t) \o u)[i] = (s \o (t \o u))[i]
    BY <2>1
  <2> QED
    BY <2>2, <2>3, <2>4, SeqEqual
<1>5. (g \o <<q[1]>>) \o SubSeq(q, 2, n) = g \o (<<q[1]>> \o SubSeq(q, 2, n))
  BY <1>1, <1>4, Zenon
<1>6. SubSeq(q, 1, n) \o SubSeq(q, n + 1, Len(q)) = q
  <2>1. SubSeq(q, 1, n) \o SubSeq(q, n + 1, Len(q)) = SubSeq(q, 1, Len(q))
    BY <1>0, ConcatAdjacentSubSeq
  <2> QED
    BY <2>1, SubSeqFull
<1>7. (g \o SubSeq(q, 1, n)) \o SubSeq(q, n + 1, Len(q))
      = g \o (SubSeq(q, 1, n) \o SubSeq(q, n + 1, Len(q)))
  BY <1>1, <1>4, Zenon
<1> QED
  BY <1>1, <1>2, <1>3, <1>5, <1>6, <1>7

\* If two sequences make up 1, ..., n, they do with one more byte.
LEMMA OneMore ==
  ASSUME NEW s \in Seq(Nat), NEW t \in Seq(Nat), NEW n \in Nat, Whole(s \o t, n)
  PROVE  Whole(s \o Append(t, n + 1), n + 1)
<1> DEFINE u == s \o t
<1>1. u \in Seq(Nat) /\ Len(u) = n /\ \A i \in 1..n : u[i] = i
  <2>1. u \in Seq(Nat) /\ u = [i \in 1..n |-> i]
    BY DEF Whole
  <2>2. Len(u) = n
    BY <2>1, LenProperties
  <2> QED
    BY <2>1, <2>2
<1>2. s \o Append(t, n + 1) = Append(u, n + 1)
  BY AppendBehind
<1> HIDE DEF u
<1> DEFINE v == Append(u, n + 1)
<1>3. v \in Seq(Nat) /\ Len(v) = n + 1 /\ \A i \in 1..n + 1 : v[i] = i
  BY <1>1, AppendProperties
<1> HIDE DEF v
<1>4. v = [i \in 1..n + 1 |-> i]
  <2>1. v = [i \in DOMAIN v |-> v[i]] /\ DOMAIN v = 1..n + 1
    BY <1>3
  <2> QED
    BY <1>3, <2>1
<1> QED
  BY <1>2, <1>4 DEF v, Whole

----------------------------------------------------------------------------

\* Before the first call nothing has been read.
LEMMA InitRead == SockInit => ReadInv
<1> SUFFICES ASSUME SockInit PROVE ReadInv
  OBVIOUS
<1>1. ReadType
  BY DEF SockInit, ReadType
<1>2. Waiting
  BY DEF SockInit, Waiting, Rising, UpTo
<1>3. Fetched /\ Parted
  BY DEF SockInit, Fetched, Parted
<1> QED
  BY <1>1, <1>2, <1>3 DEF ReadInv

\* A step that makes no buffer and moves no byte from one place to another.
LEMMA QuietRead ==
  ASSUME LifeInv, ReadInv, UNCHANGED <<rep, inq, sent, shared>>, live' \subseteq live,
         got' \in [Bufs -> Seq(Nat)], area' \in [Bufs -> Seq(Nat)],
         \A b \in Bufs : rep[b] = None => got'[b] = got[b] /\ area'[b] = area[b],
         \A b \in live' : Mine(b)' = Mine(b),
         \A r \in Reps : kstate'[r] = None => kstate[r] = None
  PROVE  ReadInv'
<1>1. ReadType'
  <2> USE DEF ReadInv, ReadType
  <2>1. \A b \in Bufs : rep'[b] = None => got'[b] = <<>> /\ area'[b] = <<>>
    OBVIOUS
  <2>2. \A r \in Reps : kstate'[r] = None => inq'[r] = <<>> /\ sent'[r] = 0 /\ r \notin shared'
    OBVIOUS
  <2> QED
    BY <2>1, <2>2
<1>2. Waiting'
  BY DEF ReadInv, Waiting
<1>3. Fetched'
  <2> SUFFICES ASSUME NEW b \in live'
               PROVE  /\ Rising(Mine(b)') /\ UpTo(Mine(b)', sent'[rep'[b]])
                      /\ Below(Mine(b)', inq'[rep'[b]])
                      /\ (rep'[b] \notin shared' =>
                          Whole(Mine(b)' \o inq'[rep'[b]], sent'[rep'[b]]))
    BY DEF Fetched
  <2> QED
    BY DEF ReadInv, Fetched
<1>4. Parted'
  <2> SUFFICES ASSUME NEW b \in live', NEW d \in live' \ {b}, rep'[d] = rep'[b]
               PROVE  Apart(Mine(b)', Mine(d)') /\ rep'[b] \in shared'
    BY DEF Parted
  <2> QED
    BY DEF ReadInv, Parted
<1> QED
  BY <1>1, <1>2, <1>3, <1>4 DEF ReadInv

\* A new buffer has fetched nothing; it has a new socket, or a shared one.
LEMMA NewRead ==
  ASSUME LifeInv, ReadInv, NEW b \in Bufs, rep[b] = None, NEW r \in Reps,
         live' = live \cup {b}, rep' = [rep EXCEPT ![b] = r],
         UNCHANGED <<got, area, inq, sent>>,
         \/ kstate[r] = None /\ shared' = shared
         \/ kstate[r] # None /\ shared' = shared \cup {r},
         \A q \in Reps : kstate'[q] = None => kstate[q] = None,
         kstate'[r] # None
  PROVE  ReadInv'
<1>0. /\ b \notin live /\ rep'[b] = r /\ \A d \in live : d \in Bufs /\ rep'[d] = rep[d]
      /\ \A d \in live : rep[d] \in Reps
      /\ \A d \in live : kstate[rep[d]] # None
  BY DEF LifeInv, LifeType
<1>1. Mine(b)' = <<>> /\ \A d \in live : Mine(d)' = Mine(d)
  BY DEF Mine, ReadInv, ReadType
<1>2. ReadType'
  <2>1. \A d \in Bufs : rep'[d] = None => got'[d] = <<>> /\ area'[d] = <<>>
    BY SockAssumption DEF ReadInv, ReadType, LifeInv, LifeType
  <2>2. \A q \in Reps : kstate'[q] = None => inq'[q] = <<>> /\ sent'[q] = 0 /\ q \notin shared'
    BY DEF ReadInv, ReadType
  <2> QED
    BY <2>1, <2>2 DEF ReadInv, ReadType
<1>3. Waiting'
  BY DEF ReadInv, Waiting
<1>4. Fetched'
  <2> SUFFICES ASSUME NEW d \in live'
               PROVE  /\ Rising(Mine(d)') /\ UpTo(Mine(d)', sent'[rep'[d]])
                      /\ Below(Mine(d)', inq'[rep'[d]])
                      /\ (rep'[d] \notin shared' =>
                          Whole(Mine(d)' \o inq'[rep'[d]], sent'[rep'[d]]))
    BY DEF Fetched
  <2>1. CASE d = b
    <3>1. Rising(<<>>) /\ UpTo(<<>>, sent[r]) /\ Below(<<>>, inq[r])
      BY DEF Rising, UpTo, Below
    <3>2. ASSUME r \notin shared' PROVE Whole(<<>> \o inq[r], sent[r])
      <4>1. inq[r] = <<>> /\ sent[r] = 0
        BY <3>2 DEF ReadInv, ReadType
      <4> QED
        BY <4>1 DEF Whole
    <3> QED
      BY <1>0, <1>1, <2>1, <3>1, <3>2
  <2>2. CASE d \in live
    BY <1>0, <1>1, <2>2 DEF ReadInv, Fetched
  <2> QED
    BY <2>1, <2>2
<1>5. Parted'
  <2> SUFFICES ASSUME NEW c \in live', NEW d \in live' \ {c}, rep'[d] = rep'[c]
               PROVE  Apart(Mine(c)', Mine(d)') /\ rep'[c] \in shared'
    BY DEF Parted
  <2>1. CASE c \in live /\ d \in live
    BY <1>0, <1>1, <2>1 DEF ReadInv, Parted
  <2>2. CASE c = b \/ d = b
    <3>1. kstate[r] # None
      BY <1>0, <2>2
    <3> QED
      BY <1>0, <1>1, <2>2, <3>1 DEF Apart
  <2> QED
    BY <2>1, <2>2
<1> QED
  BY <1>2, <1>3, <1>4, <1>5 DEF ReadInv

\* The peer sends one byte more, which is above all that it has sent.
LEMMA PeerRead == ASSUME LifeInv, ReadInv, NEW r \in Reps, PeerSends(r) PROVE ReadInv'
<1> DEFINE n == sent[r]
<1>0. /\ kstate[r] # None /\ n \in Nat /\ inq[r] \in Seq(Nat)
      /\ sent' = [sent EXCEPT ![r] = n + 1] /\ inq' = [inq EXCEPT ![r] = Append(@, n + 1)]
      /\ UNCHANGED <<live, rep, kstate, shared, got, area>>
  BY DEF PeerSends, life, ReadInv, ReadType, None
<1>1. inq'[r] = Append(inq[r], n + 1) /\ sent'[r] = n + 1
      /\ \A q \in Reps \ {r} : inq'[q] = inq[q] /\ sent'[q] = sent[q]
  BY <1>0 DEF ReadInv, ReadType
<1> HIDE DEF n
<1>2. ReadType'
  <2>1. inq' \in [Reps -> Seq(Nat)] /\ sent' \in [Reps -> Nat]
    BY <1>0 DEF ReadInv, ReadType
  <2>2. \A q \in Reps : kstate'[q] = None => inq'[q] = <<>> /\ sent'[q] = 0 /\ q \notin shared'
    BY <1>0, <1>1 DEF ReadInv, ReadType
  <2> QED
    BY <1>0, <2>1, <2>2 DEF ReadInv, ReadType
<1>3. Rising(inq[r]) /\ UpTo(inq[r], n)
  BY DEF n, ReadInv, Waiting
<1>4. Rising(Append(inq[r], n + 1)) /\ UpTo(Append(inq[r], n + 1), n + 1)
  BY <1>0, <1>3 DEF Rising, UpTo
<1>5. Waiting'
  BY <1>1, <1>4 DEF ReadInv, Waiting
<1>6. ASSUME NEW b \in live PROVE Mine(b)' = Mine(b) /\ Mine(b) \in Seq(Nat) /\ b \in Bufs
                                  /\ rep[b] \in Reps
  BY <1>0 DEF Mine, ReadInv, ReadType, LifeInv, LifeType
<1>7. Fetched'
  <2> SUFFICES ASSUME NEW b \in live
               PROVE  /\ Rising(Mine(b)) /\ UpTo(Mine(b), sent'[rep[b]])
                      /\ Below(Mine(b), inq'[rep[b]])
                      /\ (rep[b] \notin shared =>
                          Whole(Mine(b) \o inq'[rep[b]], sent'[rep[b]]))
    BY <1>0, <1>6 DEF Fetched
  <2>1. CASE rep[b] # r
    BY <1>1, <1>6, <2>1 DEF ReadInv, Fetched
  <2>2. CASE rep[b] = r
    <3>1. Rising(Mine(b)) /\ UpTo(Mine(b), n) /\ Below(Mine(b), inq[r])
          /\ (r \notin shared => Whole(Mine(b) \o inq[r], n))
      BY <2>2 DEF ReadInv, Fetched, n
    <3>2. UpTo(Mine(b), n + 1)
      BY <1>0, <1>6, <3>1 DEF UpTo
    <3>3. Below(Mine(b), Append(inq[r], n + 1))
      <4> SUFFICES ASSUME NEW i \in DOMAIN Mine(b), NEW j \in DOMAIN Append(inq[r], n + 1)
                   PROVE  Mine(b)[i] < Append(inq[r], n + 1)[j]
        BY DEF Below
      <4>1. Mine(b)[i] \in Nat /\ Mine(b)[i] <= n
        BY <1>6, <3>1 DEF UpTo
      <4>2. CASE j \in DOMAIN inq[r]
        BY <1>0, <3>1, <4>2 DEF Below
      <4>3. CASE j \notin DOMAIN inq[r]
        BY <1>0, <4>1, <4>3
      <4> QED
        BY <4>2, <4>3
    <3>4. ASSUME r \notin shared
          PROVE  Whole(Mine(b) \o Append(inq[r], n + 1), n + 1)
      <4>1. Mine(b) \in Seq(Nat) /\ inq[r] \in Seq(Nat) /\ n \in Nat
        BY <1>0, <1>6
      <4>2. Whole(Mine(b) \o inq[r], n)
        BY <3>1, <3>4
      <4> QED
        BY <4>1, <4>2, OneMore
    <3> QED
      BY <1>1, <2>2, <3>1, <3>2, <3>3, <3>4
  <2> QED
    BY <2>1, <2>2
<1>8. Parted'
  BY <1>0, <1>6 DEF ReadInv, Parted
<1> QED
  BY <1>2, <1>5, <1>7, <1>8 DEF ReadInv

\* The two parts of a sequence in order are in order, the one below the other.
LEMMA Parts ==
  ASSUME NEW q \in Seq(Nat), NEW n \in 1..Len(q), Rising(q)
  PROVE  /\ Rising(SubSeq(q, 1, n)) /\ Rising(SubSeq(q, n + 1, Len(q)))
         /\ Below(SubSeq(q, 1, n), SubSeq(q, n + 1, Len(q)))
         /\ \A i \in DOMAIN SubSeq(q, 1, n) : i \in DOMAIN q /\ SubSeq(q, 1, n)[i] = q[i]
         /\ \A i \in DOMAIN SubSeq(q, n + 1, Len(q)) :
              n + i \in DOMAIN q /\ SubSeq(q, n + 1, Len(q))[i] = q[n + i]
<1> DEFINE s == SubSeq(q, 1, n)
           t == SubSeq(q, n + 1, Len(q))
<1>0. n \in Nat /\ Len(q) \in Nat /\ n <= Len(q) /\ DOMAIN q = 1..Len(q)
  OBVIOUS
<1>1. Len(s) = n /\ DOMAIN s = 1..n /\ \A i \in 1..n : s[i] = q[i]
  BY <1>0
<1>2. DOMAIN t = 1..Len(q) - n /\ \A i \in 1..Len(q) - n : t[i] = q[n + i]
  <2>1. n + 1 \in 1..(Len(q) + 1) /\ Len(q) - (n + 1) + 1 = Len(q) - n
    BY <1>0
  <2>2. t = [i \in 1..(Len(q) - (n + 1) + 1) |-> q[(n + 1) + i - 1]]
    OBVIOUS
  <2>3. \A i \in 1..Len(q) - n : (n + 1) + i - 1 = n + i
    BY <1>0
  <2> HIDE DEF t
  <2> QED
    BY <2>1, <2>2, <2>3
<1> HIDE DEF s, t
<1>3. \A i \in DOMAIN s : i \in DOMAIN q /\ s[i] = q[i]
  BY <1>0, <1>1
<1>4. \A i \in DOMAIN t : n + i \in DOMAIN q /\ t[i] = q[n + i]
  BY <1>0, <1>2
<1>5. Rising(s)
  BY <1>3 DEF Rising
<1>6. Rising(t)
  <2> SUFFICES ASSUME NEW i \in DOMAIN t, NEW j \in DOMAIN t, i < j PROVE t[i] < t[j]
    BY DEF Rising
  <2>1. n + i < n + j
    BY <1>0, <1>2
  <2> QED
    BY <1>4, <2>1 DEF Rising
<1>7. Below(s, t)
  <2> SUFFICES ASSUME NEW i \in DOMAIN s, NEW j \in DOMAIN t PROVE s[i] < t[j]
    BY DEF Below
  <2>1. i < n + j
    BY <1>0, <1>1, <1>2
  <2> QED
    BY <1>3, <1>4, <2>1 DEF Rising
<1> QED
  BY <1>3, <1>4, <1>5, <1>6, <1>7 DEF s, t

\* What is in two sequences, one behind the other.
LEMMA Joined ==
  ASSUME NEW s \in Seq(Nat), NEW t \in Seq(Nat), NEW i \in DOMAIN (s \o t)
  PROVE  (\E j \in DOMAIN s : (s \o t)[i] = s[j]) \/ (\E j \in DOMAIN t : (s \o t)[i] = t[j])
<1>1. Len(s) \in Nat /\ Len(t) \in Nat /\ i \in 1..Len(s) + Len(t)
      /\ DOMAIN s = 1..Len(s) /\ DOMAIN t = 1..Len(t)
  OBVIOUS
<1>2. (s \o t)[i] = IF i <= Len(s) THEN s[i] ELSE t[i - Len(s)]
  BY <1>1, ConcatProperties
<1>3. CASE i <= Len(s)
  BY <1>1, <1>2, <1>3
<1>4. CASE i > Len(s)
  <2>1. i - Len(s) \in DOMAIN t
    BY <1>1, <1>4
  <2> QED
    BY <1>1, <1>2, <1>4, <2>1
<1> QED
  BY <1>1, <1>3, <1>4

\* A read takes what waits, or a part of it, for its buffer alone.
LEMMA FetchRead ==
  ASSUME LifeInv, ReadInv, NEW b \in live, area[b] = <<>>, Fetch(b),
         UNCHANGED <<live, rep, sent, shared, kstate>>
  PROVE  ReadInv'
<1> DEFINE r == rep[b]
           M == got[b]
           q == inq[r]
<1>0. /\ b \in Bufs /\ r \in Reps /\ M \in Seq(Nat) /\ q \in Seq(Nat) /\ kstate[r] # None
      /\ rep[b] # None /\ \A d \in live : d \in Bufs /\ rep[d] \in Reps
  BY DEF LifeInv, LifeType, ReadInv, ReadType
<1>1. PICK n \in 1..Len(q) :
        /\ got' = [got EXCEPT ![b] = Append(@, q[1])]
        /\ area' = [area EXCEPT ![b] = SubSeq(q, 2, n)]
        /\ inq' = [inq EXCEPT ![r] = SubSeq(q, n + 1, Len(q))]
  BY DEF Fetch
<1> DEFINE s == SubSeq(q, 1, n)
           t == SubSeq(q, n + 1, Len(q))
<1>2. Mine(b) = M
  BY <1>0, ConcatEmptySeq DEF Mine
<1>3. /\ s \in Seq(Nat) /\ t \in Seq(Nat)
      /\ Append(M, q[1]) \o SubSeq(q, 2, n) = M \o s /\ (M \o s) \o t = M \o q
  BY <1>0, Taken
<1>4. got'[b] = Append(M, q[1]) /\ area'[b] = SubSeq(q, 2, n) /\ inq'[r] = t
      /\ (\A d \in Bufs \ {b} : got'[d] = got[d] /\ area'[d] = area[d])
      /\ \A p \in Reps \ {r} : inq'[p] = inq[p]
  BY <1>0, <1>1 DEF ReadInv, ReadType
<1>5. Mine(b)' = M \o s /\ \A d \in live \ {b} : Mine(d)' = Mine(d)
  BY <1>0, <1>3, <1>4 DEF Mine
<1>6. ReadType'
  <2>1. Append(M, q[1]) \in Seq(Nat) /\ SubSeq(q, 2, n) \in Seq(Nat)
    BY <1>0
  <2>2. got' \in [Bufs -> Seq(Nat)] /\ area' \in [Bufs -> Seq(Nat)] /\ inq' \in [Reps -> Seq(Nat)]
    BY <1>1, <1>3, <2>1 DEF ReadInv, ReadType
  <2>3. \A d \in Bufs : rep'[d] = None => got'[d] = <<>> /\ area'[d] = <<>>
    BY <1>0, <1>4 DEF ReadInv, ReadType
  <2>4. \A p \in Reps : kstate'[p] = None => inq'[p] = <<>> /\ sent'[p] = 0 /\ p \notin shared'
    BY <1>0, <1>4 DEF ReadInv, ReadType
  <2> QED
    BY <2>2, <2>3, <2>4 DEF ReadInv, ReadType
<1>7. /\ Rising(q) /\ UpTo(q, sent[r]) /\ Rising(M) /\ UpTo(M, sent[r]) /\ Below(M, q)
      /\ (r \notin shared => Whole(M \o q, sent[r]))
  BY <1>0, <1>2 DEF ReadInv, Waiting, Fetched
<1>8. /\ Rising(s) /\ Rising(t) /\ Below(s, t)
      /\ (\A i \in DOMAIN s : \E j \in DOMAIN q : s[i] = q[j])
      /\ \A i \in DOMAIN t : \E j \in DOMAIN q : t[i] = q[j]
  BY <1>0, <1>7, Parts
<1>9. ASSUME NEW i \in DOMAIN (M \o s)
      PROVE  (\E j \in DOMAIN M : (M \o s)[i] = M[j]) \/ (\E j \in DOMAIN s : (M \o s)[i] = s[j])
  BY <1>0, <1>3, Joined
<1> HIDE DEF s, t, M, q, r
<1>10. Waiting'
  <2>1. UpTo(t, sent[r])
    BY <1>7, <1>8 DEF UpTo
  <2> QED
    BY <1>4, <1>8, <2>1 DEF ReadInv, Waiting
<1>11. Rising(M \o s)
  <2>1. Below(M, s)
    BY <1>7, <1>8 DEF Below
  <2> QED
    BY <1>0, <1>3, <1>7, <1>8, <2>1, RisingParts
<1>12. UpTo(M \o s, sent[r])
  BY <1>7, <1>8, <1>9 DEF UpTo
<1>13. Below(M \o s, t)
  <2>1. Below(M, t)
    BY <1>7, <1>8 DEF Below
  <2> QED
    BY <1>8, <1>9, <2>1 DEF Below
<1>14. Fetched'
  <2> SUFFICES ASSUME NEW d \in live
               PROVE  /\ Rising(Mine(d)') /\ UpTo(Mine(d)', sent[rep[d]])
                      /\ Below(Mine(d)', inq'[rep[d]])
                      /\ (rep[d] \notin shared => Whole(Mine(d)' \o inq'[rep[d]], sent[rep[d]]))
    BY DEF Fetched
  <2>1. CASE d = b
    BY <1>3, <1>4, <1>5, <1>7, <1>11, <1>12, <1>13, <2>1 DEF r
  <2>2. CASE d # b /\ rep[d] = r
    <3>1. r \in shared
      BY <2>2 DEF ReadInv, Parted, r
    <3>2. Below(Mine(d), t)
      BY <1>8, <2>2 DEF ReadInv, Fetched, Below, q
    <3> QED
      BY <1>4, <1>5, <2>2, <3>1, <3>2 DEF ReadInv, Fetched
  <2>3. CASE d # b /\ rep[d] # r
    BY <1>0, <1>4, <1>5, <2>3 DEF ReadInv, Fetched
  <2> QED
    BY <2>1, <2>2, <2>3
<1>15. ASSUME NEW d \in live \ {b}, rep[d] = r PROVE Apart(M \o s, Mine(d))
  <2>1. Apart(M, Mine(d)) /\ Below(Mine(d), q)
    BY <1>2, <1>15 DEF ReadInv, Parted, Fetched, q, r
  <2>2. Apart(s, Mine(d))
    <3> SUFFICES ASSUME NEW i \in DOMAIN s, NEW j \in DOMAIN Mine(d) PROVE s[i] # Mine(d)[j]
      BY DEF Apart
    <3>1. PICK k \in DOMAIN q : s[i] = q[k]
      BY <1>8
    <3>2. q[k] \in Nat /\ Mine(d)[j] < q[k]
      BY <1>0, <2>1 DEF Below
    <3>3. Mine(d)[j] \in Nat
      <4>1. Mine(d) \in Seq(Nat)
        BY <1>0 DEF Mine, ReadInv, ReadType
      <4> QED
        BY <4>1
    <3> QED
      BY <3>1, <3>2, <3>3
  <2> QED
    BY <1>9, <2>1, <2>2 DEF Apart
<1>16. Parted'
  <2> SUFFICES ASSUME NEW c \in live, NEW d \in live \ {c}, rep[d] = rep[c]
               PROVE  Apart(Mine(c)', Mine(d)') /\ rep[c] \in shared
    BY DEF Parted
  <2>1. Apart(Mine(c), Mine(d)) /\ rep[c] \in shared
    BY DEF ReadInv, Parted
  <2>2. CASE c = b
    BY <1>5, <1>15, <2>1, <2>2 DEF r
  <2>3. CASE d = b
    <3>1. Apart(M \o s, Mine(c))
      BY <1>15, <2>3 DEF r
    <3> QED
      BY <1>5, <2>1, <2>3, <3>1 DEF Apart
  <2>4. CASE c # b /\ d # b
    BY <1>5, <2>1, <2>4
  <2> QED
    BY <2>2, <2>3, <2>4
<1> QED
  BY <1>6, <1>10, <1>14, <1>16 DEF ReadInv

\* sbumpc hands out the first byte of the get area, or of what is fetched.
LEMMA SbumpcRead == ASSUME LifeInv, ReadInv, NEW b \in Bufs, Sbumpc(b) PROVE ReadInv'
<1>0. b \in live /\ UNCHANGED <<live, rep, sent, shared, kstate>>
  BY DEF Sbumpc, life
<1>1. CASE area[b] # <<>>
  <2> DEFINE g == got[b]
             a == area[b]
  <2>0. g \in Seq(Nat) /\ a \in Seq(Nat) /\ a # <<>>
    BY <1>1 DEF ReadInv, ReadType
  <2>1. got' = [got EXCEPT ![b] = Append(g, Head(a))] /\ area' = [area EXCEPT ![b] = Tail(a)]
        /\ inq' = inq
    BY <1>1 DEF Sbumpc
  <2>2. Append(g, Head(a)) \o Tail(a) = g \o a
    <3>1. Tail(a) = SubSeq(a, 2, Len(a)) /\ Head(a) = a[1] /\ Len(a) \in 1..Len(a)
      BY <2>0, TailIsSubSeq
    <3>2. SubSeq(a, 1, Len(a)) = a
      BY <2>0, SubSeqFull
    <3>3. Append(g, a[1]) \o SubSeq(a, 2, Len(a)) = g \o SubSeq(a, 1, Len(a))
      BY <2>0, <3>1, Taken
    <3> QED
      BY <3>1, <3>2, <3>3
  <2>3. Append(g, Head(a)) \in Seq(Nat) /\ Tail(a) \in Seq(Nat)
    BY <2>0, HeadTailProperties, AppendProperties
  <2> HIDE DEF g, a
  <2>4. got' \in [Bufs -> Seq(Nat)] /\ area' \in [Bufs -> Seq(Nat)]
    BY <2>1, <2>3 DEF ReadInv, ReadType
  <2>5. got'[b] = Append(g, Head(a)) /\ area'[b] = Tail(a)
        /\ \A d \in Bufs \ {b} : got'[d] = got[d] /\ area'[d] = area[d]
    BY <2>1 DEF ReadInv, ReadType
  <2>6. \A d \in live : Mine(d)' = Mine(d)
    BY <2>2, <2>5 DEF Mine, g, a, LifeInv, LifeType
  <2>7. \A d \in Bufs : rep[d] = None => got'[d] = got[d] /\ area'[d] = area[d]
    BY <1>0, <2>5 DEF LifeInv, LifeType
  <2> QED
    BY <1>0, <2>1, <2>4, <2>6, <2>7, QuietRead
<1>2. CASE area[b] = <<>> /\ UNCHANGED <<area, got, inq>>
  BY <1>0, <1>2, QuietRead DEF Mine, ReadInv, ReadType
<1>3. CASE area[b] = <<>> /\ Fetch(b)
  BY <1>0, <1>3, FetchRead
<1> QED
  BY <1>1, <1>2, <1>3 DEF Sbumpc, underflow

\* Every call keeps account of the bytes of the peer.
LEMMA NextRead == LifeInv /\ ReadInv /\ [SockNext]_skvars => ReadInv'
<1> SUFFICES ASSUME LifeInv, ReadInv, [SockNext]_skvars PROVE ReadInv'
  OBVIOUS
<1>1. CASE UNCHANGED <<live, rep, got, area, inq, sent, shared, kstate>>
  BY <1>1, QuietRead DEF Mine, ReadInv, ReadType
<1>2. ASSUME NEW b \in Bufs, Call(b) PROVE ReadInv'
  <2>1. CASE (\E nl \in BOOLEAN : Sputc(b, nl)) \/ Xsputn(b) \/ sync(b) \/ recvtimeout(b)
             \/ xsetflags(b)
    BY <1>1, <2>1 DEF Sputc, Xsputn, sync, recvtimeout, xsetflags, in, life
  <2>2. CASE Sbumpc(b)
    BY <2>2, SbumpcRead
  <2>3. ASSUME NEW st \in {"fresh", "connected", "dead"}, Own(b, st) PROVE ReadInv'
    <3> DEFINE r == CHOOSE q \in FreeReps : TRUE
    <3>1. r \in Reps /\ kstate[r] = None /\ rep[b] = None
      BY <2>3 DEF Own, FreeReps, Unused
    <3>2. /\ live' = live \cup {b} /\ rep' = [rep EXCEPT ![b] = r]
          /\ kstate' = [kstate EXCEPT ![r] = st] /\ UNCHANGED <<got, area, inq, sent, shared>>
      BY <2>3 DEF Own, in
    <3> HIDE DEF r
    <3>3. kstate'[r] # None /\ \A q \in Reps : kstate'[q] = None => kstate[q] = None
      BY <3>1, <3>2 DEF LifeInv, LifeType, None
    <3> QED
      BY <3>1, <3>2, <3>3, NewRead
  <2>4. CASE Construct(b) \/ \E from \in Bufs : accept(b, from)
    BY <2>3, <2>4 DEF Construct, accept
  <2>5. CASE (\E st \in {"connected", "listening"} : Establish(b, st)) \/ close(b)
    <3>1. UNCHANGED <<live, rep, got, area, inq, sent, shared>>
      BY <2>5 DEF Establish, close, in
    <3>2. \A q \in Reps : kstate'[q] = None => kstate[q] = None
      BY <2>5 DEF Establish, close, LifeInv, LifeType, None
    <3> QED
      BY <3>1, <3>2, QuietRead DEF Mine, ReadInv, ReadType
  <2>6. CASE \E from \in Bufs : (b \notin Streams /\ Copy(b, from)) \/ iosockstream(b, from)
    <3>1. PICK from \in Bufs : Copy(b, from)
      BY <2>6 DEF iosockstream
    <3>2. /\ rep[b] = None /\ rep[from] \in Reps /\ kstate[rep[from]] # None
          /\ live' = live \cup {b} /\ rep' = [rep EXCEPT ![b] = rep[from]]
          /\ shared' = shared \cup {rep[from]} /\ UNCHANGED <<got, area, inq, sent, kstate>>
      BY <3>1 DEF Copy, Unused, in, LifeInv, LifeType
    <3> QED
      BY <3>2, NewRead
  <2>7. CASE Destroy(b)
    <3>1. /\ b \in live /\ live' = live \ {b} /\ area' = [area EXCEPT ![b] = <<>>]
          /\ UNCHANGED <<rep, got, inq, sent, shared>>
      BY <2>7 DEF Destroy, Release
    <3>2. area' \in [Bufs -> Seq(Nat)] /\ got' \in [Bufs -> Seq(Nat)] /\ rep[b] # None
          /\ \A d \in Bufs : d # b => area'[d] = area[d]
      BY <3>1 DEF ReadInv, ReadType, LifeInv, LifeType
    <3>3. \A d \in live' : Mine(d)' = Mine(d)
      BY <3>1, <3>2 DEF Mine, LifeInv, LifeType
    <3>4. \A q \in Reps : kstate'[q] = None => kstate[q] = None
      BY <2>7 DEF Destroy, Release, LifeInv, LifeType, None
    <3>5. \A d \in Bufs : rep[d] = None => got'[d] = got[d] /\ area'[d] = area[d]
      BY <3>1, <3>2
    <3> QED
      BY <3>1, <3>2, <3>3, <3>4, <3>5, QuietRead
  <2>8. CASE \E how \in SUBSET {"NO_READS", "NO_WRITES"} \ {{}} : shutdown(b, how)
    <3>1. UNCHANGED <<live, rep, got, area, inq, sent, shared>>
          /\ (kstate' = kstate \/ kstate' = [kstate EXCEPT ![rep[b]] = "noWrites"])
      BY <2>8 DEF shutdown
    <3>2. \A q \in Reps : kstate'[q] = None => kstate[q] = None
      BY <3>1 DEF LifeInv, LifeType, None
    <3> QED
      BY <3>1, <3>2, QuietRead DEF Mine, ReadInv, ReadType
  <2> QED
    BY <1>2, <2>1, <2>2, <2>4, <2>5, <2>6, <2>7, <2>8 DEF Call
<1>3. ASSUME NEW r \in Reps, PeerSends(r) PROVE ReadInv'
  BY <1>3, PeerRead
<1>4. ASSUME NEW r \in Reps, PeerCloses(r) PROVE ReadInv'
  BY <1>1, <1>4 DEF PeerCloses, life
<1>5. CASE UNCHANGED skvars
  BY <1>1, <1>5 DEF skvars
<1> QED
  BY <1>2, <1>3, <1>4, <1>5 DEF SockNext

\* Every byte of the peer is handed out once, and in order, however many buffers
\* read from the socket and however they are copied and destroyed; a buffer that
\* has the socket for itself gets all of them (sockbuf::underflow, sys_read).
THEOREM ReadsAreOnce == SockSpec => []ReadOnce
<1>1. ASSUME LifeInv, ReadInv PROVE ReadOnce
  <2> SUFFICES ASSUME NEW b \in live
               PROVE  /\ Rising(Mine(b) \o inq[rep[b]])
                      /\ \A d \in live \ {b} : rep[d] = rep[b] => Apart(Mine(b), Mine(d))
                      /\ rep[b] \notin shared => Whole(Mine(b) \o inq[rep[b]], sent[rep[b]])
    BY DEF ReadOnce, Rising, Apart, Whole, Mine
  <2>1. Mine(b) \in Seq(Nat) /\ inq[rep[b]] \in Seq(Nat) /\ rep[b] \in Reps
    <3>1. b \in Bufs /\ rep[b] \in Reps
      BY <1>1 DEF LifeInv, LifeType
    <3> QED
      BY <1>1, <3>1 DEF Mine, ReadInv, ReadType
  <2>2. Rising(Mine(b) \o inq[rep[b]])
    BY <1>1, <2>1, RisingParts DEF ReadInv, Waiting, Fetched
  <2> QED
    BY <1>1, <2>2 DEF ReadInv, Fetched, Parted
<1>2. LifeInv /\ ReadInv /\ [SockNext]_skvars => (LifeInv /\ ReadInv)'
  BY NextLife, NextRead
<1> QED
  BY <1>1, <1>2, InitLife, InitRead, PTL DEF SockSpec

----------------------------------------------------------------------------
(* The bytes of a program *)

BytesFrom(C) == [by : C, no : Nat, nl : BOOLEAN, bulk : BOOLEAN]

\* The recursion of BytesOf, with its definition unfolded.
Among(b, s, F, i) ==
  IF i = 0 THEN <<>> ELSE IF s[i].by = b THEN Append(F[i - 1], s[i]) ELSE F[i - 1]
IsAmong(b, s, F, m) == F = [i \in 0..m |-> Among(b, s, F, i)]

\* There is a function that the recursion of BytesOf defines.
LEMMA AmongExists ==
  ASSUME NEW b, NEW s
  PROVE  \A m \in Nat : \E F : IsAmong(b, s, F, m)
<1> DEFINE T == {m \in Nat : \E F : IsAmong(b, s, F, m)}
<1>1. 0 \in T
  <2> DEFINE F == [i \in 0..0 |-> <<>>]
  <2>1. \A i \in 0..0 : Among(b, s, F, i) = <<>>
    BY DEF Among
  <2>2. F = [i \in 0..0 |-> Among(b, s, F, i)]
    BY <2>1
  <2> QED
    BY <2>2 DEF IsAmong
<1>2. ASSUME NEW m \in Nat, m \in T PROVE m + 1 \in T
  <2>1. PICK F : IsAmong(b, s, F, m)
    BY <1>2
  <2> DEFINE G == [i \in 0..m + 1 |-> IF i <= m THEN F[i] ELSE Among(b, s, F, i)]
  <2>2. \A i \in 0..m : F[i] = Among(b, s, F, i)
    BY <2>1 DEF IsAmong
  <2>3. \A i \in 0..m : G[i] = F[i]
    BY <1>2
  <2>4. \A i \in 0..m + 1 : G[i] = Among(b, s, F, i)
    BY <1>2, <2>2
  <2>5. \A i \in 0..m + 1 : Among(b, s, G, i) = Among(b, s, F, i)
    <3> HIDE DEF G
    <3>1. \A i \in 1..m + 1 : G[i - 1] = F[i - 1]
      BY <1>2, <2>3
    <3> QED
      BY <3>1 DEF Among
  <2>6. G = [i \in 0..m + 1 |-> G[i]]
    OBVIOUS
  <2> HIDE DEF G
  <2>7. G = [i \in 0..m + 1 |-> Among(b, s, G, i)]
    BY <2>4, <2>5, <2>6
  <2> QED
    BY <1>2, <2>7 DEF IsAmong
<1>3. Nat \subseteq T
  BY <1>1, <1>2, Induction
<1> QED
  BY <1>3

Selects(b, s, F) ==
  /\ F[0] = <<>>
  /\ \A i \in 1..Len(s) : F[i] = IF s[i].by = b THEN Append(F[i - 1], s[i]) ELSE F[i - 1]

\* The recursion of BytesOf is that of its definition, for every sequence.
LEMMA AmongIs ==
  ASSUME NEW C, NEW b, NEW s \in Seq(BytesFrom(C))
  PROVE  \E F : BytesOf(b, s) = F[Len(s)] /\ Selects(b, s, F)
<1> DEFINE among == CHOOSE F : IsAmong(b, s, F, Len(s))
<1>1. BytesOf(b, s) = among[Len(s)]
  BY DEF BytesOf, Among, IsAmong
<1>2. IsAmong(b, s, among, Len(s))
  <2>1. Len(s) \in Nat
    OBVIOUS
  <2>2. \E F : IsAmong(b, s, F, Len(s))
    BY <2>1, AmongExists
  <2> QED
    BY <2>2
<1> HIDE DEF among
<1>3. \A i \in 0..Len(s) : among[i] = Among(b, s, among, i)
  BY <1>2 DEF IsAmong
<1>4. \A i \in 1..Len(s) : among[i] = IF s[i].by = b THEN Append(among[i - 1], s[i]) ELSE among[i - 1]
  BY <1>3 DEF Among
<1>5. among[0] = <<>>
  BY <1>3 DEF Among
<1> QED
  BY <1>1, <1>4, <1>5 DEF Selects

\* A part of a sequence that is one element longer.
LEMMA OnePartMore ==
  ASSUME NEW S, NEW s \in Seq(S), NEW t \in Seq(S), NEW j \in 0..Len(t) - 1
  PROVE  Append(s \o SubSeq(t, 1, j), t[j + 1]) = s \o SubSeq(t, 1, j + 1)
<1>0. /\ j \in Nat /\ j + 1 \in 1..Len(t) /\ t[j + 1] \in S /\ SubSeq(t, 1, j) \in Seq(S)
  OBVIOUS
<1>1. SubSeq(t, 1, j + 1) = SubSeq(t, 1, (j + 1) - 1) \o <<t[j + 1]>>
  BY <1>0, SubSeqRecursiveSecond
<1>2. (j + 1) - 1 = j
  BY <1>0
<1>3. Append(SubSeq(t, 1, j), t[j + 1]) = SubSeq(t, 1, j) \o <<t[j + 1]>>
  BY <1>0, AppendIsConcat
<1>4. s \o Append(SubSeq(t, 1, j), t[j + 1]) = Append(s \o SubSeq(t, 1, j), t[j + 1])
  BY <1>0, AppendBehind
<1> QED
  BY <1>1, <1>2, <1>3, <1>4

Grown(b, s, t) == BytesOf(b, s \o t) = BytesOf(b, s) \o t

\* What calls on b add to a sequence are its bytes, and what others add are not.
LEMMA BytesGrow ==
  ASSUME NEW C, NEW b, NEW s \in Seq(BytesFrom(C)), NEW t \in Seq(BytesFrom(C))
  PROVE  /\ BytesOf(b, s) \in Seq(BytesFrom(C))
         /\ (\A i \in DOMAIN t : t[i].by = b) => Grown(b, s, t)
         /\ (\A i \in DOMAIN t : t[i].by # b) => BytesOf(b, s \o t) = BytesOf(b, s)
<1> DEFINE S == BytesFrom(C)
           u == s \o t
           L == Len(s)
<1>0. /\ u \in Seq(S) /\ L \in Nat /\ Len(t) \in Nat /\ Len(u) = L + Len(t)
      /\ DOMAIN t = 1..Len(t)
      /\ \A i \in 1..L + Len(t) : u[i] = IF i <= L THEN s[i] ELSE t[i - L]
  BY ConcatProperties
<1>1. PICK F : BytesOf(b, s) = F[L] /\ Selects(b, s, F)
  BY AmongIs
<1>2. PICK G : BytesOf(b, u) = G[Len(u)] /\ Selects(b, u, G)
  BY <1>0, AmongIs
<1>3. \A i \in 1..L : s[i] \in S
  OBVIOUS
<1>4. \A i \in 1..Len(t) : t[i] \in S
  OBVIOUS
<1> HIDE DEF S, u, L
<1>5. ASSUME NEW i \in 0..L PROVE G[i] = F[i] /\ F[i] \in Seq(S)
  <2> DEFINE T == {m \in Nat : m <= L => G[m] = F[m] /\ F[m] \in Seq(S)}
  <2>1. 0 \in T
    <3>1. <<>> \in Seq(S)
      OBVIOUS
    <3> QED
      BY <1>1, <1>2, <3>1 DEF Selects
  <2>2. ASSUME NEW m \in Nat, m \in T PROVE m + 1 \in T
    <3> SUFFICES ASSUME m + 1 <= L PROVE G[m + 1] = F[m + 1] /\ F[m + 1] \in Seq(S)
      OBVIOUS
    <3>1. G[m] = F[m] /\ F[m] \in Seq(S) /\ (m + 1) - 1 = m
          /\ m + 1 \in 1..L /\ m + 1 \in 1..Len(u) /\ u[m + 1] = s[m + 1] /\ s[m + 1] \in S
      BY <1>0, <1>3, <2>2
    <3>2. Append(F[m], s[m + 1]) \in Seq(S)
      BY <3>1, AppendProperties
    <3>3. F[m + 1] = IF s[m + 1].by = b THEN Append(F[m], s[m + 1]) ELSE F[m]
      BY <1>1, <3>1 DEF Selects, L
    <3>4. G[m + 1] = IF s[m + 1].by = b THEN Append(G[m], s[m + 1]) ELSE G[m]
      BY <1>2, <3>1 DEF Selects
    <3> QED
      BY <3>1, <3>2, <3>3, <3>4
  <2>3. Nat \subseteq T
    BY <2>1, <2>2, Induction
  <2>4. i \in Nat /\ i <= L
    BY <1>0
  <2> QED
    BY <2>3, <2>4
<1>6. L \in 0..L
  BY <1>0
<1>7. F[L] \in Seq(S) /\ G[L] = F[L]
  BY <1>5, <1>6
<1>8. ASSUME NEW m \in Nat, m + 1 <= Len(t)
      PROVE  G[L + (m + 1)] = IF t[m + 1].by = b THEN Append(G[L + m], t[m + 1]) ELSE G[L + m]
  <2>1. /\ L + (m + 1) \in 1..Len(u) /\ L + (m + 1) \in 1..L + Len(t)
        /\ (L + (m + 1)) - 1 = L + m /\ (L + (m + 1)) - L = m + 1 /\ ~(L + (m + 1) <= L)
    BY <1>0, <1>8
  <2>2. u[L + (m + 1)] = t[m + 1]
    BY <1>0, <2>1
  <2>3. \A k \in 1..Len(u) : G[k] = IF u[k].by = b THEN Append(G[k - 1], u[k]) ELSE G[k - 1]
    BY <1>2 DEF Selects
  <2> QED
    BY <2>1, <2>2, <2>3
<1>9. ASSUME \A i \in DOMAIN t : t[i].by = b PROVE G[Len(u)] = F[L] \o t
  <2> DEFINE Part(m) == F[L] \o SubSeq(t, 1, m)
  <2> DEFINE T == {m \in Nat : m <= Len(t) => G[L + m] = Part(m)}
  <2>0. t \in Seq(S)
    BY DEF S
  <2>1. Part(0) = F[L] /\ Part(Len(t)) = F[L] \o t
    <3>1. SubSeq(t, 1, 0) = <<>> /\ F[L] \o <<>> = F[L]
      BY <1>0, <1>7, SubSeqEmpty, ConcatEmptySeq
    <3> QED
      BY <2>0, <3>1, SubSeqFull
  <2>2. \A m \in 0..Len(t) - 1 : Append(Part(m), t[m + 1]) = Part(m + 1)
    BY <1>7, <2>0, OnePartMore
  <2> HIDE DEF Part
  <2>3. 0 \in T
    BY <1>0, <1>7, <2>1
  <2>4. ASSUME NEW m \in Nat, m \in T PROVE m + 1 \in T
    <3> SUFFICES ASSUME m + 1 <= Len(t) PROVE G[L + (m + 1)] = Part(m + 1)
      BY <2>4
    <3>1. /\ m + 1 \in DOMAIN t /\ m <= Len(t) /\ m \in 0..Len(t) - 1
      BY <1>0
    <3>2. G[L + m] = Part(m)
      BY <2>4, <3>1
    <3>3. G[L + (m + 1)] = Append(G[L + m], t[m + 1])
      BY <1>8, <1>9, <3>1
    <3> QED
      BY <2>2, <3>1, <3>2, <3>3
  <2>5. Nat \subseteq T
    BY <2>3, <2>4, Induction
  <2>6. Len(t) \in T /\ Len(t) <= Len(t)
    BY <1>0, <2>5
  <2>7. G[L + Len(t)] = Part(Len(t))
    BY <2>6
  <2> QED
    BY <1>0, <2>1, <2>7
<1>10. ASSUME \A i \in DOMAIN t : t[i].by # b PROVE G[Len(u)] = F[L]
  <2> DEFINE T == {m \in Nat : m <= Len(t) => G[L + m] = F[L]}
  <2>1. 0 \in T
    BY <1>0, <1>7
  <2>2. ASSUME NEW m \in Nat, m \in T PROVE m + 1 \in T
    <3> SUFFICES ASSUME m + 1 <= Len(t) PROVE G[L + (m + 1)] = F[L]
      OBVIOUS
    <3>1. m + 1 \in DOMAIN t /\ m <= Len(t)
      BY <1>0
    <3> QED
      BY <1>8, <1>10, <2>2, <3>1
  <2>3. Nat \subseteq T
    BY <2>1, <2>2, Induction
  <2> QED
    BY <1>0, <2>3
<1> QED
  BY <1>1, <1>2, <1>7, <1>9, <1>10 DEF S, u, Grown

----------------------------------------------------------------------------
(* What a write sends *)

\* The recursion of Write, with its definition unfolded.
Pieces(data, n, W) == {[w EXCEPT !.sent = SubSeq(data, 1, n) \o @] : w \in W}
Writes(data, F, n) ==
  IF n = 0 THEN {[sent |-> <<>>, ok |-> TRUE]}
  ELSE {[sent |-> <<>>, ok |-> FALSE]} \cup UNION {Pieces(data, m, F[n - m]) : m \in 1..n}
IsWritten(data, F, m) == F = [n \in 0..m |-> Writes(data, F, n)]

\* What n bytes more can send depends on what fewer than n can.
LEMMA SameWrites ==
  ASSUME NEW data, NEW F, NEW G, NEW n \in Nat, \A m \in 1..n : F[n - m] = G[n - m]
  PROVE  Writes(data, F, n) = Writes(data, G, n)
<1>1. {Pieces(data, m, F[n - m]) : m \in 1..n} = {Pieces(data, m, G[n - m]) : m \in 1..n}
  OBVIOUS
<1> QED
  BY <1>1 DEF Writes

\* There is a function that the recursion of Write defines.
LEMMA WrittenExists ==
  ASSUME NEW data
  PROVE  \A m \in Nat : \E F : IsWritten(data, F, m)
<1> DEFINE T == {m \in Nat : \E F : IsWritten(data, F, m)}
<1>1. 0 \in T
  <2> DEFINE F == [n \in 0..0 |-> Writes(data, 0, n)]
  <2>1. \A n \in 0..0 : Writes(data, F, n) = Writes(data, 0, n)
    BY DEF Writes
  <2>2. \A n \in 0..0 : F[n] = Writes(data, F, n)
    BY <2>1
  <2>3. F = [n \in 0..0 |-> F[n]]
    OBVIOUS
  <2> HIDE DEF F
  <2>4. F = [n \in 0..0 |-> Writes(data, F, n)]
    BY <2>2, <2>3
  <2> QED
    BY <2>4 DEF IsWritten
<1>2. ASSUME NEW m \in Nat, m \in T PROVE m + 1 \in T
  <2>1. PICK F : IsWritten(data, F, m)
    BY <1>2
  <2> DEFINE G == [n \in 0..m + 1 |-> IF n <= m THEN F[n] ELSE Writes(data, F, n)]
  <2>2. \A n \in 0..m : F[n] = Writes(data, F, n)
    BY <2>1 DEF IsWritten
  <2>3. \A n \in 0..m : G[n] = F[n]
    BY <1>2
  <2>4. \A n \in 0..m + 1 : G[n] = Writes(data, F, n)
    BY <1>2, <2>2
  <2>5. G = [n \in 0..m + 1 |-> G[n]]
    OBVIOUS
  <2> HIDE DEF G
  <2>6. ASSUME NEW n \in 0..m + 1 PROVE Writes(data, G, n) = Writes(data, F, n)
    <3>1. \A j \in 1..n : G[n - j] = F[n - j]
      BY <1>2, <2>3
    <3> QED
      BY <3>1, SameWrites
  <2>7. G = [n \in 0..m + 1 |-> Writes(data, G, n)]
    BY <2>4, <2>5, <2>6
  <2> QED
    BY <1>2, <2>7 DEF IsWritten
<1>3. Nat \subseteq T
  BY <1>1, <1>2, Induction
<1> QED
  BY <1>3

\* A write sends bytes of what it is given, some of them perhaps more than once.
LEMMA WriteSends ==
  ASSUME NEW S, NEW data \in Seq(S), NEW b, NEW w \in Write(b, data)
  PROVE  w \in [sent : Seq(S), ok : BOOLEAN]
<1> DEFINE W == [sent : Seq(S), ok : BOOLEAN]
           written == CHOOSE F : IsWritten(data, F, Len(data))
<1>0. Len(data) \in Nat /\ [sent |-> <<>>, ok |-> FALSE] \in W /\ [sent |-> <<>>, ok |-> TRUE] \in W
  OBVIOUS
<1>1. Write(b, data) = IF Writable(b) THEN written[Len(data)] ELSE {[sent |-> <<>>, ok |-> FALSE]}
  BY DEF Write, IsWritten, Writes, Pieces
<1>2. IsWritten(data, written, Len(data))
  <2>1. \E F : IsWritten(data, F, Len(data))
    BY <1>0, WrittenExists
  <2> QED
    BY <2>1
<1> HIDE DEF written, W
<1>3. \A n \in 0..Len(data) : written[n] = Writes(data, written, n)
  BY <1>2 DEF IsWritten
<1>4. ASSUME NEW n \in 1..Len(data), NEW V \in SUBSET W PROVE Pieces(data, n, V) \subseteq W
  <2> SUFFICES ASSUME NEW v \in V
               PROVE  [v EXCEPT !.sent = SubSeq(data, 1, n) \o @] \in W
    BY DEF Pieces
  <2>1. SubSeq(data, 1, n) \in Seq(S) /\ v \in W
    BY <1>0, SubSeqProperties
  <2>2. v.sent \in Seq(S)
    BY <2>1 DEF W
  <2>3. SubSeq(data, 1, n) \o v.sent \in Seq(S)
    BY <2>1, <2>2, ConcatProperties
  <2> QED
    BY <2>1, <2>3 DEF W
<1>5. ASSUME NEW n \in 1..Len(data), \A m \in 1..n : written[n - m] \subseteq W
      PROVE  Writes(data, written, n) \subseteq W
  <2>1. ASSUME NEW m \in 1..n PROVE Pieces(data, m, written[n - m]) \subseteq W
    BY <1>0, <1>4, <1>5
  <2> QED
    BY <1>0, <2>1 DEF Writes
<1>6. written[0] \subseteq W
  <2>1. Writes(data, written, 0) = {[sent |-> <<>>, ok |-> TRUE]}
    BY DEF Writes
  <2>2. written[0] = Writes(data, written, 0)
    BY <1>0, <1>3
  <2>3. \A r \in written[0] : r = [sent |-> <<>>, ok |-> TRUE]
    BY <2>1, <2>2
  <2> QED
    BY <1>0, <2>3
<1> DEFINE T == {m \in Nat : \A n \in 0..m : n <= Len(data) => written[n] \subseteq W}
<1>7. ASSUME NEW m \in Nat, m \in T PROVE m + 1 \in T
  <2> SUFFICES ASSUME m + 1 <= Len(data) PROVE written[m + 1] \subseteq W
    BY <1>7
  <2>1. ASSUME NEW j \in 1..m + 1 PROVE written[(m + 1) - j] \subseteq W
    <3>1. (m + 1) - j \in 0..m /\ (m + 1) - j <= Len(data)
      BY <1>0
    <3> QED
      BY <1>7, <3>1
  <2>2. m + 1 \in 1..Len(data) /\ m + 1 \in 0..Len(data)
    BY <1>0
  <2>3. Writes(data, written, m + 1) \subseteq W
    BY <1>5, <2>1, <2>2
  <2> QED
    BY <1>3, <2>2, <2>3
<1>8. Nat \subseteq T
  <2>1. 0 \in T
    BY <1>6
  <2> QED
    BY <1>7, <2>1, Induction
<1>9. written[Len(data)] \subseteq W
  <2> HIDE DEF T
  <2>1. Len(data) \in T
    BY <1>0, <1>8
  <2> QED
    BY <1>0, <2>1 DEF T
<1> QED
  BY <1>0, <1>1, <1>9 DEF W

----------------------------------------------------------------------------
(* The output calls *)

\* In a put area, no newline stays behind that came through xsputn.
Calm(s) == \A i \in DOMAIN s : ~(s[i].nl /\ s[i].bulk)

\* What an output call on b has done when it has taken the bytes g.
Kept(b, x, g) ==
  /\ x \in [put : Seq(BytesFrom({b})), made : BOOLEAN, sent : Seq(BytesFrom({b})),
            ok : BOOLEAN, whole : BOOLEAN]
  /\ x.ok /\ x.whole => x.sent \o x.put = put[b] \o g

\* flush_output keeps account of what b has accepted, and leaves nothing behind unless
\* no write is possible.
LEMMA FlushKeeps ==
  ASSUME NEW b, put[b] \in Seq(BytesFrom({b})), NEW g \in Seq(BytesFrom({b})), NEW io,
         Kept(b, io, g), io.ok, NEW x \in flush_output(b, io)
  PROVE  /\ Kept(b, x, g) /\ (x.ok => x.put = <<>>)
         /\ x.put = <<>> \/ ("NO_WRITES" \in flags[b] /\ x.put = io.put)
<1> DEFINE S == BytesFrom({b})
<1>0. /\ io \in [put : Seq(S), made : BOOLEAN, sent : Seq(S), ok : BOOLEAN, whole : BOOLEAN]
      /\ (io.whole => io.sent \o io.put = put[b] \o g)
      /\ io.put \in Seq(S) /\ io.sent \in Seq(S)
  BY DEF Kept
<1> HIDE DEF S
<1>1. CASE io.put = <<>>
  BY <1>0, <1>1 DEF flush_output, Kept, S
<1>2. CASE io.put # <<>> /\ "NO_WRITES" \in flags[b]
  BY <1>0, <1>2 DEF flush_output, Kept, S
<1>3. CASE io.put # <<>> /\ "NO_WRITES" \notin flags[b]
  <2>1. PICK w \in Write(b, io.put) :
          x = [io EXCEPT !.put = <<>>, !.sent = @ \o w.sent, !.ok = w.ok,
                         !.whole = @ /\ w.sent = io.put]
    BY <1>3 DEF flush_output
  <2>2. w.sent \in Seq(S) /\ w.ok \in BOOLEAN
    <3>1. w \in [sent : Seq(S), ok : BOOLEAN]
      BY <1>0, <2>1, WriteSends
    <3> QED
      BY <3>1
  <2>3. /\ x.put = <<>> /\ x.sent = io.sent \o w.sent /\ x.ok = w.ok /\ x.made = io.made
        /\ x.whole = (io.whole /\ w.sent = io.put)
    BY <1>0, <2>1
  <2>4. io.sent \o w.sent \in Seq(S) /\ <<>> \in Seq(S)
    BY <1>0, <2>2, ConcatProperties
  <2>5. x \in [put : Seq(S), made : BOOLEAN, sent : Seq(S), ok : BOOLEAN, whole : BOOLEAN]
    BY <1>0, <2>1, <2>2, <2>4
  <2>6. x.whole => x.sent \o x.put = put[b] \o g
    <3>1. x.sent \o <<>> = x.sent
      BY <2>3, <2>4, ConcatEmptySeq
    <3> QED
      BY <1>0, <2>3, <3>1
  <2> QED
    BY <2>3, <2>5, <2>6 DEF Kept, S
<1> QED
  BY <1>1, <1>2, <1>3

\* Putting a byte into the put area keeps it.
LEMMA InsertKeeps ==
  ASSUME NEW b, put[b] \in Seq(BytesFrom({b})), NEW g \in Seq(BytesFrom({b})), NEW io,
         Kept(b, io, g), io.ok, NEW c \in BytesFrom({b}),
         NEW x \in [put : Seq(BytesFrom({b})), made : BOOLEAN, sent : Seq(BytesFrom({b})),
                    ok : BOOLEAN, whole : BOOLEAN],
         x.put = Append(io.put, c), x.sent = io.sent, x.whole = io.whole
  PROVE  Kept(b, x, Append(g, c))
<1> DEFINE S == BytesFrom({b})
<1>0. /\ io \in [put : Seq(S), made : BOOLEAN, sent : Seq(S), ok : BOOLEAN, whole : BOOLEAN]
      /\ (io.whole => io.sent \o io.put = put[b] \o g)
      /\ io.put \in Seq(S) /\ io.sent \in Seq(S)
  BY DEF Kept
<1> HIDE DEF S
<1>1. x.whole => x.sent \o x.put = put[b] \o Append(g, c)
  <2>2. io.sent \o Append(io.put, c) = Append(io.sent \o io.put, c)
    BY <1>0, AppendBehind DEF S
  <2>3. put[b] \o Append(g, c) = Append(put[b] \o g, c)
    <3>1. put[b] \in Seq(S) /\ g \in Seq(S) /\ c \in S
      BY DEF S
    <3>2. ASSUME NEW p \in Seq(S), NEW q \in Seq(S), NEW d \in S
          PROVE  p \o Append(q, d) = Append(p \o q, d)
      BY AppendBehind
    <3> QED
      BY <3>1, <3>2
  <2> QED
    BY <1>0, <2>2, <2>3
<1> QED
  BY <1>1 DEF Kept, S

\* overflow(c) keeps account of what b has accepted, and c with it.
LEMMA OverflowKeeps ==
  ASSUME NEW b, put[b] \in Seq(BytesFrom({b})), NEW g \in Seq(BytesFrom({b})), NEW io,
         Kept(b, io, g), io.ok, Calm(io.put), NEW c \in BytesFrom({b}), NEW x \in overflow(b, io, c)
  PROVE  Kept(b, x, Append(g, c)) /\ Calm(x.put)
<1> DEFINE S == BytesFrom({b})
<1>0. /\ io \in [put : Seq(S), made : BOOLEAN, sent : Seq(S), ok : BOOLEAN, whole : BOOLEAN]
      /\ Append(g, c) \in Seq(S) /\ Calm(<<>>)
      /\ (c.nl = TRUE \/ c.nl = FALSE) /\ (c.bulk = TRUE \/ c.bulk = FALSE)
  BY DEF Kept, Calm, BytesFrom
<1>1. CASE "NO_WRITES" \in flags[b]
  <2>1. x = [io EXCEPT !.ok = FALSE]
    BY <1>1 DEF overflow
  <2>2. x.put = io.put /\ ~x.ok
        /\ x \in [put : Seq(S), made : BOOLEAN, sent : Seq(S), ok : BOOLEAN, whole : BOOLEAN]
    BY <1>0, <2>1
  <2> QED
    BY <2>2 DEF Kept
<1>2. CASE "NO_WRITES" \notin flags[b]
  <2> DEFINE insert(y) == [y EXCEPT !.put = Append(@, c), !.made = TRUE]
  <2>1. PICK y \in IF Len(io.put) >= BUFSIZ THEN flush_output(b, io) ELSE {io} :
          \/ ~y.ok /\ x = y
          \/ y.ok /\ (c.nl \/ Len(insert(y).put) >= BUFSIZ) /\ x \in flush_output(b, insert(y))
          \/ y.ok /\ ~c.nl /\ x = insert(y)
    BY <1>2 DEF overflow
  <2>2. Kept(b, y, g) /\ Calm(y.put)
    <3>1. CASE y \in flush_output(b, io)
      <4>1. Kept(b, y, g) /\ y.put = <<>>
        BY <1>2, <3>1, FlushKeeps
      <4> QED
        BY <1>0, <4>1
    <3> QED
      BY <2>1, <3>1
  <2>3. CASE ~y.ok /\ x = y
    BY <2>2, <2>3 DEF Kept
  <2>4. CASE y.ok
    <3>1. Kept(b, insert(y), Append(g, c)) /\ insert(y).put = Append(y.put, c)
          /\ insert(y).ok
      <4> DEFINE R == [put : Seq(S), made : BOOLEAN, sent : Seq(S), ok : BOOLEAN, whole : BOOLEAN]
      <4>1. y \in R /\ Append(y.put, c) \in Seq(S)
        BY <2>2 DEF Kept
      <4>2. /\ insert(y) \in R /\ insert(y).put = Append(y.put, c)
            /\ insert(y).sent = y.sent /\ insert(y).whole = y.whole /\ insert(y).ok
        BY <2>4, <4>1
      <4> HIDE DEF insert
      <4> QED
        BY <2>2, <2>4, <4>2, InsertKeeps
    <3> HIDE DEF insert
    <3>2. CASE x \in flush_output(b, insert(y))
      <4>1. Kept(b, x, Append(g, c)) /\ x.put = <<>>
        BY <1>0, <1>2, <3>1, <3>2, FlushKeeps
      <4> QED
        BY <1>0, <4>1
    <3>3. CASE ~c.nl /\ x = insert(y)
      <4>1. y.put \in Seq(S)
        BY <2>2 DEF Kept
      <4>2. Calm(Append(y.put, c))
        BY <2>2, <3>3, <4>1 DEF Calm
      <4> QED
        BY <3>1, <3>3, <4>2
    <3> QED
      BY <2>1, <2>4, <3>2, <3>3
  <2> QED
    BY <2>1, <2>3, <2>4
<1> QED
  BY <1>1, <1>2

\* sputc(c) does the same, with room in the put area or without.
LEMMA SputcKeeps ==
  ASSUME NEW b, put[b] \in Seq(BytesFrom({b})), NEW g \in Seq(BytesFrom({b})), NEW io,
         Kept(b, io, g), io.ok, Calm(io.put), NEW c \in BytesFrom({b}), ~(c.nl /\ c.bulk),
         NEW x \in sputc(b, io, c)
  PROVE  Kept(b, x, Append(g, c)) /\ Calm(x.put)
<1>1. CASE x = [io EXCEPT !.put = Append(@, c), !.ok = TRUE]
  <2>1. Kept(b, x, Append(g, c)) /\ x.put = Append(io.put, c)
    <3> DEFINE R == [put : Seq(BytesFrom({b})), made : BOOLEAN, sent : Seq(BytesFrom({b})),
                     ok : BOOLEAN, whole : BOOLEAN]
    <3>1. io \in R /\ Append(io.put, c) \in Seq(BytesFrom({b}))
      BY DEF Kept
    <3>2. /\ x \in R /\ x.put = Append(io.put, c) /\ x.sent = io.sent /\ x.whole = io.whole
      BY <1>1, <3>1
    <3> QED
      BY <3>2, InsertKeeps
  <2>2. io.put \in Seq(BytesFrom({b}))
    BY DEF Kept
  <2>3. Calm(Append(io.put, c))
    BY <2>2 DEF Calm
  <2> QED
    BY <2>1, <2>3
<1>2. CASE x \in overflow(b, io, c)
  BY <1>2, OverflowKeeps
<1> QED
  BY <1>1, <1>2 DEF sputc

\* One byte of xsputn, for every way that the bytes before it may have gone.
PutEach(b, X, c) ==
  UNION {IF ~x.ok THEN {x} ELSE IF c.nl THEN overflow(b, x, c) ELSE sputc(b, x, c) : x \in X}

\* So does xsputn for one more byte, whatever became of those before.
LEMMA PutEachKeeps ==
  ASSUME NEW b, put[b] \in Seq(BytesFrom({b})), NEW g \in Seq(BytesFrom({b})), NEW X,
         \A x \in X : Kept(b, x, g) /\ Calm(x.put), NEW c \in BytesFrom({b}),
         NEW y \in PutEach(b, X, c)
  PROVE  Kept(b, y, Append(g, c)) /\ Calm(y.put)
<1>1. PICK x \in X : y \in IF ~x.ok THEN {x}
                           ELSE IF c.nl THEN overflow(b, x, c) ELSE sputc(b, x, c)
  BY DEF PutEach
<1>2. Kept(b, x, g) /\ Calm(x.put)
  OBVIOUS
<1>3. CASE ~x.ok
  BY <1>1, <1>2, <1>3 DEF Kept
<1>4. CASE x.ok /\ c.nl
  BY <1>1, <1>2, <1>4, OverflowKeeps
<1>5. CASE x.ok /\ ~c.nl
  BY <1>1, <1>2, <1>5, SputcKeeps
<1> QED
  BY <1>3, <1>4, <1>5

\* So does xsputn for a string of two bytes.
LEMMA XsputnKeeps ==
  ASSUME NEW b, put[b] \in Seq(BytesFrom({b})), NEW io, Kept(b, io, <<>>), Calm(io.put),
         NEW c \in BytesFrom({b}), NEW d \in BytesFrom({b}), NEW y \in xsputn(b, io, <<c, d>>)
  PROVE  Kept(b, y, <<c, d>>) /\ Calm(y.put)
<1> DEFINE s == <<c, d>>
           Y == PutEach(b, {io}, c)
           Z == PutEach(b, Y, d)
           after == CHOOSE f : f = [i \in 0..Len(s) |-> IF i = 0 THEN {io} ELSE PutEach(b, f[i - 1], s[i])]
           F == [i \in 0..2 |-> IF i = 0 THEN {io} ELSE IF i = 1 THEN Y ELSE Z]
<1>1. xsputn(b, io, s) = after[Len(s)]
  BY DEF xsputn, PutEach
<1>2. Len(s) = 2 /\ s[1] = c /\ s[2] = d
  OBVIOUS
<1> HIDE DEF s, Y, Z
<1>3. after[2] = Z
  <2>1. \A i \in 0..2 : F[i] = IF i = 0 THEN {io} ELSE PutEach(b, F[i - 1], s[i])
    BY <1>2 DEF Y, Z
  <2>2. F = [i \in 0..2 |-> F[i]]
    OBVIOUS
  <2> HIDE DEF F
  <2>3. F = [i \in 0..Len(s) |-> IF i = 0 THEN {io} ELSE PutEach(b, F[i - 1], s[i])]
    BY <1>2, <2>1, <2>2
  <2>4. after = [i \in 0..Len(s) |-> IF i = 0 THEN {io} ELSE PutEach(b, after[i - 1], s[i])]
    BY <2>3
  <2> HIDE DEF after
  <2>5. \A i \in 0..2 : after[i] = IF i = 0 THEN {io} ELSE PutEach(b, after[i - 1], s[i])
    BY <1>2, <2>4
  <2>6. after[0] = {io} /\ after[1] = PutEach(b, after[0], s[1])
        /\ after[2] = PutEach(b, after[1], s[2])
    BY <2>5
  <2> QED
    BY <1>2, <2>6 DEF Y, Z
<1>4. \A x \in Y : Kept(b, x, Append(<<>>, c)) /\ Calm(x.put)
  <2>1. <<>> \in Seq(BytesFrom({b})) /\ \A x \in {io} : Kept(b, x, <<>>) /\ Calm(x.put)
    OBVIOUS
  <2> QED
    BY <2>1, PutEachKeeps DEF Y
<1>5. Append(<<>>, c) \in Seq(BytesFrom({b})) /\ Append(Append(<<>>, c), d) = <<c, d>>
  <2>1. Append(<<>>, c) = <<c>> /\ <<c>> \in Seq(BytesFrom({b}))
    OBVIOUS
  <2>2. Append(<<c>>, d) = <<c, d>>
    <3> DEFINE S == BytesFrom({b})
               t == Append(<<c>>, d)
               u == <<c, d>>
    <3>1. <<c>> \in Seq(S) /\ Len(<<c>>) = 1 /\ <<c>>[1] = c
      OBVIOUS
    <3>2. t \in Seq(S) /\ Len(t) = 2 /\ t[1] = c /\ t[2] = d
      BY <3>1, AppendProperties
    <3>3. u \in Seq(S) /\ Len(u) = 2 /\ u[1] = c /\ u[2] = d
      OBVIOUS
    <3> HIDE DEF t, u
    <3>4. \A i \in 1..Len(t) : t[i] = u[i]
      BY <3>2, <3>3
    <3>5. t = u
      BY <3>2, <3>3, <3>4, SeqEqual
    <3> QED
      BY <3>5 DEF t, u
  <2> QED
    BY <2>1, <2>2
<1>6. y \in Z
  BY <1>1, <1>2, <1>3 DEF s
<1> QED
  BY <1>4, <1>5, <1>6, PutEachKeeps DEF Z

----------------------------------------------------------------------------
(* What is accepted is on the wire or in the put area *)

\* A name that is not in use has written nothing, and what is on a wire is of
\* the buffers on that socket.
SentType ==
  /\ DOMAIN put = Bufs /\ DOMAIN acc = Bufs
  /\ \A b \in Bufs : put[b] \in Seq(BytesFrom({b})) /\ acc[b] \in Seq(BytesFrom({b}))
  /\ \A b \in Bufs : rep[b] = None => put[b] = <<>> /\ acc[b] = <<>>
  /\ wire \in [Reps -> Seq(BytesFrom(Bufs))]
  /\ \A r \in Reps : \A i \in DOMAIN wire[r] : rep[wire[r][i].by] = r

Accounted ==
  \A b \in Bufs \ (failed \cup garbled) : rep[b] # None =>
    BytesOf(b, wire[rep[b]]) \o put[b] = acc[b]

SentInv == SentType /\ Accounted /\ \A b \in Bufs : Calm(put[b])

\* No bytes of b are in a sequence that has none.
LEMMA NoBytes ==
  ASSUME NEW C, NEW b, NEW s \in Seq(BytesFrom(C)), \A i \in DOMAIN s : s[i].by # b
  PROVE  BytesOf(b, s) = <<>>
<1>1. <<>> \in Seq(BytesFrom(C)) /\ Len(<<>>) = 0
  OBVIOUS
<1>2. BytesOf(b, <<>>) = <<>>
  <2>1. PICK F : BytesOf(b, <<>>) = F[Len(<<>>)] /\ Selects(b, <<>>, F)
    BY <1>1, AmongIs
  <2> QED
    BY <1>1, <2>1 DEF Selects
<1>3. BytesOf(b, <<>> \o s) = BytesOf(b, <<>>)
  <2> DEFINE e == <<>>
  <2>1. e \in Seq(BytesFrom(C))
    OBVIOUS
  <2> HIDE DEF e
  <2>2. BytesOf(b, e \o s) = BytesOf(b, e)
    BY <2>1, BytesGrow
  <2> QED
    BY <2>2 DEF e
<1>4. <<>> \o s = s
  BY ConcatEmptySeq
<1> QED
  BY <1>2, <1>3, <1>4

\* Before the first call nothing has been accepted.
LEMMA InitSent == SockInit => SentInv
<1> SUFFICES ASSUME SockInit PROVE SentInv
  OBVIOUS
<1>1. SentType
  BY DEF SockInit, SentType
<1>2. Accounted
  BY DEF SockInit, Accounted
<1>3. \A b \in Bufs : Calm(put[b])
  BY DEF SockInit, Calm
<1> QED
  BY <1>1, <1>2, <1>3 DEF SentInv

\* A step that writes nothing and gives no buffer another socket.
LEMMA QuietSent ==
  ASSUME LifeInv, SentInv, UNCHANGED out, rep' \in [Bufs -> Reps \cup {None}],
         \A b \in Bufs : rep[b] # None => rep'[b] = rep[b]
  PROVE  SentInv'
<1>1. UNCHANGED <<put, wire, acc, failed, garbled>>
  BY DEF out
<1>2. ASSUME NEW r \in Reps, NEW i \in DOMAIN wire[r]
      PROVE  wire[r][i].by \in Bufs /\ rep[wire[r][i].by] = r /\ r # None
  <2>1. wire[r] \in Seq(BytesFrom(Bufs))
    BY DEF SentInv, SentType
  <2>2. wire[r][i] \in BytesFrom(Bufs)
    BY <2>1
  <2> QED
    BY <2>2, SockAssumption DEF BytesFrom, SentInv, SentType
<1>3. SentType'
  <2>1. \A r \in Reps : \A i \in DOMAIN wire[r] : rep'[wire[r][i].by] = r
    BY <1>2
  <2>2. \A b \in Bufs : rep'[b] = None => put[b] = <<>> /\ acc[b] = <<>>
    BY DEF SentInv, SentType
  <2> QED
    BY <1>1, <2>1, <2>2 DEF SentInv, SentType
<1>4. Accounted'
  <2> SUFFICES ASSUME NEW b \in Bufs \ (failed \cup garbled), rep'[b] # None
               PROVE  BytesOf(b, wire[rep'[b]]) \o put[b] = acc[b]
    BY <1>1 DEF Accounted
  <2>1. CASE rep[b] # None
    BY <2>1 DEF SentInv, Accounted
  <2>2. CASE rep[b] = None
    <3>1. rep'[b] \in Reps /\ put[b] = <<>> /\ acc[b] = <<>>
      BY <2>2 DEF SentInv, SentType
    <3>2. wire[rep'[b]] \in Seq(BytesFrom(Bufs))
      BY <3>1 DEF SentInv, SentType
    <3>3. \A i \in DOMAIN wire[rep'[b]] : wire[rep'[b]][i].by # b
      BY <1>2, <2>2, <3>1
    <3>4. BytesOf(b, wire[rep'[b]]) = <<>>
      BY <3>2, <3>3, NoBytes
    <3> QED
      BY <3>1, <3>4
  <2> QED
    BY <2>1, <2>2
<1>5. \A b \in Bufs : Calm(put'[b])
  BY <1>1 DEF SentInv
<1> QED
  BY <1>3, <1>4, <1>5 DEF SentInv

\* An output call on b that has taken the bytes g, with the outcome x; z is what
\* it leaves in the put area, and a what b has accepted.
LEMMA EmitSent ==
  ASSUME LifeInv, SentInv, NEW b \in live, NEW g \in Seq(BytesFrom({b})),
         NEW x, Kept(b, x, g), Outcome(b, x),
         NEW z \in Seq(BytesFrom({b})), Calm(z), x.ok => z = x.put,
         NEW a \in Seq(BytesFrom({b})), x.ok => a = acc[b] \o g,
         put' = [put EXCEPT ![b] = z], DOMAIN acc' = Bufs, acc'[b] = a,
         \A d \in Bufs \ {b} : acc'[d] = acc[d],
         wire' = [wire EXCEPT ![rep[b]] = @ \o x.sent], rep' = rep
  PROVE  SentInv'
<1> DEFINE r == rep[b]
           S == BytesFrom({b})
           B == BytesFrom(Bufs)
<1>0. b \in Bufs /\ r \in Reps /\ r # None /\ \A d \in Bufs : rep[d] \in Reps \cup {None}
  BY SockAssumption DEF LifeInv, LifeType
<1>1. /\ x.sent \in Seq(S) /\ x.put \in Seq(S) /\ x.ok \in BOOLEAN /\ x.whole \in BOOLEAN
      /\ (x.ok /\ x.whole => x.sent \o x.put = put[b] \o g)
  BY DEF Kept
<1>2. \A e \in S : e \in B /\ e.by = b
  BY <1>0 DEF BytesFrom
<1>3. /\ put[b] \in Seq(S) /\ acc[b] \in Seq(S) /\ wire[r] \in Seq(B)
      /\ \A d \in Bufs : d # b => put'[d] = put[d] /\ acc'[d] = acc[d]
      /\ put'[b] = z /\ acc'[b] = a
  BY <1>0 DEF SentInv, SentType
<1> HIDE DEF S, B
<1>4. x.sent \in Seq(B) /\ \A i \in DOMAIN x.sent : x.sent[i].by = b
  <2>1. DOMAIN x.sent = 1..Len(x.sent) /\ \A i \in 1..Len(x.sent) : x.sent[i] \in S
    BY <1>1
  <2>2. x.sent \in Seq(B)
    BY <1>1, <1>2, SeqMonotonic
  <2> QED
    BY <1>2, <2>1, <2>2
<1>5. wire'[r] = wire[r] \o x.sent /\ \A q \in Reps : q # r => wire'[q] = wire[q]
  BY <1>0 DEF SentInv, SentType
<1>6. SentType'
  <2>1. wire[r] \o x.sent \in Seq(B)
    BY <1>3, <1>4, ConcatProperties
  <2>2. wire' \in [Reps -> Seq(B)]
    BY <2>1 DEF B, SentInv, SentType
  <2>3. ASSUME NEW q \in Reps, NEW i \in DOMAIN wire'[q] PROVE rep[wire'[q][i].by] = q
    <3>1. CASE q # r
      BY <1>5, <2>3, <3>1 DEF SentInv, SentType
    <3>2. CASE q = r
      <4> DEFINE w == wire[r]
                 t == x.sent
      <4>1. w \in Seq(B) /\ t \in Seq(B) /\ i \in DOMAIN (w \o t)
        BY <1>3, <1>4, <1>5, <2>3, <3>2
      <4> HIDE DEF w, t
      <4>2. (w \o t)[i] = IF i <= Len(w) THEN w[i] ELSE t[i - Len(w)]
        BY <4>1, ConcatProperties
      <4>3. (i <= Len(w) /\ i \in DOMAIN w) \/ (i > Len(w) /\ i - Len(w) \in DOMAIN t)
        BY <4>1
      <4>4. (\E j \in DOMAIN w : (w \o t)[i] = w[j]) \/ (\E j \in DOMAIN t : (w \o t)[i] = t[j])
        BY <4>1, <4>2, <4>3
      <4>5. \A j \in DOMAIN w : rep[w[j].by] = r
        BY <1>0 DEF w, SentInv, SentType
      <4>6. \A j \in DOMAIN t : rep[t[j].by] = r
        BY <1>4 DEF t
      <4>7. rep[(w \o t)[i].by] = r
        BY <4>4, <4>5, <4>6
      <4> QED
        BY <1>5, <3>2, <4>7 DEF w, t
    <3> QED
      BY <3>1, <3>2
  <2>4. \A d \in Bufs : put'[d] \in Seq(BytesFrom({d})) /\ acc'[d] \in Seq(BytesFrom({d}))
    BY <1>3 DEF SentInv, SentType
  <2>5. \A d \in Bufs : rep[d] = None => put'[d] = <<>> /\ acc'[d] = <<>>
    BY <1>0, <1>3 DEF SentInv, SentType
  <2>6. DOMAIN put' = Bufs /\ DOMAIN acc' = Bufs
    BY DEF SentInv, SentType
  <2> QED
    BY <2>2, <2>3, <2>4, <2>5, <2>6 DEF SentType, B
<1>7. Accounted'
  <2> SUFFICES ASSUME NEW d \in Bufs, d \notin failed', d \notin garbled', rep[d] # None
               PROVE  BytesOf(d, wire'[rep[d]]) \o put'[d] = acc'[d]
    BY DEF Accounted
  <2>0. d \notin failed /\ d \notin garbled
    BY DEF Outcome
  <2>1. BytesOf(d, wire[rep[d]]) \o put[d] = acc[d]
    BY <2>0 DEF SentInv, Accounted
  <2>2. CASE d = b
    <3> DEFINE y == BytesOf(b, wire[r])
    <3>1. x.ok /\ x.whole
      BY <1>1, <2>2 DEF Outcome
    <3>2. BytesOf(b, wire[r] \o x.sent) = y \o x.sent
      <4>1. ASSUME NEW s \in Seq(BytesFrom(Bufs)), NEW t \in Seq(BytesFrom(Bufs)),
                   \A i \in DOMAIN t : t[i].by = b
            PROVE  Grown(b, s, t)
        BY <4>1, BytesGrow
      <4> QED
        BY <1>3, <1>4, <4>1 DEF B, Grown
    <3>3. y \o put[b] = acc[b]
      BY <2>1, <2>2
    <3>4. y \in Seq(B)
      BY <1>3, <1>4, BytesGrow DEF B
    <3> HIDE DEF y
    <3>5. \A s \in Seq(S) : s \in Seq(B)
      BY <1>2, SeqMonotonic
    <3>6. (y \o x.sent) \o x.put = acc[b] \o g
      <4> DEFINE s1 == x.sent
                 s2 == x.put
                 s3 == put[b]
      <4>1. s1 \in Seq(B) /\ s2 \in Seq(B) /\ s3 \in Seq(B) /\ g \in Seq(B)
        BY <1>1, <1>3, <3>5 DEF S
      <4>2. s1 \o s2 = s3 \o g /\ y \o s3 = acc[b]
        BY <1>1, <3>1, <3>3
      <4> HIDE DEF s1, s2, s3
      <4>3. ASSUME NEW t1 \in Seq(B), NEW t2 \in Seq(B), NEW t3 \in Seq(B)
            PROVE  (t1 \o t2) \o t3 = t1 \o (t2 \o t3)
        BY Associative
      <4>4. (y \o s1) \o s2 = y \o (s1 \o s2) /\ (y \o s3) \o g = y \o (s3 \o g)
        BY <3>4, <4>1, <4>3
      <4> QED
        BY <4>2, <4>4 DEF s1, s2
    <3> QED
      BY <1>3, <1>5, <2>2, <3>1, <3>2, <3>6
  <2>3. CASE d # b /\ rep[d] = r
    <3>1. BytesOf(d, wire[r] \o x.sent) = BytesOf(d, wire[r])
      <4>1. ASSUME NEW s \in Seq(BytesFrom(Bufs)), NEW t \in Seq(BytesFrom(Bufs)),
                   \A i \in DOMAIN t : t[i].by # d
            PROVE  BytesOf(d, s \o t) = BytesOf(d, s)
        BY <4>1, BytesGrow
      <4> QED
        BY <1>3, <1>4, <2>3, <4>1 DEF B
    <3> QED
      BY <1>3, <1>5, <2>1, <2>3, <3>1
  <2>4. CASE d # b /\ rep[d] # r
    BY <1>0, <1>3, <1>5, <2>1, <2>4
  <2> QED
    BY <2>2, <2>3, <2>4
<1>8. \A d \in Bufs : Calm(put'[d])
  BY <1>3 DEF SentInv
<1> QED
  BY <1>6, <1>7, <1>8 DEF SentInv

\* An output call begins with nothing taken and nothing sent.
LEMMA StartKeeps ==
  ASSUME SentInv, NEW b \in Bufs
  PROVE  /\ Kept(b, Start(b), <<>>) /\ Start(b).ok /\ Calm(Start(b).put)
         /\ put[b] \in Seq(BytesFrom({b})) /\ acc[b] \in Seq(BytesFrom({b}))
<1>1. put[b] \in Seq(BytesFrom({b})) /\ acc[b] \in Seq(BytesFrom({b})) /\ Calm(put[b])
  BY DEF SentInv, SentType
<1>2. /\ Start(b).put = put[b] /\ Start(b).sent = <<>> /\ Start(b).ok = TRUE
      /\ Start(b) \in [put : Seq(BytesFrom({b})), made : BOOLEAN, sent : Seq(BytesFrom({b})),
                       ok : BOOLEAN, whole : BOOLEAN]
  BY <1>1 DEF Start
<1>3. <<>> \o put[b] = put[b] \o <<>>
  BY <1>1, ConcatEmptySeq
<1> QED
  BY <1>1, <1>2, <1>3 DEF Kept

\* Emit leaves in the put area what the call has left there.
LEMMA EmitStep ==
  ASSUME LifeInv, SentInv, NEW b \in live, NEW g \in Seq(BytesFrom({b})),
         NEW x, Kept(b, x, g), Calm(x.put), Emit(b, x, g), rep' = rep
  PROVE  SentInv'
<1>1. b \in Bufs
  BY DEF LifeInv, LifeType
<1>2. acc[b] \in Seq(BytesFrom({b})) /\ x.put \in Seq(BytesFrom({b})) /\ DOMAIN acc = Bufs
  BY <1>1, StartKeeps DEF Kept, SentInv, SentType
<1> DEFINE a == IF x.ok THEN acc[b] \o g ELSE acc[b]
<1>3. a \in Seq(BytesFrom({b})) /\ (x.ok => a = acc[b] \o g)
  BY <1>2, ConcatProperties
<1>4. DOMAIN acc' = Bufs /\ acc'[b] = a /\ \A d \in Bufs \ {b} : acc'[d] = acc[d]
  <2>1. CASE x.ok
    BY <1>1, <1>2, <2>1 DEF Emit
  <2>2. CASE ~x.ok
    BY <1>1, <1>2, <2>2 DEF Emit
  <2> QED
    BY <2>1, <2>2
<1> HIDE DEF a
<1>5. put' = [put EXCEPT ![b] = x.put] /\ wire' = [wire EXCEPT ![rep[b]] = @ \o x.sent]
      /\ Outcome(b, x)
  BY DEF Emit
<1> QED
  BY <1>2, <1>3, <1>4, <1>5, EmitSent

\* A byte that the program writes is a byte of that sockbuf.
LEMMA ByteType ==
  ASSUME SentInv, NEW b \in Bufs, NEW n \in Nat, NEW nl \in BOOLEAN, NEW bulk \in BOOLEAN
  PROVE  /\ Byte(b, n, nl, bulk) \in BytesFrom({b})
         /\ Byte(b, n, nl, bulk).nl = nl /\ Byte(b, n, nl, bulk).bulk = bulk
<1>1. Len(acc[b]) \in Nat
  BY StartKeeps
<1> QED
  BY <1>1 DEF Byte, BytesFrom

\* Every call keeps account of the bytes of the program.
LEMMA NextSent == LifeInv /\ SentInv /\ [SockNext]_skvars => SentInv'
<1> SUFFICES ASSUME LifeInv, SentInv, [SockNext]_skvars PROVE SentInv'
  OBVIOUS
<1>0. rep \in [Bufs -> Reps \cup {None}]
  BY DEF LifeInv, LifeType
<1>1. CASE UNCHANGED <<out, rep>>
  BY <1>0, <1>1, QuietSent
<1>2. ASSUME NEW b \in Bufs, Call(b) PROVE SentInv'
  <2>1. ASSUME NEW nl \in BOOLEAN, Sputc(b, nl) PROVE SentInv'
    <3> DEFINE c == Byte(b, 1, nl, FALSE)
    <3>1. PICK x \in sputc(b, Start(b), c) : Emit(b, x, <<c>>)
      BY <2>1 DEF Sputc
    <3>2. b \in live /\ rep' = rep
      BY <2>1 DEF Sputc, life
    <3>3. c \in BytesFrom({b}) /\ ~(c.nl /\ c.bulk)
      BY ByteType
    <3> HIDE DEF c
    <3>4. Kept(b, Start(b), <<>>) /\ Start(b).ok /\ Calm(Start(b).put)
          /\ put[b] \in Seq(BytesFrom({b}))
      BY StartKeeps
    <3>5. Kept(b, x, Append(<<>>, c)) /\ Calm(x.put)
      <4>1. <<>> \in Seq(BytesFrom({b}))
        OBVIOUS
      <4> QED
        BY <3>3, <3>4, <4>1, SputcKeeps
    <3>6. Append(<<>>, c) = <<c>> /\ <<c>> \in Seq(BytesFrom({b}))
      BY <3>3
    <3>7. Kept(b, x, <<c>>)
      BY <3>5, <3>6
    <3> QED
      BY <3>1, <3>2, <3>5, <3>6, <3>7, EmitStep
  <2>2. CASE Xsputn(b)
    <3> DEFINE c == Byte(b, 1, FALSE, TRUE)
               d == Byte(b, 2, TRUE, TRUE)
    <3>1. PICK x \in xsputn(b, Start(b), <<c, d>>) : Emit(b, x, <<c, d>>)
      BY <2>2 DEF Xsputn
    <3>2. b \in live /\ rep' = rep
      BY <2>2 DEF Xsputn, life
    <3>3. c \in BytesFrom({b}) /\ d \in BytesFrom({b})
      BY ByteType
    <3> HIDE DEF c, d
    <3>4. Kept(b, Start(b), <<>>) /\ Calm(Start(b).put) /\ put[b] \in Seq(BytesFrom({b}))
      BY StartKeeps
    <3>5. Kept(b, x, <<c, d>>) /\ Calm(x.put)
      BY <3>3, <3>4, XsputnKeeps
    <3>6. <<c, d>> \in Seq(BytesFrom({b}))
      BY <3>3
    <3> QED
      BY <3>1, <3>2, <3>5, <3>6, EmitStep
  <2>3. ASSUME b \in live, NEW x \in flush_output(b, Start(b))
        PROVE  Kept(b, x, <<>>) /\ Calm(x.put) /\ (x.ok => x.put = <<>>)
    <3>1. Kept(b, Start(b), <<>>) /\ Start(b).ok /\ Calm(Start(b).put)
          /\ put[b] \in Seq(BytesFrom({b}))
      BY StartKeeps
    <3>2. Kept(b, x, <<>>) /\ (x.ok => x.put = <<>>) /\ (x.put = <<>> \/ x.put = Start(b).put)
      <4>1. <<>> \in Seq(BytesFrom({b}))
        OBVIOUS
      <4> QED
        BY <2>3, <3>1, <4>1, FlushKeeps
    <3>3. Calm(<<>>)
      BY DEF Calm
    <3> QED
      BY <3>1, <3>2, <3>3
  <2>4. CASE sync(b)
    <3>1. PICK x \in flush_output(b, Start(b)) : Emit(b, x, <<>>)
      BY <2>4 DEF sync
    <3>2. b \in live /\ rep' = rep /\ <<>> \in Seq(BytesFrom({b}))
      BY <2>4 DEF sync, life
    <3>3. Kept(b, x, <<>>) /\ Calm(x.put)
      BY <2>3, <3>2
    <3> QED
      BY <3>1, <3>2, <3>3, EmitStep
  <2>5. CASE Destroy(b)
    <3>1. PICK x \in flush_output(b, Start(b)) :
            wire' = [wire EXCEPT ![rep[b]] = @ \o x.sent] /\ Outcome(b, x)
      BY <2>5 DEF Destroy
    <3>2. b \in live /\ rep' = rep /\ acc' = acc /\ put' = [put EXCEPT ![b] = <<>>]
          /\ <<>> \in Seq(BytesFrom({b})) /\ Calm(<<>>)
      BY <2>5 DEF Destroy, Release, Calm
    <3>3. Kept(b, x, <<>>) /\ (x.ok => <<>> = x.put)
      BY <2>3, <3>2
    <3>4. acc[b] \in Seq(BytesFrom({b})) /\ acc[b] = acc[b] \o <<>>
      BY StartKeeps, ConcatEmptySeq
    <3>5. DOMAIN acc' = Bufs /\ acc'[b] = acc[b] /\ \A d \in Bufs \ {b} : acc'[d] = acc[d]
      BY <3>2 DEF SentInv, SentType
    <3> QED
      BY <3>1, <3>2, <3>3, <3>4, <3>5, EmitSent
  <2>6. ASSUME NEW st \in {"fresh", "connected", "dead"}, Own(b, st) PROVE SentInv'
    <3> DEFINE r == CHOOSE q \in FreeReps : TRUE
    <3>1. r \in Reps /\ rep[b] = None
      BY <2>6 DEF Own, FreeReps, Unused
    <3>2. rep' = [rep EXCEPT ![b] = r] /\ UNCHANGED out
      BY <2>6 DEF Own
    <3> HIDE DEF r
    <3> QED
      BY <1>0, <3>1, <3>2, QuietSent
  <2>7. CASE Construct(b) \/ \E from \in Bufs : accept(b, from)
    BY <2>6, <2>7 DEF Construct, accept
  <2>8. CASE \E from \in Bufs : (b \notin Streams /\ Copy(b, from)) \/ iosockstream(b, from)
    <3>1. PICK from \in Bufs : Copy(b, from)
      BY <2>8 DEF iosockstream
    <3>2. rep[b] = None /\ rep[from] \in Reps /\ rep' = [rep EXCEPT ![b] = rep[from]]
          /\ UNCHANGED out
      BY <3>1 DEF Copy, Unused, LifeInv, LifeType
    <3> QED
      BY <1>0, <3>2, QuietSent
  <2>9. CASE \/ Sbumpc(b) \/ recvtimeout(b) \/ xsetflags(b) \/ close(b)
             \/ \E st \in {"connected", "listening"} : Establish(b, st)
             \/ \E how \in SUBSET {"NO_READS", "NO_WRITES"} \ {{}} : shutdown(b, how)
    BY <1>1, <2>9 DEF Sbumpc, recvtimeout, xsetflags, close, Establish, shutdown, life
  <2> QED
    BY <1>2, <2>1, <2>2, <2>4, <2>5, <2>7, <2>8, <2>9 DEF Call
<1>3. ASSUME NEW r \in Reps, PeerSends(r) \/ PeerCloses(r) PROVE SentInv'
  BY <1>1, <1>3 DEF PeerSends, PeerCloses, life
<1>4. CASE UNCHANGED skvars
  BY <1>1, <1>4 DEF skvars, out
<1> QED
  BY <1>2, <1>3, <1>4 DEF SockNext

\* The account of the bytes of the program, in every state.
LEMMA SentInvariant == SockSpec => [](LifeInv /\ SentInv)
<1>1. LifeInv /\ SentInv /\ [SockNext]_skvars => (LifeInv /\ SentInv)'
  BY NextLife, NextSent
<1> QED
  BY <1>1, InitLife, InitSent, PTL DEF SockSpec

\* Until an output call on a buffer returns EOF, or a write goes out in parts, all
\* that the buffer has accepted is on the wire or in its put area, once and in
\* order, whatever its copies write to the socket (sockbuf::overflow, flush_output,
\* xsputn, sync and ~sockbuf).
THEOREM NothingIsLost == SockSpec => []NothingLost
<1>1. SentInv => NothingLost
  BY DEF SentInv, Accounted, NothingLost
<1> QED
  BY <1>1, SentInvariant, PTL

\* A newline that came through xsputn never waits in the put area
\* (sockbuf::xsputn, overflow).
THEOREM NoLineWaits == SockSpec => []LinesGoOut
<1>1. SentInv => LinesGoOut
  BY DEF SentInv, Calm, LinesGoOut
<1> QED
  BY <1>1, SentInvariant, PTL

----------------------------------------------------------------------------
(* The texts that the smtp client sends                                    *)

Chars == {"x", ".", "nl"}
Texts == Seq(Chars)
\* Lines of a text: there is at least one, if only an empty one.
LinesOf == {l \in Seq(Texts) : l # <<>>}

LinesStep(F, s, k) == IF k = 0 THEN << <<>> >> ELSE With(F[k - 1], s[k])
IsLines(F, s, n) == F = [k \in 0..n |-> LinesStep(F, s, k)]

\* There is a function that the recursion of Lines defines.
LEMMA LinesExist ==
  ASSUME NEW s
  PROVE  \A n \in Nat : \E F : IsLines(F, s, n)
<1> DEFINE T == {n \in Nat : \E F : IsLines(F, s, n)}
<1>1. 0 \in T
  <2> DEFINE F == [k \in 0..0 |-> << <<>> >>]
  <2>1. F = [k \in 0..0 |-> LinesStep(F, s, k)]
    BY DEF LinesStep
  <2> QED
    BY <2>1 DEF IsLines
<1>2. ASSUME NEW n \in Nat, n \in T PROVE n + 1 \in T
  <2>1. PICK F : IsLines(F, s, n)
    BY <1>2
  <2> DEFINE G == [k \in 0..(n + 1) |-> IF k <= n THEN F[k] ELSE LinesStep(F, s, k)]
  <2>2. \A k \in 0..n : F[k] = LinesStep(F, s, k) /\ G[k] = F[k]
    BY <2>1 DEF IsLines
  <2>3. \A k \in 0..(n + 1) : G[k] = LinesStep(F, s, k)
    <3>1. \A k \in 0..(n + 1) : k \in 0..n \/ k = n + 1
      OBVIOUS
    <3>2. G[n + 1] = LinesStep(F, s, n + 1)
      OBVIOUS
    <3> QED
      BY <2>2, <3>1, <3>2
  <2>4. \A k \in 0..(n + 1) : LinesStep(G, s, k) = LinesStep(F, s, k)
    <3> HIDE DEF G
    <3>1. \A k \in 1..(n + 1) : G[k - 1] = F[k - 1]
      BY <2>2
    <3> QED
      BY <3>1 DEF LinesStep
  <2>5. G = [k \in 0..(n + 1) |-> G[k]]
    OBVIOUS
  <2> HIDE DEF G
  <2>6. IsLines(G, s, n + 1)
    BY <2>3, <2>4, <2>5 DEF IsLines
  <2> QED
    BY <2>6
<1>3. Nat \subseteq T
  BY <1>1, <1>2, Induction
<1> QED
  BY <1>3

\* Lines goes over a text character by character.
LEMMA LinesSteps ==
  ASSUME NEW s, Len(s) \in Nat
  PROVE  \E F : /\ Lines(s) = F[Len(s)] /\ F[0] = << <<>> >>
                /\ \A k \in 1..Len(s) : F[k] = With(F[k - 1], s[k])
<1> DEFINE l == CHOOSE F : IsLines(F, s, Len(s))
<1>1. Lines(s) = l[Len(s)]
  BY DEF Lines, IsLines, LinesStep
<1>2. IsLines(l, s, Len(s))
  BY LinesExist
<1> HIDE DEF l
<1>3. \A k \in 0..Len(s) : l[k] = LinesStep(l, s, k)
  BY <1>2 DEF IsLines
<1>4. l[0] = << <<>> >> /\ \A k \in 1..Len(s) : l[k] = With(l[k - 1], s[k])
  BY <1>3 DEF LinesStep
<1> QED
  BY <1>1, <1>4

\* One character more.
LEMMA WithType ==
  ASSUME NEW l \in LinesOf, NEW c \in Chars
  PROVE  /\ With(l, c) \in LinesOf /\ Len(l) \in Nat \ {0}
         /\ c = "nl" => /\ Len(With(l, c)) = Len(l) + 1 /\ With(l, c)[Len(l) + 1] = <<>>
                        /\ \A i \in 1..Len(l) : With(l, c)[i] = l[i]
         /\ c # "nl" => /\ Len(With(l, c)) = Len(l)
                        /\ With(l, c)[Len(l)] = Append(l[Len(l)], c)
                        /\ \A i \in 1..(Len(l) - 1) : With(l, c)[i] = l[i]
<1>1. l \in Seq(Texts) /\ Len(l) \in Nat \ {0} /\ Len(l) \in 1..Len(l)
  BY DEF LinesOf
<1>2. CASE c = "nl"
  <2>1. With(l, c) = Append(l, <<>>) /\ <<>> \in Texts
    BY <1>2 DEF With, Texts
  <2> QED
    BY <1>1, <1>2, <2>1 DEF LinesOf
<1>3. CASE c # "nl"
  <2>1. l[Len(l)] \in Texts
    BY <1>1
  <2>2. Append(l[Len(l)], c) \in Texts
    BY <2>1 DEF Texts
  <2> DEFINE a == Append(l[Len(l)], c)
             m == [l EXCEPT ![Len(l)] = a]
  <2>3. With(l, c) = m
    BY <1>3 DEF With
  <2> HIDE DEF a
  <2>4. m \in Seq(Texts) /\ Len(m) = Len(l) /\ m[Len(l)] = a /\ \A i \in 1..(Len(l) - 1) : m[i] = l[i]
    BY <1>1, <2>2 DEF a
  <2> HIDE DEF m
  <2>5. m # <<>>
    BY <1>1, <2>4
  <2> QED
    BY <1>1, <1>3, <2>3, <2>4, <2>5 DEF LinesOf, a
<1> QED
  BY <1>2, <1>3

\* The lines of a text that is one character longer.
LEMMA LinesAppend ==
  ASSUME NEW s \in Texts, NEW c \in Chars
  PROVE  Lines(Append(s, c)) = With(Lines(s), c)
<1> DEFINE t == Append(s, c)
           n == Len(s)
<1>1. /\ n \in Nat /\ Len(t) = n + 1 /\ t[n + 1] = c /\ \A k \in 1..n : t[k] = s[k]
  BY DEF Texts
<1>2. PICK F : /\ Lines(s) = F[n] /\ F[0] = << <<>> >>
               /\ \A k \in 1..n : F[k] = With(F[k - 1], s[k])
  BY <1>1, LinesSteps
<1> HIDE DEF t
<1>3. PICK G : /\ Lines(t) = G[n + 1] /\ G[0] = << <<>> >>
               /\ \A k \in 1..(n + 1) : G[k] = With(G[k - 1], t[k])
  <2>1. Len(t) \in Nat
    BY <1>1
  <2>2. \E G : /\ Lines(t) = G[Len(t)] /\ G[0] = << <<>> >>
               /\ \A k \in 1..Len(t) : G[k] = With(G[k - 1], t[k])
    BY <2>1, LinesSteps
  <2> QED
    BY <1>1, <2>2
<1> HIDE DEF n
<1> DEFINE T == {k \in Nat : k <= n => G[k] = F[k]}
<1>4. 0 \in T
  BY <1>2, <1>3
<1>5. ASSUME NEW k \in Nat, k \in T PROVE k + 1 \in T
  <2> SUFFICES ASSUME k + 1 <= n PROVE G[k + 1] = F[k + 1]
    OBVIOUS
  <2>1. k + 1 \in 1..n /\ k + 1 \in 1..(n + 1) /\ (k + 1) - 1 = k /\ G[k] = F[k]
    BY <1>1, <1>5
  <2> QED
    BY <1>1, <1>2, <1>3, <2>1
<1>6. Nat \subseteq T
  BY <1>4, <1>5, Induction
<1>7. G[n] = F[n]
  BY <1>1, <1>6
<1>8. n + 1 \in 1..(n + 1) /\ (n + 1) - 1 = n
  BY <1>1
<1> QED
  BY <1>1, <1>2, <1>3, <1>7, <1>8 DEF t

\* An empty text has one line, an empty one.
LEMMA NoLines == Lines(<<>>) = << <<>> >>
<1>1. Len(<<>>) = 0
  OBVIOUS
<1> QED
  BY <1>1, LinesSteps

\* The lines of a text.
LEMMA LinesType ==
  ASSUME NEW s \in Texts
  PROVE  Lines(s) \in LinesOf
<1>1. Len(s) \in Nat /\ \A k \in 1..Len(s) : s[k] \in Chars
  BY DEF Texts
<1>2. PICK F : /\ Lines(s) = F[Len(s)] /\ F[0] = << <<>> >>
               /\ \A k \in 1..Len(s) : F[k] = With(F[k - 1], s[k])
  BY <1>1, LinesSteps
<1> DEFINE T == {k \in Nat : k <= Len(s) => F[k] \in LinesOf}
<1>3. 0 \in T
  <2>1. << <<>> >> \in LinesOf
    BY DEF LinesOf, Texts
  <2> QED
    BY <1>2, <2>1
<1>4. ASSUME NEW k \in Nat, k \in T PROVE k + 1 \in T
  <2> SUFFICES ASSUME k + 1 <= Len(s) PROVE F[k + 1] \in LinesOf
    OBVIOUS
  <2>1. k + 1 \in 1..Len(s) /\ (k + 1) - 1 = k /\ F[k] \in LinesOf
    BY <1>1, <1>4
  <2> QED
    BY <1>1, <1>2, <2>1, WithType
<1>5. Nat \subseteq T
  BY <1>3, <1>4, Induction
<1>6. Len(s) \in T
  BY <1>1, <1>5
<1> QED
  BY <1>1, <1>2, <1>6

\* Two elements in a sequence.
LEMMA PairIs ==
  ASSUME NEW C, NEW x \in C, NEW y \in C
  PROVE  Append(<<x>>, y) = <<x, y>> /\ <<x>> \o <<y>> = <<x, y>>
<1> DEFINE s == Append(<<x>>, y)
           t == <<x, y>>
<1>1. s \in Seq(C) /\ Len(s) = 2 /\ s[1] = x /\ s[2] = y
  BY <<x>> \in Seq(C)
<1>2. t \in Seq(C) /\ Len(t) = 2 /\ t[1] = x /\ t[2] = y
  OBVIOUS
<1>3. s = <<x>> \o <<y>>
  BY <<x>> \in Seq(C), AppendIsConcat
<1> HIDE DEF s, t
<1>4. \A i \in 1..Len(s) : s[i] = t[i]
  <2>1. \A i \in 1..2 : i = 1 \/ i = 2
    OBVIOUS
  <2> QED
    BY <1>1, <1>2, <2>1
<1>5. s = t
  BY <1>1, <1>2, <1>4, SeqEqual
<1> QED
  BY <1>3, <1>5 DEF s, t

\* What send_buf sends for the ith character of buf, and before the first.
Escaped(buf, beyond, i) ==
  IF Append(buf, beyond)[i] = "nl" /\ Append(buf, beyond)[i + 1] = "." THEN <<"nl", ".">>
  ELSE <<Append(buf, beyond)[i]>>
Leading(buf, beyond) == IF buf # <<>> /\ Append(buf, beyond)[1] = "." THEN <<".">> ELSE <<>>

SendStep(F, buf, beyond, i) ==
  IF i = 0 THEN Leading(buf, beyond) ELSE F[i - 1] \o Escaped(buf, beyond, i)
IsSent(F, buf, beyond, n) == F = [i \in 0..n |-> SendStep(F, buf, beyond, i)]

\* There is a function that the recursion of send_buf defines.
LEMMA SentExists ==
  ASSUME NEW buf, NEW beyond
  PROVE  \A n \in Nat : \E F : IsSent(F, buf, beyond, n)
<1> DEFINE T == {n \in Nat : \E F : IsSent(F, buf, beyond, n)}
<1>1. 0 \in T
  <2> DEFINE F == [i \in 0..0 |-> Leading(buf, beyond)]
  <2>1. F = [i \in 0..0 |-> SendStep(F, buf, beyond, i)]
    BY DEF SendStep
  <2> QED
    BY <2>1 DEF IsSent
<1>2. ASSUME NEW n \in Nat, n \in T PROVE n + 1 \in T
  <2>1. PICK F : IsSent(F, buf, beyond, n)
    BY <1>2
  <2> DEFINE G == [i \in 0..(n + 1) |-> IF i <= n THEN F[i] ELSE SendStep(F, buf, beyond, i)]
  <2>2. \A i \in 0..n : F[i] = SendStep(F, buf, beyond, i) /\ G[i] = F[i]
    BY <2>1 DEF IsSent
  <2>3. \A i \in 0..(n + 1) : G[i] = SendStep(F, buf, beyond, i)
    <3>1. \A i \in 0..(n + 1) : i \in 0..n \/ i = n + 1
      OBVIOUS
    <3>2. G[n + 1] = SendStep(F, buf, beyond, n + 1)
      OBVIOUS
    <3> QED
      BY <2>2, <3>1, <3>2
  <2>4. \A i \in 0..(n + 1) : SendStep(G, buf, beyond, i) = SendStep(F, buf, beyond, i)
    <3> HIDE DEF G
    <3>1. \A i \in 1..(n + 1) : G[i - 1] = F[i - 1]
      BY <2>2
    <3> QED
      BY <3>1 DEF SendStep
  <2>5. G = [i \in 0..(n + 1) |-> G[i]]
    OBVIOUS
  <2> HIDE DEF G
  <2>6. IsSent(G, buf, beyond, n + 1)
    BY <2>3, <2>4, <2>5 DEF IsSent
  <2> QED
    BY <2>6
<1>3. Nat \subseteq T
  BY <1>1, <1>2, Induction
<1> QED
  BY <1>3

\* send_buf goes over its argument character by character.
LEMMA SentSteps ==
  ASSUME NEW buf, NEW beyond, Len(buf) \in Nat
  PROVE  \E F : /\ send_buf(buf, beyond) = F[Len(buf)] /\ F[0] = Leading(buf, beyond)
                /\ \A i \in 1..Len(buf) : F[i] = F[i - 1] \o Escaped(buf, beyond, i)
<1> DEFINE g == CHOOSE F : IsSent(F, buf, beyond, Len(buf))
<1>1. send_buf(buf, beyond) = g[Len(buf)]
  BY DEF send_buf, IsSent, SendStep, Leading, Escaped
<1>2. IsSent(g, buf, beyond, Len(buf))
  BY SentExists
<1> HIDE DEF g
<1>3. \A i \in 0..Len(buf) : g[i] = SendStep(g, buf, beyond, i)
  BY <1>2 DEF IsSent
<1>4. g[0] = Leading(buf, beyond)
  BY <1>3 DEF SendStep
<1>5. ASSUME NEW i \in 1..Len(buf) PROVE g[i] = g[i - 1] \o Escaped(buf, beyond, i)
  <2>1. i \in 0..Len(buf) /\ i # 0
    OBVIOUS
  <2>2. g[i] = SendStep(g, buf, beyond, i)
    BY <1>3, <2>1
  <2> QED
    BY <2>1, <2>2 DEF SendStep
<1> QED
  BY <1>1, <1>4, <1>5

\* A line as it is sent, with a dot before the dot that begins it.
Stuff(line) == IF line # <<>> /\ line[1] = "." THEN <<".">> \o line ELSE line

\* What has been sent, if the last line has not begun and a dot comes, has the other dot already.
Mimics(b, l, dot) ==
  /\ Len(b) = Len(l)
  /\ \A i \in 1..(Len(l) - 1) : b[i] = Stuff(l[i])
  /\ b[Len(l)] = IF l[Len(l)] = <<>> /\ dot THEN <<".">> ELSE Stuff(l[Len(l)])

\* A line is stuffed at its beginning, whatever comes behind it.
LEMMA StuffAppend ==
  ASSUME NEW line \in Texts, NEW c \in Chars, line # <<>>
  PROVE  Append(Stuff(line), c) = Stuff(Append(line, c))
<1>1. Append(line, c) # <<>> /\ Append(line, c)[1] = line[1]
  BY DEF Texts
<1>2. <<".">> \o Append(line, c) = Append(<<".">> \o line, c)
  <2>1. <<".">> \in Texts /\ line \in Seq(Chars)
    BY DEF Texts, Chars
  <2> QED
    BY <2>1 DEF Texts
<1> QED
  BY <1>1, <1>2 DEF Stuff

\* Another character of the text, and what is sent for it.
LEMMA MimicStep ==
  ASSUME NEW b \in LinesOf, NEW l \in LinesOf, NEW c \in Chars, NEW dot \in BOOLEAN,
         Mimics(b, l, c = ".")
  PROVE  /\ c # "nl" \/ ~dot => Mimics(With(b, c), With(l, c), dot)
         /\ c = "nl" /\ dot => Mimics(With(With(b, c), "."), With(l, c), dot)
<1> DEFINE m == Len(l)
<1>1. /\ m \in Nat \ {0} /\ Len(b) = m /\ m \in 1..m /\ l[m] \in Texts /\ b[m] \in Texts
      /\ \A i \in 1..(m - 1) : b[i] = Stuff(l[i])
  BY WithType DEF LinesOf, Mimics
<1>2. Stuff(<<>>) = <<>> /\ "." \in Chars /\ "." # "nl"
  BY DEF Stuff, Chars
<1>3. CASE c # "nl"
  <2>1. /\ Len(With(b, c)) = m /\ Len(With(l, c)) = m
        /\ With(b, c)[m] = Append(b[m], c) /\ With(l, c)[m] = Append(l[m], c)
        /\ \A i \in 1..(m - 1) : With(b, c)[i] = b[i] /\ With(l, c)[i] = l[i]
    <3>1. /\ Len(With(b, c)) = Len(b) /\ With(b, c)[Len(b)] = Append(b[Len(b)], c)
          /\ \A i \in 1..(Len(b) - 1) : With(b, c)[i] = b[i]
      BY <1>3, WithType
    <3>2. /\ Len(With(l, c)) = Len(l) /\ With(l, c)[Len(l)] = Append(l[Len(l)], c)
          /\ \A i \in 1..(Len(l) - 1) : With(l, c)[i] = l[i]
      BY <1>3, WithType
    <3> QED
      BY <1>1, <3>1, <3>2
  <2>2. Append(l[m], c) # <<>>
    BY <1>1 DEF Texts
  <2>3. Append(b[m], c) = Stuff(Append(l[m], c))
    <3>1. CASE l[m] # <<>>
      BY <1>1, <3>1, StuffAppend DEF Mimics
    <3>2. CASE l[m] = <<>> /\ c = "."
      <4>1. b[m] = <<".">>
        BY <3>2 DEF Mimics
      <4>2. Append(<<>>, ".") = <<".">> /\ Append(<<".">>, ".") = <<".">> \o <<".">>
        BY <1>2, PairIs
      <4>3. Stuff(<<".">>) = <<".">> \o <<".">>
        BY DEF Stuff
      <4> QED
        BY <3>2, <4>1, <4>2, <4>3
    <3>3. CASE l[m] = <<>> /\ c # "."
      <4>1. b[m] = <<>>
        BY <1>2, <3>3 DEF Mimics
      <4>2. Append(b[m], c) = <<c>> /\ Append(l[m], c) = <<c>>
        BY <3>3, <4>1
      <4> QED
        BY <3>3, <4>2 DEF Stuff
    <3> QED
      BY <3>1, <3>2, <3>3
  <2> QED
    BY <1>1, <1>3, <2>1, <2>2, <2>3 DEF Mimics
<1>4. CASE c = "nl"
  <2>1. /\ Len(With(b, c)) = m + 1 /\ Len(With(l, c)) = m + 1
        /\ With(b, c)[m + 1] = <<>> /\ With(l, c)[m + 1] = <<>> /\ With(b, c) \in LinesOf
        /\ \A i \in 1..m : With(b, c)[i] = b[i] /\ With(l, c)[i] = l[i]
    <3>1. /\ Len(With(b, c)) = Len(b) + 1 /\ With(b, c)[Len(b) + 1] = <<>>
          /\ With(b, c) \in LinesOf /\ \A i \in 1..Len(b) : With(b, c)[i] = b[i]
      BY <1>4, WithType
    <3>2. /\ Len(With(l, c)) = Len(l) + 1 /\ With(l, c)[Len(l) + 1] = <<>>
          /\ \A i \in 1..Len(l) : With(l, c)[i] = l[i]
      BY <1>4, WithType
    <3> QED
      BY <1>1, <3>1, <3>2
  <2>2. b[m] = Stuff(l[m])
    BY <1>4 DEF Mimics
  <2>3. \A i \in 1..m : With(b, c)[i] = Stuff(With(l, c)[i])
    <3>1. \A i \in 1..m : i \in 1..(m - 1) \/ i = m
      BY <1>1
    <3> QED
      BY <1>1, <2>1, <2>2, <3>1
  <2>4. Mimics(With(b, c), With(l, c), FALSE)
    BY <1>1, <1>2, <2>1, <2>3 DEF Mimics
  <2>5. Mimics(With(With(b, c), "."), With(l, c), TRUE)
    <3> DEFINE b2 == With(b, c)
               b3 == With(b2, ".")
    <3>0. b2 \in LinesOf /\ Len(b2) = m + 1 /\ (m + 1) - 1 = m
      BY <1>1, <2>1 DEF b2
    <3> HIDE DEF b2, m
    <3>3. /\ Len(b3) = Len(b2) /\ b3[Len(b2)] = Append(b2[Len(b2)], ".")
          /\ \A i \in 1..(Len(b2) - 1) : b3[i] = b2[i]
      BY <1>2, <3>0, WithType DEF b3
    <3>1. /\ Len(b3) = m + 1 /\ b3[m + 1] = Append(b2[m + 1], ".")
          /\ \A i \in 1..m : b3[i] = b2[i]
      BY <3>0, <3>3
    <3> HIDE DEF b3
    <3>2. Append(b2[m + 1], ".") = <<".">>
      BY <2>1 DEF b2
    <3> QED
      BY <1>1, <2>1, <2>3, <3>1, <3>2 DEF Mimics, b2, b3
  <2> QED
    BY <1>4, <2>4, <2>5
<1> QED
  BY <1>3, <1>4

\* What is sent of a text are its lines, those that begin with a dot with another one.
LEMMA SentIs ==
  ASSUME NEW text \in Texts, NEW beyond \in {"0", "x"}
  PROVE  /\ send_buf(text, beyond) \in Texts
         /\ Mimics(Lines(send_buf(text, beyond)), Lines(text), FALSE)
<1> DEFINE n == Len(text)
           more == Append(text, beyond)
           Dot(i) == more[i + 1] = "."
<1>1. /\ n \in Nat /\ \A i \in 1..n : text[i] \in Chars /\ more[i] = text[i]
      /\ more[n + 1] = beyond
  BY DEF Texts
<1>2. PICK F : /\ send_buf(text, beyond) = F[n] /\ F[0] = Leading(text, beyond)
               /\ \A i \in 1..n : F[i] = F[i - 1] \o Escaped(text, beyond, i)
  BY <1>1, SentSteps
<1>3. PICK l : /\ Lines(text) = l[n] /\ l[0] = << <<>> >>
               /\ \A i \in 1..n : l[i] = With(l[i - 1], text[i])
  BY <1>1, LinesSteps
<1>4. n = 0 <=> text = <<>>
  BY DEF Texts
<1> DEFINE Holds(i) == F[i] \in Texts /\ l[i] \in LinesOf /\ Mimics(Lines(F[i]), l[i], Dot(i))
           T == {i \in Nat : i <= n => Holds(i)}
<1>5. Holds(0)
  <2>1. << <<>> >> \in LinesOf /\ "." \in Chars /\ <<>> \in Texts /\ <<".">> \in Texts
    BY DEF LinesOf, Texts, Chars
  <2>2. Lines(<<".">>) = << <<".">> >>
    <3>1. Append(<<>>, ".") = <<".">>
      OBVIOUS
    <3>2. Lines(<<".">>) = With(<< <<>> >>, ".")
      BY <2>1, <3>1, LinesAppend, NoLines
    <3> DEFINE e == << <<>> >>
    <3>3. e = [i \in 1..1 |-> <<>>]
      OBVIOUS
    <3>4. Len(e) = 1 /\ e[1] = <<>>
      OBVIOUS
    <3> HIDE DEF e
    <3>5. With(e, ".") = [i \in 1..1 |-> <<".">>]
      BY <3>1, <3>3, <3>4 DEF With
    <3>6. << <<".">> >> = [i \in 1..1 |-> <<".">>]
      OBVIOUS
    <3> QED
      BY <3>2, <3>5, <3>6 DEF e
  <2>3. 0 + 1 = 1
    OBVIOUS
  <2>4. F[0] = IF Dot(0) THEN <<".">> ELSE <<>>
    <3>1. CASE text = <<>>
      <4>1. more[1] = beyond /\ beyond # "."
        BY <1>1, <1>4, <3>1
      <4> QED
        BY <1>2, <3>1, <4>1 DEF Leading
    <3>2. CASE text # <<>>
      BY <1>2, <2>3, <3>2 DEF Leading
    <3> QED
      BY <3>1, <3>2
  <2>5. Len(<< <<>> >>) = 1 /\ << <<>> >>[1] = <<>> /\ Len(<< <<".">> >>) = 1
        /\ << <<".">> >>[1] = <<".">> /\ Stuff(<<>>) = <<>>
    BY DEF Stuff
  <2>6. Mimics(Lines(F[0]), << <<>> >>, Dot(0))
    <3>1. CASE Dot(0)
      BY <2>2, <2>4, <2>5, <3>1 DEF Mimics
    <3>2. CASE ~Dot(0)
      BY <2>4, <2>5, <3>2, NoLines DEF Mimics
    <3> QED
      BY <3>1, <3>2
  <2> QED
    BY <1>3, <2>1, <2>4, <2>6
<1>6. ASSUME NEW i \in Nat, i \in T PROVE i + 1 \in T
  <2> SUFFICES ASSUME i + 1 <= n PROVE Holds(i + 1)
    OBVIOUS
  <2> DEFINE j == i + 1
             c == text[j]
  <2>1. j \in 1..n /\ j - 1 = i /\ i <= n
    BY <1>1, <1>6
  <2>2. F[i] \in Texts /\ l[i] \in LinesOf /\ Mimics(Lines(F[i]), l[i], Dot(i))
    BY <1>6, <2>1
  <2>3. c \in Chars /\ more[j] = c /\ more[i + 1] = c
    BY <1>1, <2>1
  <2>4. F[j] = F[i] \o Escaped(text, beyond, j) /\ l[j] = With(l[i], c)
    BY <1>2, <1>3, <2>1
  <2>5. Lines(F[i]) \in LinesOf
    BY <2>2, LinesType
  <2>6. Escaped(text, beyond, j) = IF c = "nl" /\ Dot(j) THEN <<"nl", ".">> ELSE <<c>>
    BY <2>3 DEF Escaped
  <2>7. Mimics(Lines(F[i]), l[i], c = ".")
    BY <2>2, <2>3
  <2> DEFINE lines == Lines(F[i])
             before == l[i]
  <2> SUFFICES Holds(j)
    OBVIOUS
  <2> HIDE DEF j, c, Dot, lines, before
  <2>8. l[j] \in LinesOf
    BY <2>2, <2>3, <2>4, WithType
  <2>9. CASE c = "nl" /\ Dot(j)
    <3>1. "." \in Chars /\ "nl" \in Chars
      BY DEF Chars
    <3>2. F[j] = F[i] \o <<"nl", ".">>
      BY <2>4, <2>6, <2>9
    <3>3. <<"nl", ".">> = <<"nl">> \o <<".">> /\ <<"nl">> \in Texts /\ <<".">> \in Texts
      BY <3>1, PairIs DEF Texts
    <3>4. F[i] \o (<<"nl">> \o <<".">>) = (F[i] \o <<"nl">>) \o <<".">>
      BY <2>2, <3>3, ConcatAssociative DEF Texts
    <3>5. F[i] \o <<"nl">> = Append(F[i], "nl") /\ Append(F[i], "nl") \in Texts
      BY <2>2, <3>1, AppendIsConcat DEF Texts
    <3>6. Append(F[i], "nl") \o <<".">> = Append(Append(F[i], "nl"), ".")
          /\ Append(Append(F[i], "nl"), ".") \in Texts
      BY <3>1, <3>5, AppendIsConcat DEF Texts
    <3>7. F[j] = Append(Append(F[i], "nl"), ".")
      BY <3>2, <3>3, <3>4, <3>5, <3>6
    <3>8. Lines(F[j]) = With(With(Lines(F[i]), "nl"), ".")
      BY <2>2, <3>1, <3>5, <3>7, LinesAppend
    <3>9. Mimics(With(With(lines, c), "."), With(before, c), TRUE)
      BY <2>2, <2>3, <2>5, <2>7, <2>9, MimicStep DEF lines, before
    <3> QED
      BY <2>4, <2>8, <2>9, <3>6, <3>7, <3>8, <3>9 DEF lines, before
  <2>10. CASE ~(c = "nl" /\ Dot(j))
    <3>1. F[j] = F[i] \o <<c>>
      BY <2>4, <2>6, <2>10
    <3>2. F[j] = Append(F[i], c) /\ F[j] \in Texts
      BY <2>2, <2>3, <3>1, AppendIsConcat DEF Texts
    <3>3. Lines(F[j]) = With(Lines(F[i]), c)
      BY <2>2, <2>3, <3>2, LinesAppend
    <3> DEFINE d == Dot(j)
    <3>4. d \in BOOLEAN /\ (c # "nl" \/ ~d)
      BY <2>10 DEF Dot
    <3> HIDE DEF d
    <3>5. Mimics(With(lines, c), With(before, c), d)
      BY <2>2, <2>3, <2>5, <2>7, <3>4, MimicStep DEF lines, before
    <3> QED
      BY <2>4, <2>8, <3>2, <3>3, <3>5 DEF lines, before, d
  <2> QED
    BY <2>9, <2>10
<1>7. Nat \subseteq T
  <2>1. 0 \in T
    BY <1>5
  <2> QED
    BY <1>6, <2>1, Induction
<1>8. Holds(n)
  BY <1>1, <1>7
<1>9. ~Dot(n)
  BY <1>1
<1> QED
  BY <1>2, <1>3, <1>8, <1>9

\* A string, and a file that is read at once, is sent by one send_buf.
LEMMA BodyIs ==
  ASSUME NEW text \in Texts, NEW beyond \in {"0", "x"}, beyond = "0" \/ Len(text) <= CHUNK
  PROVE  Body(text, beyond # "0", beyond) = send_buf(text, beyond) \o <<"nl", ".", "nl">>
<1>1. CASE beyond = "0"
  BY <1>1 DEF Body
<1>2. CASE beyond # "0"
  <2> DEFINE n == Len(text)
             Chunk(k) == SubSeq(text, (k - 1) * CHUNK + 1, IF k * CHUNK < Len(text) THEN k * CHUNK
                                                                              ELSE Len(text))
             q == (Len(text) + CHUNK - 1) \div CHUNK
             Step(g, k) == IF k = 0 THEN <<>> ELSE g[k - 1] \o send_buf(Chunk(k), beyond)
             whole == CHOOSE g : g = [k \in 0..q |-> Step(g, k)]
  <2>1. Body(text, beyond # "0", beyond) = whole[q] \o <<"nl", ".", "nl">>
    BY <1>2 DEF Body
  <2>2. n \in Nat /\ n <= CHUNK /\ CHUNK \in Nat \ {0} /\ text \in Seq(Chars)
    BY <1>2, SmtpAssumption DEF Texts
  <2>3. Chunk(1) = text
    <3> DEFINE a == (1 - 1) * CHUNK + 1
               e == 1 * CHUNK
    <3>1. a = 1 /\ e = CHUNK
      BY <2>2
    <3>2. Chunk(1) = SubSeq(text, a, IF e < n THEN e ELSE n)
      OBVIOUS
    <3> HIDE DEF a, e, Chunk
    <3>3. ~(e < n)
      BY <2>2, <3>1
    <3>4. Chunk(1) = SubSeq(text, 1, Len(text))
      BY <3>1, <3>2, <3>3
    <3>5. SubSeq(text, 1, Len(text)) = text
      <4> DEFINE t == SubSeq(text, 1, Len(text))
      <4>1. t \in Seq(Chars) /\ Len(t) = Len(text) /\ \A i \in 1..Len(text) : t[i] = text[i]
        BY <2>2
      <4> HIDE DEF t
      <4>2. t = text
        BY <2>2, <4>1, SeqEqual
      <4> QED
        BY <4>2 DEF t
    <3> QED
      BY <3>4, <3>5
  <2>4. send_buf(text, beyond) \in Texts
    BY SentIs
  <2>5. q = (IF n = 0 THEN 0 ELSE 1)
    <3>1. CASE n = 0
      <4>1. n + CHUNK - 1 = CHUNK - 1 /\ CHUNK - 1 \in 0..(CHUNK - 1)
        BY <2>2, <3>1
      <4>2. (CHUNK - 1) \div CHUNK = 0
        BY <2>2
      <4> QED
        BY <3>1, <4>1, <4>2
    <3>2. CASE n # 0
      <4> DEFINE r == n - 1
      <4>1. r \in Nat /\ r < CHUNK /\ n + CHUNK - 1 = CHUNK + r
        BY <2>2, <3>2
      <4> HIDE DEF r
      <4>2. (CHUNK + r) \div CHUNK = 1
        BY <2>2, <4>1
      <4> QED
        BY <3>2, <4>1, <4>2
    <3> QED
      BY <3>1, <3>2
  <2> HIDE DEF Chunk, q
  <2> DEFINE f == [k \in 0..q |-> IF k = 0 THEN <<>> ELSE <<>> \o send_buf(Chunk(k), beyond)]
  <2>6. f = [k \in 0..q |-> Step(f, k)]
    <3>1. f[0] = <<>> /\ 0 \in 0..q
      BY <2>5
    <3>2. \A k \in 0..q : k # 0 => k - 1 = 0
      BY <2>5
    <3>3. \A k \in 0..q : f[k] = Step(f, k)
      BY <3>1, <3>2
    <3>4. f = [k \in 0..q |-> f[k]]
      OBVIOUS
    <3> HIDE DEF f
    <3> QED
      BY <3>3, <3>4
  <2>7. whole = [k \in 0..q |-> Step(whole, k)]
    <3> HIDE DEF f
    <3>1. \E g : g = [k \in 0..q |-> Step(g, k)]
      BY <2>6
    <3> QED
      BY <3>1
  <2> HIDE DEF whole, f
  <2>8. CASE n = 0
    <3>1. q = 0 /\ 0 \in 0..q
      BY <2>5, <2>8
    <3>2. whole[0] = Step(whole, 0)
      BY <2>7, <3>1
    <3>3. send_buf(text, beyond) = <<>>
      <4>1. text = <<>>
        BY <2>2, <2>8
      <4> QED
        BY <2>2, <2>8, <4>1, SentSteps DEF Leading
    <3> QED
      BY <2>1, <3>1, <3>2, <3>3
  <2>9. CASE n # 0
    <3>1. q = 1 /\ 0 \in 0..q /\ 1 \in 0..q /\ 1 - 1 = 0 /\ 1 # 0
      BY <2>5, <2>9
    <3>2. whole[0] = Step(whole, 0) /\ whole[1] = Step(whole, 1)
      BY <2>7, <3>1
    <3>3. whole[1] = <<>> \o send_buf(text, beyond)
      BY <2>3, <3>1, <3>2
    <3>4. <<>> \o send_buf(text, beyond) = send_buf(text, beyond)
      BY <2>4 DEF Texts
    <3> QED
      BY <2>1, <3>1, <3>3, <3>4
  <2> QED
    BY <2>8, <2>9
<1> QED
  BY <1>1, <1>2

\* A body: the lines of the message, stuffed, a dot, and nothing.
IsStuffed(body, lines) ==
  /\ body \in LinesOf /\ lines \in LinesOf /\ Len(body) = Len(lines) + 2
  /\ \A i \in 1..Len(lines) : body[i] = Stuff(lines[i])
  /\ body[Len(lines) + 1] = <<".">>

\* What a program mails that send_buf gets right.
LEMMA BodyLines ==
  ASSUME NEW text \in Texts, NEW beyond \in {"0", "x"}, beyond = "0" \/ Len(text) <= CHUNK
  PROVE  IsStuffed(Lines(Body(text, beyond # "0", beyond)), Lines(text))
<1> DEFINE s == send_buf(text, beyond)
           l == Lines(text)
           b == Lines(s)
           m == Len(l)
<1>1. s \in Texts /\ Mimics(b, l, FALSE)
  BY SentIs
<1>2. l \in LinesOf /\ b \in LinesOf
  BY <1>1, LinesType
<1>3. "nl" \in Chars /\ "." \in Chars /\ "." # "nl"
  BY DEF Chars
<1> DEFINE s1 == Append(s, "nl")
           s2 == Append(s1, ".")
           s3 == Append(s2, "nl")
<1>4. s \o <<"nl", ".", "nl">> = s3
  <2>1. s \in Seq(Chars)
    BY <1>1 DEF Texts
  <2> HIDE DEF s
  <2> DEFINE t == s \o <<"nl", ".", "nl">>
  <2>2. t \in Seq(Chars) /\ s3 \in Seq(Chars) /\ Len(t) = Len(s) + 3 /\ Len(s3) = Len(s) + 3
    BY <1>3, <2>1
  <2>3. ASSUME NEW i \in 1..(Len(s) + 3) PROVE t[i] = s3[i]
    <3>1. Len(s) \in Nat
      BY <2>1
    <3>2. CASE i \in 1..Len(s)
      BY <1>3, <2>1, <3>2
    <3>3. CASE i = Len(s) + 1
      BY <1>3, <2>1, <3>3
    <3>4. CASE i = Len(s) + 2
      BY <1>3, <2>1, <3>4
    <3>5. CASE i = Len(s) + 3
      BY <1>3, <2>1, <3>5
    <3> QED
      BY <3>1, <3>2, <3>3, <3>4, <3>5
  <2> HIDE DEF t, s3
  <2> QED
    <3>1. t = s3
      BY <2>2, <2>3, SeqEqual
    <3> QED
      BY <3>1 DEF t
<1>5. s1 \in Texts /\ s2 \in Texts
  BY <1>1, <1>3 DEF Texts
<1> DEFINE b1 == With(b, "nl")
           b2 == With(b1, ".")
           b3 == With(b2, "nl")
<1>6. Lines(s3) = b3
  <2>1. Lines(s1) = b1
    BY <1>1, <1>3, LinesAppend
  <2>2. Lines(s2) = With(Lines(s1), ".")
    BY <1>3, <1>5, LinesAppend
  <2>3. Lines(s3) = With(Lines(s2), "nl")
    BY <1>3, <1>5, LinesAppend
  <2> QED
    BY <2>1, <2>2, <2>3
<1>7. Lines(Body(text, beyond # "0", beyond)) = b3
  BY <1>4, <1>6, BodyIs
<1>8. m \in Nat \ {0} /\ Len(b) = m /\ \A i \in 1..m : b[i] = Stuff(l[i])
  <2>1. m \in Nat \ {0}
    BY <1>2, <1>3, WithType
  <2>2. /\ Len(b) = m /\ b[m] = Stuff(l[m])
        /\ \A i \in 1..(m - 1) : b[i] = Stuff(l[i])
    BY <1>1 DEF Mimics
  <2> HIDE DEF m, b, l
  <2>3. \A i \in 1..m : i \in 1..(m - 1) \/ i = m
    BY <2>1
  <2> QED
    BY <2>1, <2>2, <2>3
<1> HIDE DEF m, b, l, s
<1>9. /\ b1 \in LinesOf /\ Len(b1) = m + 1 /\ b1[m + 1] = <<>>
      /\ \A i \in 1..m : b1[i] = b[i]
  BY <1>2, <1>3, <1>8, WithType
<1> HIDE DEF b1
<1>10. /\ b2 \in LinesOf /\ Len(b2) = m + 1 /\ b2[m + 1] = <<".">>
       /\ \A i \in 1..m : b2[i] = b[i]
  <2>1. /\ b2 \in LinesOf /\ Len(b2) = Len(b1) /\ b2[Len(b1)] = Append(b1[Len(b1)], ".")
        /\ \A i \in 1..(Len(b1) - 1) : b2[i] = b1[i]
    BY <1>3, <1>9, WithType
  <2>2. Append(<<>>, ".") = <<".">>
    OBVIOUS
  <2>3. Len(b1) - 1 = m
    BY <1>8, <1>9
  <2> HIDE DEF b2
  <2>4. b2 \in LinesOf /\ Len(b2) = m + 1 /\ b2[m + 1] = <<".">>
    BY <1>9, <2>1, <2>2
  <2>5. \A i \in 1..m : b2[i] = b[i]
    BY <1>9, <2>1, <2>3
  <2> QED
    BY <2>4, <2>5
<1> HIDE DEF b2
<1>11. /\ b3 \in LinesOf /\ Len(b3) = m + 2
       /\ \A i \in 1..(m + 1) : b3[i] = b2[i]
  <2>1. b3 \in LinesOf /\ Len(b3) = Len(b2) + 1 /\ \A i \in 1..Len(b2) : b3[i] = b2[i]
    BY <1>3, <1>10, WithType
  <2> HIDE DEF b3
  <2> QED
    BY <1>8, <1>10, <2>1
<1> HIDE DEF b3
<1>12. IsStuffed(b3, l)
  <2>1. m + 1 \in 1..(m + 1) /\ \A i \in 1..m : i \in 1..(m + 1)
    BY <1>8
  <2> QED
    BY <1>2, <1>8, <1>10, <1>11, <2>1 DEF IsStuffed, m
<1> QED
  BY <1>7, <1>12 DEF l

\* No line of a message is the dot that ends it, and each is read as it was.
LEMMA Unstuffed ==
  ASSUME NEW line \in Texts
  PROVE  Stuff(line) # <<".">> /\ Unstuff(Stuff(line)) = line
<1>1. CASE line # <<>> /\ line[1] = "."
  <2>1. Stuff(line) = <<".">> \o line /\ line \in Seq(Chars) /\ <<".">> \in Seq(Chars)
    BY <1>1 DEF Stuff, Texts, Chars
  <2>2. Len(line) \in Nat \ {0}
    BY <1>1, <2>1
  <2> DEFINE t == <<".">> \o line
  <2>3. t \in Seq(Chars) /\ Len(t) = Len(line) + 1 /\ t[1] = "." /\ Len(<<".">>) = 1
        /\ \A i \in 1..Len(line) : t[i + 1] = line[i]
    BY <2>1
  <2> HIDE DEF t
  <2>4. t # <<>> /\ t # <<".">>
    BY <2>2, <2>3
  <2>5. Tail(t) \in Seq(Chars) /\ Len(Tail(t)) = Len(line)
        /\ \A i \in 1..Len(line) : Tail(t)[i] = t[i + 1]
    BY <2>2, <2>3, <2>4
  <2>6. Tail(t) = line
    BY <2>1, <2>3, <2>5, SeqEqual
  <2> QED
    BY <2>1, <2>3, <2>4, <2>6 DEF Unstuff, t
<1>2. CASE ~(line # <<>> /\ line[1] = ".")
  <2>1. Stuff(line) = line /\ Unstuff(line) = line
    BY <1>2 DEF Stuff, Unstuff
  <2>2. line # <<".">>
    BY <1>2
  <2> QED
    BY <2>1, <2>2
<1> QED
  BY <1>1, <1>2

----------------------------------------------------------------------------
(* What the smtp server has taken                                          *)

\* A message that send_buf gets right is sent stuffed, and only it is taken.
MailInv ==
  mail.clean => IsStuffed(mail.body, mail.lines) /\ stored \in Seq({mail.lines})

\* The first line of a body that is a dot, where the server ends the message.
EndsAt(body, i) ==
  i \in DOMAIN body /\ body[i] = <<".">> /\ \A j \in 1..(i - 1) : body[j] # <<".">>

\* The message is what is before that line, without the dots put there.
LEMMA BodyRead ==
  ASSUME NEW body, NEW lines, IsStuffed(body, lines)
  PROVE  /\ EndsAt(body, Len(lines) + 1)
         /\ \A d : EndsAt(body, d) =>
              /\ d = Len(lines) + 1
              /\ [i \in 1..(d - 1) |-> Unstuff(body[i])] = lines
<1> DEFINE m == Len(lines)
<1>1. /\ body \in Seq(Texts) /\ lines \in Seq(Texts) /\ DOMAIN body = 1..(m + 2)
      /\ DOMAIN lines = 1..m /\ body[m + 1] = <<".">>
  BY DEF IsStuffed, LinesOf
<1>2. m \in Nat
  BY <1>1
<1>3. \A i \in 1..m : body[i] # <<".">> /\ Unstuff(body[i]) = lines[i]
  <2>1. \A i \in 1..m : body[i] = Stuff(lines[i]) /\ lines[i] \in Texts
    BY <1>1 DEF IsStuffed
  <2> QED
    BY <2>1, Unstuffed
<1>4. lines = [i \in 1..m |-> lines[i]]
  BY <1>1
<1> HIDE DEF m
<1>5. EndsAt(body, m + 1)
  <2>1. m + 1 \in 1..(m + 2) /\ (m + 1) - 1 = m
    BY <1>2
  <2> QED
    BY <1>1, <1>3, <2>1 DEF EndsAt
<1>6. ASSUME NEW d, EndsAt(body, d)
      PROVE  d = m + 1 /\ [i \in 1..(d - 1) |-> Unstuff(body[i])] = lines
  <2>1. d \in 1..(m + 2) /\ body[d] = <<".">> /\ \A j \in 1..(d - 1) : body[j] # <<".">>
    BY <1>1, <1>6 DEF EndsAt
  <2>2. d \notin 1..m
    BY <1>3, <2>1
  <2>3. m + 1 \notin 1..(d - 1)
    BY <1>1, <2>1
  <2>4. d = m + 1 /\ d - 1 = m
    BY <1>2, <2>1, <2>2, <2>3
  <2>5. [i \in 1..m |-> Unstuff(body[i])] = [i \in 1..m |-> lines[i]]
    BY <1>3
  <2> QED
    BY <1>4, <2>4, <2>5
<1> QED
  BY <1>5, <1>6 DEF m

LEMMA MailInit == SmtpStart => MailInv
<1> SUFFICES ASSUME SmtpStart, mail.clean
             PROVE  IsStuffed(mail.body, mail.lines) /\ stored \in Seq({mail.lines})
  BY DEF MailInv
<1>1. PICK text \in Messages, beyond \in {"0", ".", "x"} :
        mail = [lines |-> Lines(text), body |-> Lines(Body(text, beyond # "0", beyond)),
                clean |-> beyond = "0" \/ (Len(text) <= CHUNK /\ beyond # ".")]
  BY DEF SmtpStart, SmtpInit
<1>2. text \in Texts
  BY SmtpAssumption DEF Texts, Chars
<1>3. beyond = "0" \/ (Len(text) <= CHUNK /\ beyond = "x")
  BY <1>1
<1>4. IsStuffed(Lines(Body(text, beyond # "0", beyond)), Lines(text))
  BY <1>2, <1>3, BodyLines
<1>5. mail.lines = Lines(text) /\ mail.body = Lines(Body(text, beyond # "0", beyond))
  BY <1>1
<1>6. stored = <<>>
  BY DEF SmtpStart, SmtpInit
<1> QED
  BY <1>4, <1>5, <1>6

LEMMA MailServe == MailInv /\ SmtpServe => MailInv'
<1> SUFFICES ASSUME MailInv, SmtpServe PROVE MailInv'
  OBVIOUS
<1>1. mail' = mail
  BY DEF SmtpServe
<1>2. CASE stored' = stored
  BY <1>1, <1>2 DEF MailInv
<1>3. CASE stored' # stored
  <2> SUFFICES ASSUME mail.clean PROVE stored' \in Seq({mail.lines})
    BY <1>1 DEF MailInv
  <2>1. IsStuffed(mail.body, mail.lines) /\ stored \in Seq({mail.lines})
    BY DEF MailInv
  <2> DEFINE d == CHOOSE i \in DOMAIN mail.body : mail.body[i] = <<".">> /\
                    \A j \in 1..(i - 1) : mail.body[j] # <<".">>
             took == [i \in 1..(d - 1) |-> Unstuff(mail.body[i])]
  <2>2. stored' = Append(stored, took)
    BY <1>3 DEF SmtpServe
  <2>3. took = mail.lines
    <3>1. d = CHOOSE i : EndsAt(mail.body, i)
      BY DEF EndsAt
    <3>2. EndsAt(mail.body, d)
      BY <2>1, <3>1, BodyRead
    <3> HIDE DEF d
    <3> QED
      BY <2>1, <3>2, BodyRead
  <2> HIDE DEF took
  <2> QED
    BY <2>1, <2>2, <2>3
<1> QED
  BY <1>2, <1>3

LEMMA MailStep == MailInv /\ [SmtpNext]_<<client, revars, smtpvars>> => MailInv'
<1> SUFFICES ASSUME MailInv, [SmtpNext]_<<client, revars, smtpvars>> PROVE MailInv'
  OBVIOUS
<1>1. CASE SmtpServe
  BY <1>1, MailServe
<1>2. CASE UNCHANGED smtpvars
  BY <1>2 DEF MailInv, smtpvars
<1>3. SmtpServe \/ UNCHANGED smtpvars
  <2>1. CASE UNCHANGED <<client, revars, smtpvars>>
    BY <2>1
  <2>2. CASE SmtpNext
    BY <2>2 DEF SmtpNext, SmtpCall, SmtpWork, smtp_send_cmd, smtp_get_response, print, smtpvars
  <2> QED
    BY <2>1, <2>2
<1> QED
  BY <1>1, <1>2, <1>3

\* Every message the server has taken is the one that was mailed, dots and all:
\* send_buf puts a dot before each dot that begins a line, and no other.
THEOREM MailIsTransparent == SmtpSpec => []Transparent
<1>1. MailInv => Transparent
  <2> SUFFICES ASSUME MailInv, mail.clean, NEW i \in DOMAIN stored
               PROVE  stored[i] = mail.lines
    BY DEF Transparent
  <2> QED
    BY DEF MailInv
<1>2. MailInv /\ [SmtpNext /\ UNCHANGED client]_<<client, revars, smtpvars>> => MailInv'
  BY MailStep
<1> QED
  BY <1>1, <1>2, MailInit, PTL DEF SmtpSpec

----------------------------------------------------------------------------
(* Counting replies                                                        *)

\* The elements of s that are in S.
HowMany(s, S) == Cardinality({i \in 1..Len(s) : s[i] \in S})
One(x, S) == IF x \in S THEN 1 ELSE 0

\* The elements of two sequences are counted one sequence after the other.
LEMMA HowManyCat ==
  ASSUME NEW C, NEW s \in Seq(C), NEW t \in Seq(C), NEW S
  PROVE  /\ HowMany(s, S) \in Nat /\ HowMany(t, S) \in Nat
         /\ HowMany(s \o t, S) = HowMany(s, S) + HowMany(t, S)
<1> DEFINE m == Len(s)
           n == Len(t)
           u == s \o t
           A == {i \in 1..m : s[i] \in S}
           B == {i \in 1..n : t[i] \in S}
           D == {i \in 1..(m + n) : u[i] \in S}
           E == {i \in (m + 1)..(m + n) : u[i] \in S}
<1>1. m \in Nat /\ n \in Nat /\ Len(u) = m + n
  BY ConcatProperties
<1>2. \A i \in 1..m : u[i] = s[i]
  BY <1>1
<1>3. \A i \in 1..n : u[m + i] = t[i]
  BY <1>1
<1>4. HowMany(u, S) = Cardinality(D) /\ HowMany(s, S) = Cardinality(A)
      /\ HowMany(t, S) = Cardinality(B)
  BY <1>1 DEF HowMany
<1> HIDE DEF m, n, u
<1>5. IsFiniteSet(A) /\ IsFiniteSet(B) /\ IsFiniteSet(E)
  <2>1. A \in SUBSET (1..m) /\ B \in SUBSET (1..n) /\ E \in SUBSET ((m + 1)..(m + n))
    OBVIOUS
  <2> HIDE DEF A, B, E
  <2>2. IsFiniteSet(1..m) /\ IsFiniteSet(1..n) /\ IsFiniteSet((m + 1)..(m + n))
    BY <1>1, FS_Interval
  <2> QED
    BY <2>1, <2>2, FS_Subset
<1>6. D = A \cup E /\ A \cap E = {}
  BY <1>1, <1>2
<1>7. Cardinality(E) = Cardinality(B)
  <2> DEFINE f == [i \in B |-> m + i]
  <2>1. f \in [B -> E]
    BY <1>1, <1>3
  <2>2. \A i, j \in B : f[i] = f[j] => i = j
    BY <1>1
  <2>3. \A j \in E : \E i \in B : f[i] = j
    <3> SUFFICES ASSUME NEW j \in E PROVE \E i \in B : f[i] = j
      OBVIOUS
    <3>1. j - m \in 1..n /\ m + (j - m) = j
      BY <1>1
    <3>2. t[j - m] = u[j]
      BY <1>3, <3>1
    <3>3. j - m \in B
      BY <3>1, <3>2
    <3> QED
      BY <3>1, <3>3
  <2> HIDE DEF f, B, E
  <2>4. f \in Bijection(B, E)
    BY <2>1, <2>2, <2>3 DEF Bijection, Injection, Surjection, IsInjective
  <2>5. ExistsBijection(B, E)
    BY <2>4 DEF ExistsBijection
  <2> QED
    BY <1>5, <2>5, FS_Bijection
<1> HIDE DEF A, B, D, E
<1>8. Cardinality(A) \in Nat /\ Cardinality(B) \in Nat
  BY <1>5, FS_CardinalityType
<1>9. Cardinality(D) = Cardinality(A) + Cardinality(E)
  <2>1. Cardinality(A \cup E) = Cardinality(A) + Cardinality(E) - Cardinality(A \cap E)
    BY <1>5, FS_Union
  <2>2. Cardinality(A \cap E) = 0
    BY <1>6, FS_EmptySet
  <2> QED
    BY <1>6, <1>7, <1>8, <2>1, <2>2
<1> QED
  BY <1>4, <1>7, <1>8, <1>9 DEF u

\* No element, and one.
LEMMA HowManyOne ==
  ASSUME NEW S, NEW x
  PROVE  HowMany(<<>>, S) = 0 /\ HowMany(<<x>>, S) = One(x, S)
<1>1. HowMany(<<>>, S) = 0
  <2>1. {i \in 1..Len(<<>>) : <<>>[i] \in S} = {}
    OBVIOUS
  <2> QED
    BY <2>1, FS_EmptySet DEF HowMany
<1>2. HowMany(<<x>>, S) = One(x, S)
  <2> DEFINE D == {i \in 1..Len(<<x>>) : <<x>>[i] \in S}
  <2>1. D = IF x \in S THEN {1} ELSE {}
    <3>1. Len(<<x>>) = 1 /\ <<x>>[1] = x /\ 1..1 = {1}
      OBVIOUS
    <3> QED
      BY <3>1
  <2> HIDE DEF D
  <2>2. Cardinality({1}) = 1 /\ Cardinality({}) = 0
    BY FS_Singleton, FS_EmptySet
  <2>3. Cardinality(D) = One(x, S)
    BY <2>1, <2>2 DEF One
  <2> QED
    BY <2>3 DEF HowMany, D
<1> QED
  BY <1>1, <1>2

\* The first element and the others.
LEMMA HowManyTail ==
  ASSUME NEW C, NEW s \in Seq(C), s # <<>>, NEW S
  PROVE  HowMany(s, S) = One(Head(s), S) + HowMany(Tail(s), S)
<1>1. Head(s) \in C /\ Tail(s) \in Seq(C) /\ <<Head(s)>> \in Seq(C)
  BY HeadTailProperties
<1>2. s = <<Head(s)>> \o Tail(s)
  <2> DEFINE t == <<Head(s)>> \o Tail(s)
  <2>1. t \in Seq(C) /\ Len(t) = Len(s) /\ \A i \in 1..Len(s) : t[i] = s[i]
    BY <1>1
  <2> HIDE DEF t
  <2>2. t = s
    BY <2>1, SeqEqual
  <2> QED
    BY <2>2 DEF t
<1>3. HowMany(<<Head(s)>> \o Tail(s), S) = HowMany(<<Head(s)>>, S) + HowMany(Tail(s), S)
  BY <1>1, HowManyCat
<1> QED
  BY <1>2, <1>3, HowManyOne

\* If none is counted the last is not.
LEMMA HowManyNone ==
  ASSUME NEW C, NEW s \in Seq(C), NEW S, HowMany(s, S) = 0
  PROVE  \A i \in 1..Len(s) : s[i] \notin S
<1> DEFINE D == {i \in 1..Len(s) : s[i] \in S}
<1>1. IsFiniteSet(D)
  <2>1. D \in SUBSET (1..Len(s)) /\ Len(s) \in Nat
    OBVIOUS
  <2> HIDE DEF D
  <2>2. IsFiniteSet(1..Len(s))
    BY <2>1, FS_Interval
  <2> QED
    BY <2>1, <2>2, FS_Subset
<1>2. Cardinality(D) = 0
  BY DEF HowMany
<1> HIDE DEF D
<1>3. D = {}
  BY <1>1, <1>2, FS_EmptySet
<1> QED
  BY <1>3 DEF D

----------------------------------------------------------------------------
(* The replies on their way to a client                                    *)

ReplyLines ==
  [code : {"1", "2", "3", "4", "5", "text"}, sep : {" ", "-"}, to : Int,
   part : {"whole", "head", "stub", "tail"}]

\* The lines that end a reply; a line that has been cut does so with its tail.
Ends == {l \in ReplyLines : l.sep = " " /\ l.part \in {"whole", "tail"}}

\* What the client has not read, and the replies that end in it.
Pipe == fetched \o onway
Ripe == HowMany(Pipe, Ends)

\* The last line ends a reply, to the nth command; if there is none, the last
\* line read did.
LastIs(p, h, n) ==
  IF p = <<>> THEN h = n ELSE p[Len(p)] \in Ends /\ p[Len(p)].to = n

\* What is on its way are lines, and they are whole unless the network cuts them.
RepliesInv ==
  /\ fetched \in Seq(ReplyLines) /\ onway \in Seq(ReplyLines)
  /\ o \in BOOLEAN /\ asked \in Int
  /\ hungUp => "dropped" \in faults
  /\ "split" \notin faults => \A i \in 1..Len(Pipe) : Pipe[i].part = "whole"

\* Lines that are read, from the front.
LEMMA PipeRead ==
  ASSUME RepliesInv, fetched # <<>>, fetched' = Tail(fetched), onway' = onway
  PROVE  /\ fetched[1] \in ReplyLines /\ fetched[1] = Pipe[1]
         /\ fetched' \in Seq(ReplyLines)
         /\ Ripe = One(fetched[1], Ends) + Ripe' /\ Ripe \in Nat /\ Ripe' \in Nat
         /\ \A n : LastIs(Pipe, heard, n) /\ heard' = fetched[1].to => LastIs(Pipe', heard', n)
         /\ \A i \in 1..Len(Pipe') : i + 1 \in 1..Len(Pipe) /\ Pipe'[i] = Pipe[i + 1]
<1> DEFINE p == Pipe
           q == Tail(fetched) \o onway
<1>1. fetched \in Seq(ReplyLines) /\ onway \in Seq(ReplyLines) /\ p = fetched \o onway
  BY DEF RepliesInv, Pipe
<1>2. fetched[1] = Head(fetched) /\ Head(fetched) \in ReplyLines
      /\ Tail(fetched) \in Seq(ReplyLines)
  BY <1>1
<1>3. Pipe' = q
  BY DEF Pipe
<1>4. /\ Len(p) \in Nat \ {0} /\ Len(q) = Len(p) - 1 /\ p[1] = fetched[1]
      /\ \A i \in 1..Len(q) : q[i] = p[i + 1]
  <2>1. Len(fetched) \in Nat \ {0} /\ Len(onway) \in Nat /\ Len(p) = Len(fetched) + Len(onway)
    BY <1>1
  <2>2. Len(Tail(fetched)) = Len(fetched) - 1 /\ Len(q) = Len(p) - 1
    BY <1>1, <1>2, <2>1
  <2>3. \A i \in 1..(Len(fetched) - 1) : Tail(fetched)[i] = fetched[i + 1]
    BY <1>1, <2>1
  <2>4. \A i \in 1..Len(p) : p[i] = IF i <= Len(fetched) THEN fetched[i]
                                   ELSE onway[i - Len(fetched)]
    BY <1>1, <2>1, ConcatProperties
  <2>5. \A i \in 1..Len(q) : q[i] = IF i <= Len(fetched) - 1 THEN fetched[i + 1]
                                   ELSE onway[i - (Len(fetched) - 1)]
    BY <1>1, <1>2, <2>1, <2>2, <2>3, ConcatProperties
  <2> HIDE DEF p, q
  <2>6. \A i \in 1..Len(q) : q[i] = p[i + 1]
    <3> SUFFICES ASSUME NEW i \in 1..Len(q) PROVE q[i] = p[i + 1]
      OBVIOUS
    <3>1. i + 1 \in 1..Len(p) /\ (i + 1) - Len(fetched) = i - (Len(fetched) - 1)
          /\ (i + 1 <= Len(fetched) <=> i <= Len(fetched) - 1)
      BY <2>1, <2>2
    <3> QED
      BY <2>4, <2>5, <3>1
  <2>7. p[1] = fetched[1]
    BY <2>1, <2>4
  <2> QED
    BY <2>1, <2>2, <2>6, <2>7
<1>5. q \in Seq(ReplyLines) /\ p \in Seq(ReplyLines)
  BY <1>1, <1>2, ConcatProperties
<1>6. Ripe = One(fetched[1], Ends) + Ripe' /\ Ripe \in Nat /\ Ripe' \in Nat
  <2>1. Ripe = HowMany(fetched, Ends) + HowMany(onway, Ends) /\ HowMany(onway, Ends) \in Nat
        /\ HowMany(fetched, Ends) \in Nat
    BY <1>1, HowManyCat DEF Ripe
  <2>2. HowMany(q, Ends) = HowMany(Tail(fetched), Ends) + HowMany(onway, Ends)
        /\ HowMany(Tail(fetched), Ends) \in Nat
    BY <1>1, <1>2, HowManyCat
  <2>3. HowMany(fetched, Ends) = One(Head(fetched), Ends) + HowMany(Tail(fetched), Ends)
    BY <1>1, HowManyTail
  <2>4. Ripe' = HowMany(q, Ends)
    BY <1>3 DEF Ripe
  <2>5. One(Head(fetched), Ends) \in {0, 1}
    BY DEF One
  <2> QED
    BY <1>2, <2>1, <2>2, <2>3, <2>4, <2>5
<1> HIDE DEF q
<1>7. ASSUME NEW n, LastIs(p, heard, n) PROVE LastIs(q, fetched[1].to, n)
  <2> HIDE DEF p
  <2>1. p # <<>> /\ p[Len(p)] \in Ends /\ p[Len(p)].to = n
    <3>1. p # <<>>
      BY <1>4
    <3> QED
      BY <1>7, <3>1 DEF LastIs
  <2>2. CASE q = <<>>
    <3>1. Len(p) = 1
      BY <1>4, <2>2
    <3> QED
      BY <1>4, <2>1, <2>2, <3>1 DEF LastIs
  <2>3. CASE q # <<>>
    <3>1. Len(q) \in 1..Len(q) /\ Len(q) + 1 = Len(p)
      BY <1>4, <1>5, <2>3
    <3>2. q[Len(q)] = p[Len(p)]
      BY <1>4, <3>1
    <3> QED
      BY <2>1, <2>3, <3>2 DEF LastIs
  <2> QED
    BY <2>2, <2>3
<1>8. \A n : LastIs(Pipe, heard, n) /\ heard' = fetched[1].to => LastIs(Pipe', heard', n)
  BY <1>3, <1>7 DEF p
<1>9. \A i \in 1..Len(q) : i + 1 \in 1..Len(p) /\ q[i] = p[i + 1]
  <2> HIDE DEF p
  <2> QED
    BY <1>4
<1> QED
  BY <1>2, <1>3, <1>4, <1>6, <1>8, <1>9 DEF p

\* A sequence of lines is sent that ends a reply to the nth command.
LEMMA PipeSend ==
  ASSUME RepliesInv, NEW lines \in Seq(ReplyLines), lines # <<>>, NEW n,
         lines[Len(lines)] \in Ends, lines[Len(lines)].to = n,
         fetched' = fetched, onway' = onway \o lines
  PROVE  /\ onway' \in Seq(ReplyLines)
         /\ Ripe' = Ripe + HowMany(lines, Ends) /\ Ripe \in Nat
         /\ LastIs(Pipe', heard', n)
         /\ Pipe' = Pipe \o lines /\ Pipe \in Seq(ReplyLines)
<1>1. /\ fetched \in Seq(ReplyLines) /\ onway \in Seq(ReplyLines) /\ Pipe \in Seq(ReplyLines)
      /\ onway \o lines \in Seq(ReplyLines)
  BY ConcatProperties DEF RepliesInv, Pipe
<1>2. Pipe' = Pipe \o lines
  <2>1. (fetched \o onway) \o lines = fetched \o (onway \o lines)
    <3>1. fetched \in Seq(ReplyLines) /\ onway \in Seq(ReplyLines) /\ lines \in Seq(ReplyLines)
      BY <1>1
    <3> QED
      BY <3>1, Associative
  <2>2. Pipe' = fetched' \o onway' /\ Pipe = fetched \o onway
    BY DEF Pipe
  <2> QED
    BY <2>1, <2>2
<1>3. Ripe' = Ripe + HowMany(lines, Ends) /\ Ripe \in Nat
  <2>1. Ripe' = HowMany(Pipe', Ends) /\ Ripe = HowMany(Pipe, Ends)
    BY DEF Ripe
  <2>2. HowMany(Pipe \o lines, Ends) = HowMany(Pipe, Ends) + HowMany(lines, Ends)
        /\ HowMany(Pipe, Ends) \in Nat
    BY <1>1, HowManyCat
  <2> QED
    BY <1>2, <2>1, <2>2
<1>4. LastIs(Pipe \o lines, heard', n)
  <2> DEFINE p == Pipe
             q == Pipe \o lines
  <2>1. Len(p) \in Nat /\ Len(lines) \in Nat \ {0} /\ Len(q) = Len(p) + Len(lines)
    BY <1>1
  <2>2. q[Len(p) + Len(lines)] = lines[Len(lines)]
    BY <1>1, <2>1
  <2> HIDE DEF p, q
  <2>3. q # <<>>
    BY <2>1
  <2>4. LastIs(q, heard', n)
    BY <2>1, <2>2, <2>3 DEF LastIs
  <2> QED
    BY <2>4 DEF q
<1> QED
  BY <1>1, <1>2, <1>3, <1>4

\* One element more, behind the others or before them.
LEMMA HowManyAdd ==
  ASSUME NEW C, NEW s \in Seq(C), NEW x \in C, NEW S
  PROVE  /\ HowMany(s \o <<x>>, S) = HowMany(s, S) + One(x, S)
         /\ HowMany(<<x>> \o s, S) = One(x, S) + HowMany(s, S)
<1> DEFINE xs == <<x>>
<1>1. xs \in Seq(C) /\ HowMany(xs, S) = One(x, S)
  BY HowManyOne
<1> HIDE DEF xs
<1>2. /\ HowMany(s \o xs, S) = HowMany(s, S) + HowMany(xs, S)
      /\ HowMany(xs \o s, S) = HowMany(xs, S) + HowMany(s, S)
  BY <1>1, HowManyCat
<1> QED
  BY <1>1, <1>2 DEF xs

\* What arrives is still to be read, and a line that is cut in the part behind the cut.
LEMMA PipeRefill ==
  ASSUME RepliesInv, Refill
  PROVE  /\ fetched' \in Seq(ReplyLines) /\ onway' \in Seq(ReplyLines)
         /\ Ripe' = Ripe /\ \A n : LastIs(Pipe, heard, n) => LastIs(Pipe', heard', n)
         /\ Pipe' = Pipe \/ "split" \in faults'
<1>1. /\ fetched = <<>> /\ onway \in Seq(ReplyLines) /\ Pipe = onway /\ heard' = heard
      /\ Ripe = HowMany(onway, Ends)
  <2>1. fetched = <<>> /\ onway \in Seq(ReplyLines) /\ heard' = heard
    BY DEF Refill, RepliesInv
  <2>2. <<>> \o onway = onway
    BY <2>1, ConcatEmptySeq
  <2> QED
    BY <2>1, <2>2 DEF Pipe, Ripe
<1>2. Len(onway) \in Nat
  BY <1>1
<1>3. CASE \E k \in 1..Len(onway) :
             fetched' = SubSeq(onway, 1, k) /\ onway' = SubSeq(onway, k + 1, Len(onway))
  <2>1. PICK k \in 1..Len(onway) :
          fetched' = SubSeq(onway, 1, k) /\ onway' = SubSeq(onway, k + 1, Len(onway))
    BY <1>3
  <2>2. SubSeq(onway, 1, k) \in Seq(ReplyLines)
        /\ SubSeq(onway, k + 1, Len(onway)) \in Seq(ReplyLines)
    BY <1>1
  <2>3. SubSeq(onway, 1, k) \o SubSeq(onway, k + 1, Len(onway)) = onway
    <3>1. SubSeq(onway, 1, Len(onway)) = onway
      BY <1>1, SubSeqFull
    <3>2. 1 \in 1..(Len(onway) + 1) /\ k \in (1 - 1)..Len(onway) /\ Len(onway) \in k..Len(onway)
      BY <1>2
    <3> QED
      BY <1>1, <3>1, <3>2, ConcatAdjacentSubSeq
  <2>4. Pipe' = Pipe
    BY <1>1, <2>1, <2>3 DEF Pipe
  <2> QED
    BY <1>1, <2>1, <2>2, <2>4 DEF Ripe
<1>4. CASE \E k \in 1..Len(onway), cut \in Cuts :
             /\ onway[k].part = "whole"
             /\ fetched' = [SubSeq(onway, 1, k) EXCEPT ![k].part = cut]
             /\ onway' = [SubSeq(onway, k, Len(onway)) EXCEPT ![1].part = "tail"]
             /\ Goes("split")
  <2>1. PICK k \in 1..Len(onway), cut \in Cuts :
             /\ onway[k].part = "whole"
             /\ fetched' = [SubSeq(onway, 1, k) EXCEPT ![k].part = cut]
             /\ onway' = [SubSeq(onway, k, Len(onway)) EXCEPT ![1].part = "tail"]
             /\ Goes("split")
    BY <1>4
  <2> DEFINE m == Len(onway)
             a == SubSeq(onway, 1, k - 1)
             x == onway[k]
             y == [x EXCEPT !.part = cut]
             z == [x EXCEPT !.part = "tail"]
             b == SubSeq(onway, k + 1, m)
  <2>2. /\ x \in ReplyLines /\ y \in ReplyLines /\ z \in ReplyLines
        /\ y.part = cut /\ z.part = "tail" /\ z.sep = x.sep /\ z.to = x.to /\ cut \in {"stub", "head"}
    <3>1. x \in ReplyLines /\ cut \in {"stub", "head"}
      BY <1>1, RepliesAssumption
    <3> HIDE DEF x
    <3> QED
      BY <3>1 DEF ReplyLines
  <2>3. a \in Seq(ReplyLines) /\ b \in Seq(ReplyLines) /\ Len(a) = k - 1 /\ Len(b) = m - k
        /\ (\A i \in 1..(k - 1) : a[i] = onway[i]) /\ (\A i \in 1..(m - k) : b[i] = onway[k + i])
    BY <1>1, <1>2
  <2>4. fetched' = a \o <<y>>
    <3> DEFINE s == SubSeq(onway, 1, k)
               t == [s EXCEPT ![k].part = cut]
               u == a \o <<y>>
    <3>1. s \in Seq(ReplyLines) /\ Len(s) = k /\ \A i \in 1..k : s[i] = onway[i]
      BY <1>1, <1>2
    <3> HIDE DEF s
    <3>2. t = [s EXCEPT ![k] = [s[k] EXCEPT !.part = cut]] /\ [s[k] EXCEPT !.part = cut] = y
      BY <3>1
    <3> HIDE DEF y, t
    <3>3. t \in Seq(ReplyLines) /\ Len(t) = k /\ \A i \in 1..k : t[i] = IF i = k THEN y ELSE onway[i]
      BY <2>2, <3>1, <3>2
    <3> HIDE DEF a
    <3>4. u \in Seq(ReplyLines) /\ Len(u) = k /\ \A i \in 1..k : u[i] = IF i = k THEN y ELSE onway[i]
      <4>1. <<y>> \in Seq(ReplyLines) /\ Len(<<y>>) = 1 /\ <<y>>[1] = y
        BY <2>2
      <4>2. /\ u \in Seq(ReplyLines) /\ Len(u) = k
            /\ \A i \in 1..k : u[i] = IF i <= k - 1 THEN a[i] ELSE <<y>>[i - (k - 1)]
        BY <2>3, <4>1, ConcatProperties
      <4>3. k - (k - 1) = 1 /\ ~(k <= k - 1) /\ \A i \in 1..k : i # k => i <= k - 1 /\ i \in 1..(k - 1)
        OBVIOUS
      <4>4. u[k] = y
        BY <4>1, <4>2, <4>3
      <4> HIDE DEF u
      <4>5. \A i \in 1..k : i # k => u[i] = onway[i]
        BY <2>3, <4>2, <4>3
      <4> QED
        BY <4>2, <4>4, <4>5
    <3> HIDE DEF u
    <3>5. t = u
      BY <3>3, <3>4, SeqEqual
    <3> QED
      BY <2>1, <3>5 DEF t, s, u
  <2>5. onway' = <<z>> \o b
    <3> DEFINE s == SubSeq(onway, k, m)
               t == [s EXCEPT ![1].part = "tail"]
               u == <<z>> \o b
               Is(i) == IF i = 1 THEN z ELSE onway[k + i - 1]
    <3>1. s \in Seq(ReplyLines) /\ Len(s) = m - k + 1 /\ \A i \in 1..(m - k + 1) : s[i] = onway[k + i - 1]
      BY <1>1, <1>2
    <3>0. s[1] = x /\ m - k + 1 \in Nat \ {0}
      BY <1>2, <3>1
    <3> HIDE DEF s
    <3>2. t = [s EXCEPT ![1] = [s[1] EXCEPT !.part = "tail"]] /\ [s[1] EXCEPT !.part = "tail"] = z
      BY <3>0, <3>1
    <3> HIDE DEF z, t
    <3>3. t \in Seq(ReplyLines) /\ Len(t) = m - k + 1 /\ \A i \in 1..(m - k + 1) : t[i] = Is(i)
      <4>1. 1 \in 1..Len(s) /\ Len(s) = m - k + 1
        BY <3>0, <3>1
      <4>2. /\ t \in Seq(ReplyLines) /\ Len(t) = Len(s)
            /\ \A i \in 1..Len(s) : t[i] = IF i = 1 THEN z ELSE s[i]
        <5>1. t = [s EXCEPT ![1] = z]
          BY <3>2
        <5>2. s \in Seq(ReplyLines) /\ z \in ReplyLines
          BY <2>2, <3>1
        <5> QED
          BY <4>1, <5>1, <5>2
      <4> HIDE DEF m
      <4> QED
        BY <3>1, <4>1, <4>2
    <3> HIDE DEF b
    <3>4. u \in Seq(ReplyLines) /\ Len(u) = m - k + 1 /\ \A i \in 1..(m - k + 1) : u[i] = Is(i)
      <4>1. <<z>> \in Seq(ReplyLines) /\ Len(<<z>>) = 1 /\ <<z>>[1] = z
        BY <2>2
      <4>2. /\ u \in Seq(ReplyLines) /\ Len(u) = 1 + (m - k)
            /\ \A i \in 1..(1 + (m - k)) : u[i] = IF i <= 1 THEN <<z>>[i] ELSE b[i - 1]
        BY <1>2, <2>3, <4>1, ConcatProperties
      <4> HIDE DEF u
      <4>3. \A i \in 1..(m - k + 1) : i # 1 => i - 1 \in 1..(m - k) /\ k + (i - 1) = k + i - 1
        BY <1>2
      <4> QED
        BY <1>2, <2>3, <3>0, <4>1, <4>2, <4>3
    <3> HIDE DEF u, Is
    <3>5. t = u
      BY <3>3, <3>4, SeqEqual
    <3> QED
      BY <2>1, <3>5 DEF t, s, u
  <2>6. onway = (a \o <<x>>) \o b
    <3>1. SubSeq(onway, 1, k) = a \o <<x>>
      <4>1. 1 \in 1..Len(onway) /\ k \in 1..Len(onway)
        BY <1>2
      <4> QED
        BY <1>1, <4>1, SubSeqRecursiveSecond
    <3>2. SubSeq(onway, 1, k) \o b = SubSeq(onway, 1, Len(onway))
      <4>1. 1 \in 1..(Len(onway) + 1) /\ k \in (1 - 1)..Len(onway) /\ Len(onway) \in k..Len(onway)
        BY <1>2
      <4> QED
        BY <1>1, <4>1, ConcatAdjacentSubSeq
    <3> QED
      BY <1>1, <3>1, <3>2, SubSeqFull
  <2> HIDE DEF a, b, x, y, z, m
  <2>7. fetched' \in Seq(ReplyLines) /\ onway' \in Seq(ReplyLines)
    BY <2>2, <2>3, <2>4, <2>5, ConcatProperties
  <2>8. Ripe' = Ripe
    <3>0. <<x>> \in Seq(ReplyLines) /\ <<y>> \in Seq(ReplyLines) /\ <<z>> \in Seq(ReplyLines)
      BY <2>2
    <3>1. Ripe' = HowMany(a \o <<y>>, Ends) + HowMany(<<z>> \o b, Ends)
      BY <2>4, <2>5, <2>7, HowManyCat DEF Ripe, Pipe
    <3>2. HowMany(a \o <<y>>, Ends) = HowMany(a, Ends) + One(y, Ends)
      BY <2>2, <2>3, HowManyAdd
    <3>3. HowMany(<<z>> \o b, Ends) = One(z, Ends) + HowMany(b, Ends)
      BY <2>2, <2>3, HowManyAdd
    <3>4. HowMany(a \o <<x>>, Ends) = HowMany(a, Ends) + One(x, Ends)
      BY <2>2, <2>3, HowManyAdd
    <3>5. a \o <<x>> \in Seq(ReplyLines)
      BY <2>3, <3>0, ConcatProperties
    <3>6. HowMany(onway, Ends) = HowMany(a \o <<x>>, Ends) + HowMany(b, Ends)
      <4> DEFINE c == a \o <<x>>
      <4> HIDE DEF c
      <4>1. c \in Seq(ReplyLines) /\ onway = c \o b
        BY <2>6, <3>5 DEF c
      <4>2. HowMany(c \o b, Ends) = HowMany(c, Ends) + HowMany(b, Ends)
        BY <2>3, <4>1, HowManyCat
      <4> QED
        BY <4>1, <4>2 DEF c
    <3>7. One(y, Ends) = 0 /\ One(z, Ends) = One(x, Ends) /\ One(x, Ends) \in {0, 1}
      <4>1. y \notin Ends /\ (z \in Ends <=> x \in Ends)
        BY <2>1, <2>2 DEF Ends, x
      <4> QED
        BY <4>1 DEF One
    <3>8. HowMany(a, Ends) \in Nat /\ HowMany(b, Ends) \in Nat
      BY <2>3, HowManyCat
    <3> QED
      BY <1>1, <3>1, <3>2, <3>3, <3>4, <3>6, <3>7, <3>8
  <2>9. ASSUME NEW n, LastIs(Pipe, heard, n) PROVE LastIs(Pipe', heard', n)
    <3> DEFINE q == (a \o <<y>>) \o (<<z>> \o b)
    <3>1. Pipe' = q
      BY <2>4, <2>5 DEF Pipe
    <3>2. onway # <<>> /\ onway[m] \in Ends /\ onway[m].to = n
      <4>1. onway # <<>>
        BY <1>2 DEF m
      <4> QED
        BY <1>1, <2>9, <4>1 DEF LastIs, m
    <3>3. q \in Seq(ReplyLines) /\ Len(q) = m + 1
          /\ q[m + 1] = IF k = m THEN z ELSE b[m - k]
      <4>1. <<y>> \in Seq(ReplyLines) /\ <<z>> \in Seq(ReplyLines)
            /\ Len(<<y>>) = 1 /\ Len(<<z>>) = 1 /\ <<z>>[1] = z
        BY <2>2
      <4>2. a \o <<y>> \in Seq(ReplyLines) /\ Len(a \o <<y>>) = k
        BY <2>3, <4>1
      <4>3. /\ <<z>> \o b \in Seq(ReplyLines) /\ Len(<<z>> \o b) = m - k + 1
            /\ (<<z>> \o b)[m - k + 1] = IF k = m THEN z ELSE b[m - k]
        <5> DEFINE u == <<z>> \o b
        <5>1. /\ u \in Seq(ReplyLines) /\ Len(u) = 1 + (m - k)
              /\ \A i \in 1..(1 + (m - k)) : u[i] = IF i <= 1 THEN <<z>>[i] ELSE b[i - 1]
          BY <1>2, <2>3, <4>1, ConcatProperties DEF m
        <5> HIDE DEF u
        <5>2. m - k + 1 \in 1..(1 + (m - k)) /\ m - k + 1 = 1 + (m - k) /\ (m - k + 1) - 1 = m - k
              /\ (m - k + 1 <= 1 <=> k = m) /\ (k = m => m - k + 1 = 1)
          BY <1>2 DEF m
        <5>3. u[m - k + 1] = IF m - k + 1 <= 1 THEN <<z>>[m - k + 1] ELSE b[(m - k + 1) - 1]
          BY <5>1, <5>2
        <5>4. CASE k = m
          BY <4>1, <5>1, <5>2, <5>3, <5>4 DEF u
        <5>5. CASE k # m
          BY <5>1, <5>2, <5>3, <5>5 DEF u
        <5> QED
          BY <5>4, <5>5
      <4> DEFINE f == a \o <<y>>
                 g == <<z>> \o b
      <4> HIDE DEF f, g
      <4>4. f \in Seq(ReplyLines) /\ Len(f) = k /\ g \in Seq(ReplyLines) /\ Len(g) = m - k + 1
        BY <4>2, <4>3 DEF f, g
      <4>5. f \o g \in Seq(ReplyLines) /\ Len(f \o g) = m + 1 /\ (f \o g)[m + 1] = g[m - k + 1]
        BY <1>2, <4>4 DEF m
      <4> QED
        BY <4>3, <4>5 DEF f, g
    <3> HIDE DEF q
    <3>4. q # <<>>
      BY <1>2, <3>3 DEF m
    <3>5. LastIs(q, heard', n)
      <4>1. q[m + 1] \in Ends /\ q[m + 1].to = n
        <5>1. CASE k = m
          <6>1. x \in Ends /\ x.to = n
            BY <3>2, <5>1 DEF x
          <6>2. z \in Ends /\ z.to = n
            BY <2>2, <6>1 DEF Ends
          <6> QED
            BY <3>3, <5>1, <6>2
        <5>2. CASE k # m
          <6>1. m - k \in 1..(m - k) /\ k + (m - k) = m
            BY <1>2, <5>2 DEF m
          <6>2. b[m - k] = onway[m]
            BY <2>3, <6>1
          <6> QED
            BY <3>2, <3>3, <5>2, <6>2
        <5> QED
          BY <5>1, <5>2
      <4> QED
        BY <3>3, <3>4, <4>1 DEF LastIs
    <3> QED
      BY <3>1, <3>5
  <2>10. "split" \in faults'
    BY <2>1 DEF Goes
  <2> QED
    BY <2>7, <2>8, <2>9, <2>10
<1> QED
  BY <1>3, <1>4 DEF Refill

\* The invariant of the replies, when no line arrives or is read,
LEMMA SameReplies ==
  ASSUME RepliesInv, UNCHANGED <<fetched, onway, o, hungUp, faults>>, asked' \in Int
  PROVE  RepliesInv'
BY DEF RepliesInv, Pipe

\* when the server hangs up,
LEMMA HangReplies == ASSUME RepliesInv, HangUp PROVE RepliesInv'
<1>1. /\ UNCHANGED <<fetched, onway, o, asked>> /\ faults = {} /\ "dropped" \in faults'
      /\ "split" \notin faults
  BY DEF HangUp, Goes
<1> QED
  BY <1>1 DEF RepliesInv, Pipe

\* when lines arrive,
LEMMA RefillReplies == ASSUME RepliesInv, Refill PROVE RepliesInv'
<1>1. /\ UNCHANGED <<o, hungUp, asked>>
      /\ faults' = faults \/ (faults = {} /\ faults' = {"split"})
  BY DEF Refill, Goes
<1>2. fetched = <<>> /\ onway \in Seq(ReplyLines)
  BY DEF Refill, RepliesInv
<1>3. /\ fetched' \in Seq(ReplyLines) /\ onway' \in Seq(ReplyLines)
      /\ Pipe' = Pipe \/ "split" \in faults'
  BY PipeRefill
<1> QED
  BY <1>1, <1>3 DEF RepliesInv

\* when one is read, and when the server sends some.
LEMMA ReadReplies ==
  ASSUME RepliesInv, fetched # <<>>, fetched' = Tail(fetched),
         UNCHANGED <<onway, o, hungUp, faults, asked>>
  PROVE  RepliesInv'
<1>1. /\ fetched' \in Seq(ReplyLines)
      /\ \A i \in 1..Len(Pipe') : i + 1 \in 1..Len(Pipe) /\ Pipe'[i] = Pipe[i + 1]
  BY PipeRead
<1> QED
  BY <1>1 DEF RepliesInv

LEMMA SendReplies ==
  ASSUME RepliesInv, NEW lines \in Seq(ReplyLines), lines # <<>>, NEW n,
         lines[Len(lines)] \in Ends, lines[Len(lines)].to = n,
         \A i \in 1..Len(lines) : lines[i].part = "whole",
         onway' = onway \o lines, UNCHANGED <<fetched, o, hungUp, asked>>, faults \subseteq faults'
  PROVE  RepliesInv'
<1>1. onway' \in Seq(ReplyLines) /\ Pipe' = Pipe \o lines /\ Pipe \in Seq(ReplyLines)
  BY PipeSend
<1>2. ASSUME "split" \notin faults PROVE \A i \in 1..Len(Pipe') : Pipe'[i].part = "whole"
  <2> DEFINE p == Pipe
             q == p \o lines
  <2>1. \A i \in 1..Len(p) : p[i].part = "whole"
    BY <1>2 DEF RepliesInv
  <2>2. /\ Len(p) \in Nat /\ Len(lines) \in Nat /\ Len(q) = Len(p) + Len(lines)
        /\ \A i \in 1..(Len(p) + Len(lines)) : q[i] = IF i <= Len(p) THEN p[i] ELSE lines[i - Len(p)]
    BY <1>1, ConcatProperties
  <2>3. Pipe' = q
    BY <1>1
  <2> HIDE DEF p, q
  <2>4. \A i \in 1..Len(q) : q[i].part = "whole"
    <3> SUFFICES ASSUME NEW i \in 1..Len(q) PROVE q[i].part = "whole"
      OBVIOUS
    <3>1. CASE i <= Len(p)
      BY <2>1, <2>2, <3>1
    <3>2. CASE ~(i <= Len(p))
      <4>1. i - Len(p) \in 1..Len(lines)
        BY <2>2, <3>2
      <4> QED
        BY <2>2, <3>2, <4>1
    <3> QED
      BY <3>1, <3>2
  <2> QED
    BY <2>3, <2>4
<1> QED
  BY <1>1, <1>2 DEF RepliesInv

----------------------------------------------------------------------------
(* The smtp client keeps in step                                           *)

\* How far the client (t: what is left of its call), the way to the server (s),
\* the server (v) and the replies (e: their number) can be at the same time, if
\* the program reads the replies with get.
Stage(get, t, s, v, e) ==
  \/ t = <<>> /\ s = <<>> /\ v = "command" /\ e = 0
  \/ t = <<get, "line", get>> /\ s = <<>> /\ v = "command" /\ e = 1
  \/ t = <<"line", get>> /\ s = <<>> /\ v = "command" /\ e = 0
  \/ t = <<get>> /\ s = <<"line">> /\ v = "command" /\ e = 0
  \/ t = <<get>> /\ s = <<"body">> /\ v = "data" /\ e = 0
  \/ t = <<get>> /\ s = <<>> /\ v = "command" /\ e = 1
  \/ get = "get" /\ t = <<"data", "get", "body", "get">> /\ s = <<>> /\ v = "command" /\ e = 0
  \/ get = "get" /\ t = <<"get", "body", "get">> /\ s = <<"data">> /\ v = "command" /\ e = 0
  \/ get = "get" /\ t = <<"get", "body", "get">> /\ s = <<>> /\ v = "data" /\ e = 1
  \/ get = "get" /\ t = <<"body", "get">> /\ s = <<>> /\ v = "data" /\ e = 0
  \/ get = "print" /\ t = <<"data", "body", "print", "print">> /\ s = <<>> /\ v = "command" /\ e = 0
  \/ get = "print" /\ t = <<"body", "print", "print">> /\ s = <<"data">> /\ v = "command" /\ e = 0
  \/ get = "print" /\ t = <<"body", "print", "print">> /\ s = <<>> /\ v = "data" /\ e = 1
  \/ get = "print" /\ t = <<"print", "print">> /\ s = <<"data", "body">> /\ v = "command" /\ e = 0
  \/ get = "print" /\ t = <<"print", "print">> /\ s = <<"body">> /\ v = "data" /\ e = 1
  \/ get = "print" /\ t = <<"print", "print">> /\ s = <<>> /\ v = "command" /\ e = 2

Read == IF o THEN "get" ELSE "print"

\* The client sends.
LEMMA StageSend ==
  ASSUME NEW get \in {"get", "print"}, NEW t, NEW s, NEW v, NEW e, Stage(get, t, s, v, e),
         t # <<>>, Head(t) \in {"line", "data", "body"}
  PROVE  /\ Stage(get, Tail(t), Append(s, Head(t)), v, e)
         /\ Len(s) \in Nat /\ Len(Append(s, Head(t))) = Len(s) + 1
<1>1. Append(<<"data">>, "body") = <<"data", "body">>
  BY PairIs
<1>2. CASE t = <<"line", get>> /\ s = <<>> /\ v = "command" /\ e = 0
  BY <1>1, <1>2 DEF Stage
<1>3. CASE get = "get" /\ t = <<"data", "get", "body", "get">> /\ s = <<>> /\ v = "command" /\ e = 0
  BY <1>1, <1>3 DEF Stage
<1>4. CASE get = "get" /\ t = <<"body", "get">> /\ s = <<>> /\ v = "data" /\ e = 0
  BY <1>1, <1>4 DEF Stage
<1>5. CASE get = "print" /\ t = <<"data", "body", "print", "print">> /\ s = <<>> /\ v = "command" /\ e = 0
  BY <1>1, <1>5 DEF Stage
<1>6. CASE get = "print" /\ t = <<"body", "print", "print">> /\ s = <<"data">> /\ v = "command" /\ e = 0
  BY <1>1, <1>6 DEF Stage
<1>7. CASE get = "print" /\ t = <<"body", "print", "print">> /\ s = <<>> /\ v = "data" /\ e = 1
  BY <1>1, <1>7 DEF Stage
<1> QED
  BY <1>2, <1>3, <1>4, <1>5, <1>6, <1>7 DEF Stage

\* The client has read a reply.
LEMMA StageRead ==
  ASSUME NEW get \in {"get", "print"}, NEW t, NEW s, NEW v, NEW e, Stage(get, t, s, v, e),
         t # <<>>, Head(t) \in {"get", "print"}
  PROVE  /\ Head(t) = get
         /\ e # 0 => Stage(get, Tail(t), s, v, e - 1)
<1>1. CASE t = <<get, "line", get>> /\ s = <<>> /\ v = "command" /\ e = 1
  BY <1>1 DEF Stage
<1>2. CASE t = <<get>> /\ s = <<"line">> /\ v = "command" /\ e = 0
  BY <1>2 DEF Stage
<1>3. CASE t = <<get>> /\ s = <<"body">> /\ v = "data" /\ e = 0
  BY <1>3 DEF Stage
<1>4. CASE t = <<get>> /\ s = <<>> /\ v = "command" /\ e = 1
  BY <1>4 DEF Stage
<1>5. CASE get = "get" /\ t = <<"get", "body", "get">> /\ s = <<"data">> /\ v = "command" /\ e = 0
  BY <1>5 DEF Stage
<1>6. CASE get = "get" /\ t = <<"get", "body", "get">> /\ s = <<>> /\ v = "data" /\ e = 1
  BY <1>6 DEF Stage
<1>7. CASE get = "print" /\ t = <<"print", "print">> /\ s = <<"data", "body">> /\ v = "command" /\ e = 0
  BY <1>7 DEF Stage
<1>8. CASE get = "print" /\ t = <<"print", "print">> /\ s = <<"body">> /\ v = "data" /\ e = 1
  BY <1>8 DEF Stage
<1>9. CASE get = "print" /\ t = <<"print", "print">> /\ s = <<>> /\ v = "command" /\ e = 2
  BY <1>9 DEF Stage
<1> QED
  BY <1>1, <1>2, <1>3, <1>4, <1>5, <1>6, <1>7, <1>8, <1>9 DEF Stage

\* The server reads.
LEMMA StageServe ==
  ASSUME NEW get \in {"get", "print"}, NEW t, NEW s, NEW v, NEW e, Stage(get, t, s, v, e),
         s # <<>>
  PROVE  /\ Head(s) \in {"line", "data", "body"} /\ Len(Tail(s)) = Len(s) - 1 /\ Len(s) \in Nat
         /\ Head(s) = "line" => Stage(get, t, Tail(s), v, e + 1)
         /\ Head(s) = "data" => v = "command" /\ Stage(get, t, Tail(s), "data", e + 1)
         /\ Head(s) = "body" => v = "data" /\ Stage(get, t, Tail(s), "command", e + 1)
<1>1. CASE t = <<get>> /\ s = <<"line">> /\ v = "command" /\ e = 0
  BY <1>1 DEF Stage
<1>2. CASE t = <<get>> /\ s = <<"body">> /\ v = "data" /\ e = 0
  BY <1>2 DEF Stage
<1>3. CASE get = "get" /\ t = <<"get", "body", "get">> /\ s = <<"data">> /\ v = "command" /\ e = 0
  BY <1>3 DEF Stage
<1>4. CASE get = "print" /\ t = <<"body", "print", "print">> /\ s = <<"data">> /\ v = "command" /\ e = 0
  BY <1>4 DEF Stage
<1>5. CASE get = "print" /\ t = <<"print", "print">> /\ s = <<"data", "body">> /\ v = "command" /\ e = 0
  BY <1>5 DEF Stage
<1>6. CASE get = "print" /\ t = <<"print", "print">> /\ s = <<"body">> /\ v = "data" /\ e = 1
  BY <1>6 DEF Stage
<1> QED
  BY <1>1, <1>2, <1>3, <1>4, <1>5, <1>6 DEF Stage

\* Three and four elements in a sequence.
LEMMA MoreAre ==
  ASSUME NEW C, NEW w \in C, NEW x \in C, NEW y \in C, NEW z \in C
  PROVE  <<w, x>> \o <<y>> = <<w, x, y>> /\ <<w, x, y>> \o <<z>> = <<w, x, y, z>>
<1> DEFINE s == <<w, x>> \o <<y>>
           t == <<w, x, y>>
           q == t \o <<z>>
           r == <<w, x, y, z>>
<1>1. s \in Seq(C) /\ Len(s) = 3 /\ s[1] = w /\ s[2] = x /\ s[3] = y
  BY <<w, x>> \in Seq(C), <<y>> \in Seq(C)
<1>2. t \in Seq(C) /\ Len(t) = 3 /\ t[1] = w /\ t[2] = x /\ t[3] = y
  OBVIOUS
<1>3. q \in Seq(C) /\ Len(q) = 4 /\ q[1] = w /\ q[2] = x /\ q[3] = y /\ q[4] = z
  BY t \in Seq(C), <<z>> \in Seq(C)
<1>4. r \in Seq(C) /\ Len(r) = 4 /\ r[1] = w /\ r[2] = x /\ r[3] = y /\ r[4] = z
  OBVIOUS
<1> HIDE DEF s, t, q, r
<1>5. s = t
  <2>1. \A i \in 1..Len(s) : s[i] = t[i]
    <3>1. \A i \in 1..3 : i = 1 \/ i = 2 \/ i = 3
      OBVIOUS
    <3> QED
      BY <1>1, <1>2, <3>1
  <2> QED
    BY <1>1, <1>2, <2>1, SeqEqual
<1>6. q = r
  <2>1. \A i \in 1..Len(q) : q[i] = r[i]
    <3>1. \A i \in 1..4 : i = 1 \/ i = 2 \/ i = 3 \/ i = 4
      OBVIOUS
    <3> QED
      BY <1>3, <1>4, <3>1
  <2> QED
    BY <1>3, <1>4, <2>1, SeqEqual
<1> QED
  BY <1>5, <1>6 DEF s, t, q, r

\* What the calls do.
LEMMA StepsAre ==
  /\ o => /\ Steps("HELO") = <<"get", "line", "get">>
          /\ Steps("DATA") = <<"data", "get", "body", "get">>
          /\ Steps("NOOP") = <<"line", "get">>
  /\ ~o => /\ Steps("HELO") = <<"print", "line", "print">>
           /\ Steps("DATA") = <<"data", "body", "print", "print">>
           /\ Steps("NOOP") = <<"line", "print">>
<1> DEFINE W == {"get", "print", "line", "data", "body"}
<1>1. \A w, x, y, z \in W :
        /\ <<w>> \o <<x>> = <<w, x>> /\ <<w, x>> \o <<y>> = <<w, x, y>>
        /\ <<w, x, y>> \o <<z>> = <<w, x, y, z>>
  <2> SUFFICES ASSUME NEW w \in W, NEW x \in W, NEW y \in W, NEW z \in W
               PROVE  /\ <<w>> \o <<x>> = <<w, x>> /\ <<w, x>> \o <<y>> = <<w, x, y>>
                      /\ <<w, x, y>> \o <<z>> = <<w, x, y, z>>
    OBVIOUS
  <2> HIDE DEF W
  <2>1. <<w>> \o <<x>> = <<w, x>>
    BY PairIs
  <2>2. <<w, x>> \o <<y>> = <<w, x, y>> /\ <<w, x, y>> \o <<z>> = <<w, x, y, z>>
    BY MoreAre
  <2> QED
    BY <2>1, <2>2
<1>2. \A w, x, y, z \in W :
        /\ <<w>> \o <<>> = <<w>> /\ <<>> \o <<w>> = <<w>> /\ <<w, x>> \o <<>> = <<w, x>>
        /\ <<w, x, y>> \o <<>> = <<w, x, y>> /\ <<w, x, y, z>> \o <<>> = <<w, x, y, z>>
  <2> SUFFICES ASSUME NEW w \in W, NEW x \in W, NEW y \in W, NEW z \in W
               PROVE  /\ <<w>> \o <<>> = <<w>> /\ <<>> \o <<w>> = <<w>> /\ <<w, x>> \o <<>> = <<w, x>>
                      /\ <<w, x, y>> \o <<>> = <<w, x, y>>
                      /\ <<w, x, y, z>> \o <<>> = <<w, x, y, z>>
    OBVIOUS
  <2> HIDE DEF W
  <2>1. \A s \in Seq(W) : s \o <<>> = s /\ <<>> \o s = s
    BY ConcatEmptySeq
  <2>2. <<w>> \in Seq(W) /\ <<w, x>> \in Seq(W) /\ <<w, x, y>> \in Seq(W)
        /\ <<w, x, y, z>> \in Seq(W)
    OBVIOUS
  <2> QED
    BY <2>1, <2>2
<1>3. "get" \in W /\ "print" \in W /\ "line" \in W /\ "data" \in W /\ "body" \in W
  OBVIOUS
<1> HIDE DEF W
<1>4. CASE o
  <2>1. Got = <<"get">> /\ Printed = <<>>
    BY <1>4 DEF Got, Printed
  <2>2. Steps("HELO") = (((<<"get">> \o <<>>) \o <<"line">>) \o <<"get">>) \o <<>>
    BY <2>1 DEF Steps
  <2>3. Steps("DATA") = ((((<<"data">> \o <<"get">>) \o <<"body">>) \o <<"get">>) \o <<>>) \o <<>>
    BY <2>1 DEF Steps
  <2>4. Steps("NOOP") = (<<"line">> \o <<"get">>) \o <<>>
    BY <2>1 DEF Steps
  <2>5. Steps("HELO") = <<"get", "line", "get">>
    BY <1>1, <1>2, <1>3, <2>2
  <2>6. Steps("DATA") = <<"data", "get", "body", "get">>
    BY <1>1, <1>2, <1>3, <2>3
  <2>7. Steps("NOOP") = <<"line", "get">>
    BY <1>1, <1>2, <1>3, <2>4
  <2> QED
    BY <1>4, <2>5, <2>6, <2>7
<1>5. CASE ~o
  <2>1. Got = <<>> /\ Printed = <<"print">>
    BY <1>5 DEF Got, Printed
  <2>2. Steps("HELO") = (((<<>> \o <<"print">>) \o <<"line">>) \o <<>>) \o <<"print">>
    BY <2>1 DEF Steps
  <2>3. Steps("DATA") =
          ((((<<"data">> \o <<>>) \o <<"body">>) \o <<>>) \o <<"print">>) \o <<"print">>
    BY <2>1 DEF Steps
  <2>4. Steps("NOOP") = (<<"line">> \o <<>>) \o <<"print">>
    BY <2>1 DEF Steps
  <2>5. Steps("HELO") = <<"print", "line", "print">>
    BY <1>1, <1>2, <1>3, <2>2
  <2>6. Steps("DATA") = <<"data", "body", "print", "print">>
    BY <1>1, <1>2, <1>3, <2>3
  <2>7. Steps("NOOP") = <<"line", "print">>
    BY <1>1, <1>2, <1>3, <2>4
  <2> QED
    BY <1>5, <2>5, <2>6, <2>7
<1> QED
  BY <1>4, <1>5

\* A call begins where the last has ended.
LEMMA StageCall ==
  ASSUME NEW s, NEW v, NEW e, o \in BOOLEAN, Stage(Read, <<>>, s, v, e), NEW cmd \in {"DATA", "NOOP"}
  PROVE  Stage(Read, Steps(cmd), s, v, e)
<1>1. s = <<>> /\ v = "command" /\ e = 0
  BY DEF Stage
<1>2. CASE o
  BY <1>1, <1>2, StepsAre DEF Stage, Read
<1>3. CASE ~o
  BY <1>1, <1>3, StepsAre DEF Stage, Read
<1> QED
  BY <1>2, <1>3

\* The client and the server of a mail that send_buf gets right go through the
\* stages, unless something else goes wrong than the client can bear.
SmtpQuiet == mail.clean /\ faults \subseteq (IF o THEN {} ELSE {"split"})
StageInv ==
  SmtpQuiet => /\ Stage(Read, todo, tosrv, srv, Ripe)
               /\ LastIs(Pipe, heard, asked - Len(tosrv))
SmtpInv == MailInv /\ (mail.clean => RepliesInv /\ StageInv)

Codes == {"1", "2", "3", "4", "5"}

\* A reply has one end.
LEMMA AnswersType ==
  ASSUME NEW c \in Codes, NEW n \in Int, NEW lines \in Answers(c, n)
  PROVE  /\ lines \in Seq(ReplyLines) /\ lines # <<>> /\ HowMany(lines, Ends) = 1
         /\ lines[Len(lines)] \in Ends /\ lines[Len(lines)].to = n
         /\ \A i \in 1..Len(lines) : lines[i].part = "whole"
<1> DEFINE x == Line(c, "-", n)
           y == Line(c, " ", n)
<1>1. /\ x \in ReplyLines /\ x \notin Ends /\ y \in ReplyLines /\ y \in Ends /\ y.to = n
      /\ x.part = "whole" /\ y.part = "whole"
  BY DEF Line, ReplyLines, Ends, Codes
<1>2. One(x, Ends) = 0 /\ One(y, Ends) = 1
  BY <1>1 DEF One
<1>3. lines = <<y>> \/ lines = <<x, y>>
  BY DEF Answers
<1> HIDE DEF x, y
<1>4. CASE lines = <<y>>
  <2>1. HowMany(<<y>>, Ends) = 1
    BY <1>2, HowManyOne
  <2> QED
    BY <1>1, <1>4, <2>1
<1>5. CASE lines = <<x, y>>
  <2> DEFINE begin == <<x>>
  <2>1. begin \in Seq(ReplyLines) /\ HowMany(begin, Ends) = 0
    BY <1>1, <1>2, HowManyOne
  <2>3. begin \o <<y>> = <<x, y>>
    BY <1>1, PairIs
  <2> HIDE DEF begin
  <2>2. HowMany(begin \o <<y>>, Ends) = HowMany(begin, Ends) + One(y, Ends)
    BY <1>1, <2>1, HowManyAdd
  <2>7. lines = begin \o <<y>>
    BY <1>5, <2>3
  <2>4. HowMany(lines, Ends) = 1
    BY <1>2, <2>1, <2>2, <2>7
  <2>5. Len(lines) = 2 /\ lines[1] = x /\ lines[2] = y /\ \A i \in 1..2 : i = 1 \/ i = 2
    BY <1>5
  <2>6. lines \in Seq(ReplyLines) /\ lines # <<>>
    BY <1>1, <1>5
  <2> QED
    BY <1>1, <2>4, <2>5, <2>6
<1> QED
  BY <1>3, <1>4, <1>5

\* A sequence of the same element.
LEMMA SameElements ==
  ASSUME NEW C, NEW y \in C, NEW k \in Nat
  PROVE  /\ [i \in 1..k |-> y] \in Seq(C) /\ Len([i \in 1..k |-> y]) = k
         /\ \A i \in 1..k : [j \in 1..k |-> y][i] = y
OBVIOUS

\* The server tells the client of errors, each in a reply of its own.
LEMMA ErrorsType ==
  ASSUME NEW n \in Int, NEW k \in Nat \ {0}
  PROVE  LET lines == [i \in 1..k |-> Line("5", " ", n)]
         IN  /\ lines \in Seq(ReplyLines) /\ lines # <<>>
             /\ lines[Len(lines)] \in Ends /\ lines[Len(lines)].to = n
             /\ \A i \in 1..Len(lines) : lines[i].part = "whole"
<1> DEFINE y == Line("5", " ", n)
           t == [i \in 1..k |-> y]
<1>1. y \in ReplyLines /\ y \in Ends /\ y.to = n /\ y.part = "whole"
  BY DEF Line, ReplyLines, Ends
<1>2. k # 0 /\ k \in 1..k
  OBVIOUS
<1> HIDE DEF y
<1>3. t \in Seq(ReplyLines) /\ Len(t) = k /\ \A i \in 1..k : t[i] = y
  BY <1>1, SameElements
<1> HIDE DEF t
<1>4. t # <<>>
  BY <1>2, <1>3
<1>5. /\ t \in Seq(ReplyLines) /\ t # <<>> /\ t[Len(t)] \in Ends /\ t[Len(t)].to = n
      /\ \A i \in 1..Len(t) : t[i].part = "whole"
  BY <1>1, <1>2, <1>3, <1>4
<1> QED
  BY <1>5 DEF t, y

LEMMA InitSmtp == SmtpStart => SmtpInv
<1> SUFFICES ASSUME SmtpStart PROVE RepliesInv /\ StageInv
  BY MailInit DEF SmtpInv
<1>1. /\ o \in BOOLEAN /\ tosrv = <<>> /\ srv = "command" /\ onway \in Answers("2", 0)
      /\ fetched = <<>> /\ hungUp = FALSE /\ asked = 0 /\ heard = -1 /\ todo = Steps("HELO")
  BY DEF SmtpStart, RepliesInit
<1>2. /\ onway \in Seq(ReplyLines) /\ onway # <<>> /\ HowMany(onway, Ends) = 1
      /\ onway[Len(onway)] \in Ends /\ onway[Len(onway)].to = 0
      /\ \A i \in 1..Len(onway) : onway[i].part = "whole"
  BY <1>1, AnswersType DEF Codes
<1>3. Pipe = onway
  BY <1>1, <1>2, ConcatEmptySeq DEF Pipe
<1>4. RepliesInv
  BY <1>1, <1>2, <1>3 DEF RepliesInv
<1>5. Stage(Read, todo, tosrv, srv, Ripe)
  <2>1. Ripe = 1
    BY <1>2, <1>3 DEF Ripe
  <2>2. CASE o
    BY <1>1, <2>1, <2>2, StepsAre DEF Stage, Read
  <2>3. CASE ~o
    BY <1>1, <2>1, <2>3, StepsAre DEF Stage, Read
  <2> QED
    BY <1>1, <2>2, <2>3
<1>6. LastIs(Pipe, heard, asked - Len(tosrv))
  <2>1. Len(tosrv) = 0 /\ asked = 0
    BY <1>1
  <2>2. asked - Len(tosrv) = 0
    BY <2>1
  <2> QED
    BY <1>2, <1>3, <2>2 DEF LastIs
<1> QED
  BY <1>4, <1>5, <1>6 DEF StageInv

\* What has gone wrong stays so, and the program reads replies as it did.
LEMMA QuietBefore ==
  ASSUME UNCHANGED <<mail, o>>, faults \subseteq faults'
  PROVE  (SmtpQuiet' => SmtpQuiet) /\ Read' = Read
BY DEF SmtpQuiet, Read

\* The lines that are to be read are the same ones.
LEMMA SamePipe ==
  ASSUME UNCHANGED <<fetched, onway>>
  PROVE  Pipe' = Pipe /\ Ripe' = Ripe
BY DEF Pipe, Ripe

LEMMA CallSmtp ==
  ASSUME RepliesInv, StageInv, NEW cmd \in {"DATA", "NOOP"}, SmtpCall(cmd)
  PROVE  RepliesInv' /\ StageInv'
<1>1. /\ todo = <<>> /\ todo' = Steps(cmd) /\ o \in BOOLEAN /\ asked \in Int
      /\ UNCHANGED <<o, tosrv, srv, onway, fetched, hungUp, asked, heard, faults, mail>>
  BY DEF SmtpCall, Idle, smtpvars, RepliesInv
<1>2. RepliesInv'
  BY <1>1, SameReplies
<1>3. Pipe' = Pipe /\ Ripe' = Ripe /\ Read' = Read /\ (SmtpQuiet' => SmtpQuiet)
  BY <1>1, SamePipe, QuietBefore
<1>4. ASSUME SmtpQuiet'
      PROVE  Stage(Read, Steps(cmd), tosrv, srv, Ripe) /\ LastIs(Pipe, heard, asked - Len(tosrv))
  BY <1>1, <1>3, <1>4, StageCall DEF StageInv
<1> QED
  BY <1>1, <1>2, <1>3, <1>4 DEF StageInv

LEMMA SendSmtp ==
  ASSUME RepliesInv, StageInv, smtp_send_cmd
  PROVE  RepliesInv' /\ StageInv'
<1>1. /\ todo # <<>> /\ Head(todo) \in {"line", "data", "body"} /\ asked \in Int
      /\ tosrv' = Append(tosrv, Head(todo)) /\ asked' = asked + 1 /\ todo' = Tail(todo)
      /\ UNCHANGED <<o, srv, onway, fetched, hungUp, heard, faults, mail>>
  BY DEF smtp_send_cmd, smtpvars, RepliesInv
<1>2. RepliesInv'
  BY <1>1, SameReplies
<1>3. Pipe' = Pipe /\ Ripe' = Ripe /\ Read' = Read /\ (SmtpQuiet' => SmtpQuiet)
  BY <1>1, SamePipe, QuietBefore
<1>4. ASSUME SmtpQuiet'
      PROVE  /\ Stage(Read, Tail(todo), Append(tosrv, Head(todo)), srv, Ripe)
             /\ LastIs(Pipe, heard, (asked + 1) - Len(Append(tosrv, Head(todo))))
  <2>1. Stage(Read, todo, tosrv, srv, Ripe) /\ LastIs(Pipe, heard, asked - Len(tosrv))
    BY <1>3, <1>4 DEF StageInv
  <2>2. /\ Stage(Read, Tail(todo), Append(tosrv, Head(todo)), srv, Ripe)
        /\ Len(tosrv) \in Nat /\ Len(Append(tosrv, Head(todo))) = Len(tosrv) + 1
    <3>1. Read \in {"get", "print"}
      BY DEF Read
    <3> QED
      BY <1>1, <2>1, <3>1, StageSend
  <2>3. (asked + 1) - Len(Append(tosrv, Head(todo))) = asked - Len(tosrv)
    BY <1>1, <2>2
  <2> QED
    BY <2>1, <2>2, <2>3
<1> QED
  BY <1>1, <1>2, <1>3, <1>4 DEF StageInv

LEMMA RefillSmtp ==
  ASSUME RepliesInv, StageInv, Refill, UNCHANGED smtpvars
  PROVE  RepliesInv' /\ StageInv'
<1>1. UNCHANGED <<o, tosrv, srv, hungUp, todo, asked, mail>> /\ faults \subseteq faults'
  BY DEF Refill, Goes, smtpvars
<1>2. RepliesInv'
  BY RefillReplies
<1>3. /\ Ripe' = Ripe /\ Read' = Read /\ (SmtpQuiet' => SmtpQuiet)
      /\ \A n : LastIs(Pipe, heard, n) => LastIs(Pipe', heard', n)
  BY <1>1, PipeRefill, QuietBefore
<1> QED
  BY <1>1, <1>2, <1>3 DEF StageInv

LEMMA OneOff ==
  \A a, b : b \in Nat => (a = 1 + b => a # 0 /\ b = a - 1) /\ (a = 0 + b => b = a)
OBVIOUS

\* A whole reply or a line of one has been read.
LEMMA LineRead ==
  ASSUME RepliesInv, StageInv, fetched # <<>>, fetched' = Tail(fetched), heard' = fetched[1].to,
         UNCHANGED <<o, tosrv, srv, onway, hungUp, asked, faults, mail>>,
         todo # <<>>, Head(todo) \in {"get", "print"},
         SmtpQuiet => todo' = IF fetched[1] \in Ends THEN Tail(todo) ELSE todo
  PROVE  RepliesInv' /\ StageInv'
<1>1. RepliesInv'
  BY ReadReplies
<1>2. /\ Ripe = One(fetched[1], Ends) + Ripe' /\ Ripe \in Nat /\ Ripe' \in Nat
      /\ \A n : LastIs(Pipe, heard, n) => LastIs(Pipe', heard', n)
  BY PipeRead
<1>3. Read' = Read /\ (SmtpQuiet' => SmtpQuiet)
  BY QuietBefore
<1>4. ASSUME SmtpQuiet'
      PROVE  Stage(Read, todo', tosrv, srv, Ripe') /\ LastIs(Pipe', heard', asked - Len(tosrv))
  <2>1. Stage(Read, todo, tosrv, srv, Ripe) /\ LastIs(Pipe, heard, asked - Len(tosrv))
    BY <1>3, <1>4 DEF StageInv
  <2>2. CASE fetched[1] \in Ends
    <3>0. One(fetched[1], Ends) = 1
      BY <2>2 DEF One
    <3>4. Ripe = 1 + Ripe' /\ Ripe' \in Nat
      BY <1>2, <3>0
    <3>1. Ripe # 0 /\ Ripe' = Ripe - 1
      BY <3>4, OneOff, Zenon
    <3>2. Read \in {"get", "print"}
      BY DEF Read
    <3>3. Stage(Read, Tail(todo), tosrv, srv, Ripe - 1)
      BY <2>1, <3>1, <3>2, StageRead
    <3> QED
      BY <1>2, <1>3, <1>4, <2>1, <2>2, <3>1, <3>3
  <2>3. CASE fetched[1] \notin Ends
    <3>0. One(fetched[1], Ends) = 0
      BY <2>3 DEF One
    <3>4. Ripe = 0 + Ripe' /\ Ripe' \in Nat
      BY <1>2, <3>0
    <3>1. Ripe' = Ripe
      BY <3>4, OneOff, Zenon
    <3> QED
      BY <1>2, <1>3, <1>4, <2>1, <2>3, <3>1
  <2> QED
    BY <2>2, <2>3
<1>5. ASSUME SmtpQuiet'
      PROVE  Stage(Read, todo, tosrv, srv, Ripe)' /\ LastIs(Pipe, heard, asked - Len(tosrv))'
  BY <1>3, <1>4, <1>5
<1> QED
  BY <1>1, <1>5 DEF StageInv

\* The client waits if nothing has come, as long as it is connected.
LEMMA NoMoreComes ==
  ASSUME RepliesInv, SmtpQuiet
  PROVE  ~NoMore
BY DEF RepliesInv, SmtpQuiet, NoMore

\* A client that has an ostream gets whole lines.
LEMMA GetsWhole ==
  ASSUME RepliesInv, StageInv, SmtpQuiet, Getting, fetched # <<>>
  PROVE  fetched[1].part = "whole" /\ fetched[1] \in ReplyLines
<1>1. o
  <2>1. Read \in {"get", "print"} /\ Stage(Read, todo, tosrv, srv, Ripe)
    BY DEF StageInv, Read
  <2>2. Read = "get"
    BY <2>1, StageRead DEF Getting
  <2> QED
    BY <2>2 DEF Read
<1>2. \A i \in 1..Len(Pipe) : Pipe[i].part = "whole"
  BY <1>1 DEF SmtpQuiet, RepliesInv
<1>3. fetched \in Seq(ReplyLines) /\ onway \in Seq(ReplyLines)
  BY DEF RepliesInv
<1>4. 1 \in 1..Len(Pipe) /\ Pipe[1] = fetched[1] /\ fetched[1] \in ReplyLines
  BY <1>3 DEF Pipe
<1> QED
  BY <1>2, <1>4

LEMMA GetSmtp ==
  ASSUME RepliesInv, StageInv, smtp_get_response
  PROVE  RepliesInv' /\ StageInv'
<1>0. /\ todo # <<>> /\ Head(todo) = "get" /\ asked \in Int
      /\ UNCHANGED <<o, tosrv, srv, onway, hungUp, asked, faults, mail>>
  BY DEF smtp_get_response, Getting, smtpvars, RepliesInv
<1>1. CASE NoMore /\ todo' = Tail(todo) /\ UNCHANGED <<fetched, heard>>
  <2>1. RepliesInv'
    BY <1>0, <1>1, SameReplies
  <2>2. ~SmtpQuiet'
    BY <1>0, <1>1, NoMoreComes, QuietBefore
  <2> QED
    BY <2>1, <2>2 DEF StageInv
<1>2. CASE /\ fetched # <<>> /\ fetched[1].part # "stub"
           /\ \E last \in BOOLEAN :
                /\ fetched[1].part # "tail" => (last <=> fetched[1].sep # "-")
                /\ todo' = IF last THEN Tail(todo) ELSE todo
           /\ IF fetched[1].part = "head"
              THEN UNCHANGED <<fetched, heard>>
              ELSE fetched' = Tail(fetched) /\ heard' = fetched[1].to
  <2>1. CASE fetched[1].part = "head"
    <3>1. RepliesInv'
      BY <1>0, <1>2, <2>1, SameReplies
    <3>2. ~SmtpQuiet'
      BY <1>0, <1>2, <2>1, GetsWhole, QuietBefore DEF Getting
    <3> QED
      BY <3>1, <3>2 DEF StageInv
  <2>2. CASE fetched[1].part # "head"
    <3>1. fetched' = Tail(fetched) /\ heard' = fetched[1].to
      BY <1>2, <2>2
    <3>2. SmtpQuiet => todo' = IF fetched[1] \in Ends THEN Tail(todo) ELSE todo
      <4> SUFFICES ASSUME SmtpQuiet PROVE todo' = IF fetched[1] \in Ends THEN Tail(todo) ELSE todo
        OBVIOUS
      <4>1. fetched[1].part = "whole" /\ fetched[1] \in ReplyLines
        BY <1>0, <1>2, GetsWhole DEF Getting
      <4>2. fetched[1] \in Ends <=> fetched[1].sep # "-"
        BY <4>1 DEF Ends, ReplyLines
      <4> QED
        BY <1>2, <4>1, <4>2
    <3> QED
      BY <1>0, <1>2, <3>1, <3>2, LineRead
  <2> QED
    BY <2>1, <2>2
<1> QED
  BY <1>1, <1>2 DEF smtp_get_response

LEMMA PrintSmtp ==
  ASSUME RepliesInv, StageInv, print
  PROVE  RepliesInv' /\ StageInv'
<1>0. /\ todo # <<>> /\ Head(todo) = "print" /\ asked \in Int
      /\ UNCHANGED <<o, tosrv, srv, onway, hungUp, asked, faults, mail>>
  BY DEF print, smtpvars, RepliesInv
<1>1. CASE fetched = <<>>
  <2>1. RepliesInv'
    BY <1>0, <1>1, SameReplies DEF print
  <2>2. ~SmtpQuiet'
    BY <1>0, <1>1, NoMoreComes, QuietBefore DEF print
  <2> QED
    BY <2>1, <2>2 DEF StageInv
<1>2. CASE fetched # <<>>
  <2>1. /\ fetched' = Tail(fetched) /\ heard' = fetched[1].to
        /\ todo' = IF fetched[1].sep = "-" \/ fetched[1].part \in {"stub", "head"} THEN todo
                   ELSE Tail(todo)
    BY <1>2 DEF print
  <2>2. fetched[1] \in ReplyLines
    BY <1>2 DEF RepliesInv
  <2>3. fetched[1] \in Ends <=> ~(fetched[1].sep = "-" \/ fetched[1].part \in {"stub", "head"})
    BY <2>2 DEF Ends, ReplyLines
  <2> QED
    BY <1>0, <1>2, <2>1, <2>3, LineRead
<1> QED
  BY <1>1, <1>2

\* The server has answered with lines that end a reply.
LEMMA LinesServed ==
  ASSUME RepliesInv, StageInv, SmtpServe, NEW lines \in Seq(ReplyLines), lines # <<>>,
         lines[Len(lines)] \in Ends, lines[Len(lines)].to = asked - Len(tosrv) + 1,
         \A i \in 1..Len(lines) : lines[i].part = "whole", onway' = onway \o lines,
         SmtpQuiet' => /\ HowMany(lines, Ends) = 1
                       /\ srv' = CASE Head(tosrv) = "line" -> srv
                                   [] Head(tosrv) = "data" -> "data"
                                   [] OTHER -> "command"
  PROVE  RepliesInv' /\ StageInv'
<1>1. /\ tosrv # <<>> /\ tosrv' = Tail(tosrv) /\ asked \in Int
      /\ UNCHANGED <<fetched, hungUp, todo, asked, heard, o, mail>> /\ faults \subseteq faults'
  BY DEF SmtpServe, Goes, RepliesInv
<1>2. RepliesInv'
  BY <1>1, SendReplies
<1>3. Ripe' = Ripe + HowMany(lines, Ends) /\ LastIs(Pipe', heard', asked - Len(tosrv) + 1)
  BY <1>1, PipeSend
<1>4. Read' = Read /\ (SmtpQuiet' => SmtpQuiet)
  BY <1>1, QuietBefore
<1>5. ASSUME SmtpQuiet'
      PROVE  Stage(Read, todo, Tail(tosrv), srv', Ripe + 1) /\ Ripe' = Ripe + 1
             /\ asked - Len(tosrv) + 1 = asked - Len(Tail(tosrv))
  <2>1. Stage(Read, todo, tosrv, srv, Ripe) /\ Read \in {"get", "print"}
    BY <1>4, <1>5 DEF StageInv, Read
  <2> DEFINE what == Head(tosrv)
  <2>2. /\ what \in {"line", "data", "body"} /\ Len(Tail(tosrv)) = Len(tosrv) - 1 /\ Len(tosrv) \in Nat
        /\ what = "line" => Stage(Read, todo, Tail(tosrv), srv, Ripe + 1)
        /\ what = "data" => Stage(Read, todo, Tail(tosrv), "data", Ripe + 1)
        /\ what = "body" => Stage(Read, todo, Tail(tosrv), "command", Ripe + 1)
    BY <1>1, <2>1, StageServe
  <2>3. srv' = CASE what = "line" -> srv [] what = "data" -> "data" [] OTHER -> "command"
    BY <1>5
  <2>4. Ripe' = Ripe + 1
    BY <1>3, <1>5
  <2>5. asked - Len(tosrv) + 1 = asked - Len(Tail(tosrv))
    BY <1>1, <2>2
  <2> HIDE DEF what
  <2>6. Stage(Read, todo, Tail(tosrv), srv', Ripe + 1)
    <3>1. CASE what = "line"
      BY <2>2, <2>3, <3>1
    <3>2. CASE what = "data"
      BY <2>2, <2>3, <3>2
    <3>3. CASE what = "body"
      BY <2>2, <2>3, <3>3
    <3> QED
      BY <2>2, <3>1, <3>2, <3>3
  <2> QED
    BY <2>4, <2>5, <2>6
<1>6. ASSUME SmtpQuiet'
      PROVE  Stage(Read, todo, tosrv, srv, Ripe)' /\ LastIs(Pipe, heard, asked - Len(tosrv))'
  <2>1. Stage(Read, todo, Tail(tosrv), srv', Ripe + 1) /\ Ripe' = Ripe + 1
        /\ asked - Len(tosrv) + 1 = asked - Len(Tail(tosrv))
    BY <1>5, <1>6
  <2> QED
    BY <1>1, <1>3, <1>4, <2>1
<1> QED
  BY <1>2, <1>6 DEF StageInv

\* What the smtp client sends.
SmtpSends == tosrv \in Seq({"line", "data", "body"})

LEMMA ServeSmtp ==
  ASSUME MailInv, mail.clean, SmtpSends, RepliesInv, StageInv, SmtpServe
  PROVE  RepliesInv' /\ StageInv'
<1> DEFINE n == asked - Len(tosrv) + 1
           body == mail.body
           errors(k) == [i \in 1..k |-> Line("5", " ", n)]
           d == CHOOSE i \in DOMAIN body : body[i] = <<".">> /\ \A j \in 1..(i - 1) : body[j] # <<".">>
           what == Head(tosrv)
<1>1. \/ what = "line" /\ Reply("2", n) /\ UNCHANGED <<srv, stored, faults>>
      \/ what = "data" /\ srv' = "data" /\ Reply("3", n) /\ UNCHANGED <<stored, faults>>
      \/ what = "data" /\ Goes("refused") /\ Reply("5", n) /\ UNCHANGED <<srv, stored>>
      \/ /\ what = "body" /\ srv = "data" /\ srv' = "command"
         /\ onway' = onway \o <<Line("2", " ", n)>> \o errors(Len(body) - d - 1)
      \/ /\ what = "body" /\ srv = "command" /\ onway' = onway \o errors(Len(body) - 1)
         /\ UNCHANGED <<srv, stored, faults>>
  BY DEF SmtpServe
<1>2. n \in Int
  BY DEF SmtpSends, RepliesInv
<1>3. IsStuffed(body, mail.lines) /\ Len(body) = Len(mail.lines) + 2 /\ Len(mail.lines) \in Nat
  BY DEF MailInv, IsStuffed, LinesOf
<1>4. d = Len(mail.lines) + 1
  <2>1. d = CHOOSE i : EndsAt(body, i)
    BY DEF EndsAt
  <2>2. EndsAt(body, d)
    BY <1>3, <2>1, BodyRead
  <2> HIDE DEF d
  <2> QED
    BY <1>3, <2>2, BodyRead
<1> HIDE DEF d, body, n, what, errors
<1>5. ASSUME NEW c \in Codes, Reply(c, n),
             SmtpQuiet' => srv' = CASE what = "line" -> srv [] what = "data" -> "data"
                                    [] OTHER -> "command"
      PROVE  RepliesInv' /\ StageInv'
  <2>1. PICK lines \in Answers(c, n) : onway' = onway \o lines
    BY <1>5 DEF Reply
  <2>2. /\ lines \in Seq(ReplyLines) /\ lines # <<>> /\ HowMany(lines, Ends) = 1
        /\ lines[Len(lines)] \in Ends /\ lines[Len(lines)].to = n
        /\ \A i \in 1..Len(lines) : lines[i].part = "whole"
    BY <1>2, AnswersType
  <2> QED
    BY <1>5, <2>1, <2>2, LinesServed DEF n, what
<1>6. CASE what = "line" /\ Reply("2", n) /\ UNCHANGED <<srv, stored, faults>>
  <2>1. "2" \in Codes /\ srv' = CASE what = "line" -> srv [] what = "data" -> "data"
                                    [] OTHER -> "command"
    BY <1>6 DEF Codes
  <2> QED
    BY <1>5, <1>6, <2>1
<1>7. CASE what = "data" /\ srv' = "data" /\ Reply("3", n) /\ UNCHANGED <<stored, faults>>
  <2>1. "3" \in Codes /\ srv' = CASE what = "line" -> srv [] what = "data" -> "data"
                                    [] OTHER -> "command"
    BY <1>7 DEF Codes
  <2> QED
    BY <1>5, <1>7, <2>1
<1>8. CASE what = "data" /\ Goes("refused") /\ Reply("5", n) /\ UNCHANGED <<srv, stored>>
  <2>1. "5" \in Codes /\ ~SmtpQuiet'
    BY <1>8 DEF Codes, Goes, SmtpQuiet
  <2> QED
    BY <1>5, <1>8, <2>1
<1>9. CASE /\ what = "body" /\ srv = "data" /\ srv' = "command"
           /\ onway' = onway \o <<Line("2", " ", n)>> \o errors(Len(body) - d - 1)
  <2> DEFINE y == Line("2", " ", n)
             lines == <<y>>
  <2>1. y \in ReplyLines /\ y \in Ends /\ y.to = n /\ y.part = "whole"
    BY <1>2 DEF Line, ReplyLines, Ends
  <2>2. Len(body) - d - 1 = 0
    BY <1>3, <1>4
  <2>3. errors(Len(body) - d - 1) = <<>>
    <3>1. errors(0) = <<>>
      <4>1. 1..0 = {}
        OBVIOUS
      <4> QED
        BY <4>1 DEF errors
    <3> QED
      BY <2>2, <3>1
  <2>4. onway \o lines \in Seq(ReplyLines)
    <3> HIDE DEF y
    <3>1. lines \in Seq(ReplyLines) /\ onway \in Seq(ReplyLines)
      BY <2>1 DEF RepliesInv
    <3> HIDE DEF lines
    <3> QED
      BY <3>1, ConcatProperties
  <2>5. onway' = (onway \o lines) \o <<>>
    BY <1>9, <2>3
  <2> HIDE DEF y
  <2>6. onway' = onway \o lines
    BY <2>4, <2>5, ConcatEmptySeq
  <2>7. /\ lines \in Seq(ReplyLines) /\ lines # <<>> /\ HowMany(lines, Ends) = 1
        /\ lines[Len(lines)] \in Ends /\ lines[Len(lines)].to = n
        /\ \A i \in 1..Len(lines) : lines[i].part = "whole"
    <3>1. HowMany(<<y>>, Ends) = 1
      BY <2>1, HowManyOne DEF One
    <3> QED
      BY <2>1, <3>1
  <2>8. srv' = CASE what = "line" -> srv [] what = "data" -> "data" [] OTHER -> "command"
    BY <1>9
  <2> HIDE DEF lines
  <2> QED
    BY <2>6, <2>7, <2>8, LinesServed DEF n, what
<1>10. CASE /\ what = "body" /\ srv = "command" /\ onway' = onway \o errors(Len(body) - 1)
            /\ UNCHANGED <<srv, stored, faults>>
  <2> DEFINE k == Len(body) - 1
             lines == errors(k)
  <2>1. k \in Nat \ {0}
    BY <1>3
  <2> HIDE DEF k
  <2>2. /\ lines \in Seq(ReplyLines) /\ lines # <<>>
        /\ lines[Len(lines)] \in Ends /\ lines[Len(lines)].to = n
        /\ \A i \in 1..Len(lines) : lines[i].part = "whole"
    BY <1>2, <2>1, ErrorsType DEF errors
  <2>3. ~SmtpQuiet'
    <3>1. UNCHANGED <<mail, o>> /\ faults \subseteq faults' /\ tosrv # <<>>
      BY <1>10 DEF SmtpServe
    <3>2. SmtpQuiet => Stage(Read, todo, tosrv, srv, Ripe) /\ Read \in {"get", "print"}
      BY DEF StageInv, Read
    <3>3. SmtpQuiet => srv = "data"
      <4> SUFFICES ASSUME SmtpQuiet PROVE srv = "data"
        OBVIOUS
      <4>1. Head(tosrv) = "body"
        BY <1>10 DEF what
      <4>2. Head(tosrv) = "body" => srv = "data"
        <5>1. tosrv # <<>> /\ Stage(Read, todo, tosrv, srv, Ripe) /\ Read \in {"get", "print"}
          BY <3>1, <3>2
        <5>2. Head(tosrv) = "body"
                => srv = "data" /\ Stage(Read, todo, Tail(tosrv), "command", Ripe + 1)
          BY <5>1, StageServe
        <5> QED
          BY <5>2
      <4> QED
        BY <4>1, <4>2
    <3> QED
      BY <1>10, <3>1, <3>3, QuietBefore
  <2>4. onway' = onway \o lines
    BY <1>10 DEF k
  <2> HIDE DEF lines
  <2> QED
    BY <2>2, <2>3, <2>4, LinesServed DEF n
<1> QED
  BY <1>1, <1>6, <1>7, <1>8, <1>9, <1>10

\* The program and the server, together.
LEMMA NextStage ==
  ASSUME MailInv, mail.clean, SmtpSends, RepliesInv, StageInv, SmtpNext
  PROVE  RepliesInv' /\ StageInv'
<1>1. CASE \E cmd \in {"DATA", "NOOP"} : SmtpCall(cmd)
  BY <1>1, CallSmtp
<1>2. CASE smtp_send_cmd
  BY <1>2, SendSmtp
<1>3. CASE Refill /\ UNCHANGED smtpvars
  BY <1>3, RefillSmtp
<1>4. CASE smtp_get_response
  BY <1>4, GetSmtp
<1>5. CASE print
  BY <1>5, PrintSmtp
<1>6. CASE SmtpServe
  BY <1>6, ServeSmtp
<1>7. CASE HangUp /\ UNCHANGED smtpvars
  <2>1. RepliesInv'
    BY <1>7, HangReplies
  <2>2. ~SmtpQuiet'
    BY <1>7 DEF HangUp, Goes, SmtpQuiet
  <2> QED
    BY <2>1, <2>2 DEF StageInv
<1> QED
  BY <1>1, <1>2, <1>3, <1>4, <1>5, <1>6, <1>7 DEF SmtpNext, SmtpWork

LEMMA SendsStep ==
  SmtpSends /\ [SmtpNext]_<<client, revars, smtpvars>> => SmtpSends'
<1> SUFFICES ASSUME SmtpSends, [SmtpNext]_<<client, revars, smtpvars>> PROVE SmtpSends'
  OBVIOUS
<1>1. CASE smtp_send_cmd
  BY <1>1 DEF smtp_send_cmd, SmtpSends
<1>2. CASE SmtpServe
  <2>1. tosrv # <<>> /\ tosrv' = Tail(tosrv)
    BY <1>2 DEF SmtpServe
  <2> QED
    BY <2>1 DEF SmtpSends
<1>3. CASE UNCHANGED tosrv
  BY <1>3 DEF SmtpSends
<1>4. smtp_send_cmd \/ SmtpServe \/ UNCHANGED tosrv
  <2>1. CASE UNCHANGED <<client, revars, smtpvars>>
    BY <2>1 DEF revars
  <2>2. CASE SmtpNext
    BY <2>2 DEF SmtpNext, SmtpCall, SmtpWork, Refill, smtp_get_response, print, HangUp
  <2> QED
    BY <2>1, <2>2
<1> QED
  BY <1>1, <1>2, <1>3, <1>4

LEMMA StepSmtp ==
  SmtpInv /\ SmtpSends /\ [SmtpNext]_<<client, revars, smtpvars>> => SmtpInv'
<1> SUFFICES ASSUME SmtpInv, SmtpSends, [SmtpNext]_<<client, revars, smtpvars>> PROVE SmtpInv'
  OBVIOUS
<1>1. MailInv'
  BY MailStep DEF SmtpInv
<1>2. CASE UNCHANGED <<client, revars, smtpvars>>
  BY <1>1, <1>2 DEF SmtpInv, StageInv, RepliesInv, SmtpQuiet, Read, Pipe, Ripe, revars, smtpvars
<1>3. CASE SmtpNext
  <2>1. mail' = mail
    BY <1>3 DEF SmtpNext, SmtpCall, SmtpWork, smtp_send_cmd, smtp_get_response, print, SmtpServe,
                smtpvars
  <2>2. ASSUME mail.clean PROVE RepliesInv' /\ StageInv'
    BY <1>3, <2>2, NextStage DEF SmtpInv
  <2> QED
    BY <1>1, <2>1, <2>2 DEF SmtpInv
<1> QED
  BY <1>2, <1>3

\* When a command of the smtp client has returned, every line of every reply has
\* been read, and the last one answers the last thing sent; without an ostream,
\* even if replies arrive in pieces.
THEOREM SmtpStaysInStep == SmtpSpec => []SmtpInStep
<1>1. SmtpInv => SmtpInStep
  <2> SUFFICES ASSUME SmtpInv, Idle, mail.clean,
                      faults \subseteq (IF o THEN {} ELSE {"split"})
               PROVE  Caught
    BY DEF SmtpInStep
  <2>1. /\ RepliesInv /\ Stage(Read, <<>>, tosrv, srv, Ripe)
        /\ LastIs(Pipe, heard, asked - Len(tosrv))
    BY DEF SmtpInv, StageInv, SmtpQuiet, Idle
  <2>2. tosrv = <<>> /\ Ripe = 0
    BY <2>1 DEF Stage
  <2>3. fetched \in Seq(ReplyLines) /\ onway \in Seq(ReplyLines) /\ Pipe \in Seq(ReplyLines)
        /\ asked \in Int
    BY <2>1, ConcatProperties DEF RepliesInv, Pipe
  <2>4. Pipe = <<>>
    <3> SUFFICES ASSUME Pipe # <<>> PROVE FALSE
      OBVIOUS
    <3>1. \A i \in 1..Len(Pipe) : Pipe[i] \notin Ends
      BY <2>2, <2>3, HowManyNone DEF Ripe
    <3>2. Len(Pipe) \in 1..Len(Pipe) /\ Pipe[Len(Pipe)] \in Ends
      BY <2>1, <2>3 DEF LastIs
    <3> QED
      BY <3>1, <3>2
  <2>5. fetched = <<>> /\ onway = <<>>
    BY <2>3, <2>4, ConcatEqualIffEmpty DEF Pipe
  <2>6. heard = asked - 0
    <3>1. Len(tosrv) = 0
      BY <2>2
    <3> QED
      BY <2>1, <2>4, <3>1 DEF LastIs
  <2> QED
    BY <2>3, <2>5, <2>6 DEF Caught
<1>2. SmtpStart => SmtpInv /\ SmtpSends
  BY InitSmtp DEF SmtpStart, RepliesInit, SmtpSends
<1>3. SmtpInv /\ SmtpSends /\ [SmtpNext /\ UNCHANGED client]_<<client, revars, smtpvars>>
        => (SmtpInv /\ SmtpSends)'
  BY StepSmtp, SendsStep
<1> QED
  BY <1>1, <1>2, <1>3, PTL DEF SmtpSpec

----------------------------------------------------------------------------
(* What is left of a call of the ftp client                                *)

Do(step, steps) == <<step>> \o steps

\* What is left of ftpdata at each step, with the rest of the call behind it.
OfEnd(rest) == Do("end", rest)
OfReply(rest) == Do("get", OfEnd(rest))
OfCopy(copy, rest) == Do(copy, OfReply(rest))
OfAccept(copy, rest) == Do("accept", OfCopy(copy, rest))
OfCheck(copy, rest) == Do("check", OfAccept(copy, rest))
OfAnswer(copy, rest) == Do("get", OfCheck(copy, rest))
OfCmd(cmd, copy, rest) == Do(cmd, OfAnswer(copy, rest))
OfListen(cmd, copy, rest) == Do("listen", OfCmd(cmd, copy, rest))
OfPorted(cmd, copy, rest) == Do("get", OfListen(cmd, copy, rest))
OfPort(cmd, copy, rest) == Do("PORT", OfPorted(cmd, copy, rest))
OfData(cmd, copy, rest) == Do("bind", OfPort(cmd, copy, rest))

\* The commands that move a file, and what the client does with it.
Commands == {"LIST", "RETR", "STOR", "nameless"}
Copies == {"receive", "ignore", "send"}
Fits(cmd, copy) ==
  cmd \in Commands /\ copy \in Copies /\ (cmd # "nameless" => (cmd = "STOR" <=> copy = "send"))

\* getfile lists the directory and goes on.
Rests == {<<>>, OfData("nameless", "receive", <<>>)}

\* What is left of the other calls.
OfRNTO == Do("RNTO", OfReply(<<>>))
OfChecked == Do("check", OfRNTO)
OfRNFR == Do("get", OfChecked)
Simple == {<<>>, Do("line", OfReply(<<>>)), Do("RNFR", OfRNFR), OfChecked, OfRNTO}

----------------------------------------------------------------------------
(* The replies of the ftp server                                           *)

\* A reply: it ends with a line with its code and a blank, and a line of text that
\* looks so may come before.
Full(c, n) ==
  {<<Line(c, " ", n)>>, <<Line(c, "-", n), Line(c, " ", n)>>,
   <<Line(c, "-", n), Line("text", " ", n), Line(c, " ", n)>>}

\* What is left of one when its first line has been read.
Part(c, n) == {<<Line("text", " ", n), Line(c, " ", n)>>, <<Line(c, " ", n)>>}
Left(c) == IF first THEN Full(c, asked) ELSE IF code = c THEN Part(c, asked) ELSE {}

\* No reply, one or two are to be read.
NoReply == Pipe = <<>> /\ first
OneReply(c) == Pipe \in Left(c)
TwoReplies(c, d) == \E p \in Left(c), q \in Full(d, asked) : Pipe = p \o q

----------------------------------------------------------------------------
(* The stages of the ftp client and its server                             *)

Still == tosrv = <<>> /\ srv = "command" /\ dir = "none" /\ NoReply /\ heard = asked
NoData == port = 0 /\ ~heeds /\ conn = "none" /\ ended = {} /\ inpipe = 0
HasPort == conn = "none" /\ ended = {} /\ inpipe = 0 /\ taken = 0 /\ port \in Nat
Ready == HasPort /\ told = port /\ heeds

\* The server has not read the command, or has answered it.
Waits(cmd) ==
  /\ srv = "command" /\ dir = "none" /\ NoReply
  /\ tosrv = <<[cmd |-> cmd, port |-> useraddr(port)]>>
Answered(c) == srv = "command" /\ dir = "none" /\ tosrv = <<>> /\ OneReply(c)

\* A server that moves a file.  when: "early" if the client has not read the first
\* reply, else "late".
Begun(when) == IF when = "early" THEN OneReply("1") ELSE NoReply
Over(when, e) == IF when = "early" THEN TwoReplies("1", e) ELSE OneReply(e)

Connects(copy, when) ==
  /\ srv = "connect" /\ conn = "none" /\ ended = {} /\ inpipe = 0 /\ taken = 0
  /\ told = port /\ heeds /\ Begun(when) /\ dir = IF copy = "send" THEN "put" ELSE "get"
Transfers(copy, when) ==
  /\ srv = "transfer" /\ conn \in {"made", "accepted", "ignored"} /\ "server" \notin ended
  /\ Begun(when) /\ dir = IF copy = "send" THEN "put" ELSE "get"
  /\ copy = "send" /\ "client" \in ended => taken + inpipe = FILESIZE
Done(copy, when) ==
  /\ srv = "command" /\ conn \in {"made", "accepted", "ignored"} /\ "server" \in ended
  /\ dir = "none" /\ (copy = "send" => "client" \in ended /\ inpipe = 0)
  /\ \E e \in {"2", "4"} : Over(when, e) /\ (e = "2" => taken + inpipe = FILESIZE)
Moving(copy, when) ==
  /\ tosrv = <<>> /\ port \in Nat /\ inpipe \in Nat /\ taken \in Nat
  /\ Connects(copy, when) \/ Transfers(copy, when) \/ Done(copy, when)

\* The client has not accepted the connection; it has, and is through with it.
Unmet == conn \in {"none", "made"} /\ "client" \notin ended
Through(copy) ==
  /\ conn \in {"accepted", "ignored"}
  /\ conn = "accepted" => IF copy = "send" THEN "client" \in ended
                          ELSE "server" \in ended /\ inpipe = 0

Complete == conn = "accepted" /\ ret = "2" => inpipe = 0 /\ taken = FILESIZE

AnswerStage(cmd, copy) ==
  \/ Ready /\ (Waits(cmd) \/ Answered("5"))
  \/ cmd # "nameless" /\ Moving(copy, "early") /\ Unmet
MoveStage(cmd, copy, r) ==
  \/ todo = OfData(cmd, copy, r) /\ Still /\ NoData
  \/ todo = OfPort(cmd, copy, r) /\ Still /\ HasPort
  \/ /\ todo = OfPorted(cmd, copy, r) /\ HasPort
     /\ Waits("PORT") \/ (Answered("2") /\ told = port)
  \/ todo = OfListen(cmd, copy, r) /\ Still /\ HasPort /\ told = port
  \/ todo = OfCmd(cmd, copy, r) /\ Still /\ Ready
  \/ todo = OfAnswer(copy, r) /\ AnswerStage(cmd, copy)
  \/ /\ todo = OfCheck(copy, r)
     /\ (Ready /\ Still /\ Error(ret)) \/ (ret = "1" /\ Moving(copy, "late") /\ Unmet)
  \/ todo = OfAccept(copy, r) /\ Moving(copy, "late") /\ Unmet
  \/ todo = OfCopy(copy, r) /\ Moving(copy, "late") /\ conn = "accepted" /\ "client" \notin ended
  \/ todo = OfReply(r) /\ Moving(copy, "late") /\ Through(copy)
FtpStage ==
  \/ todo \in Simple /\ Still /\ NoData
  \/ /\ todo = OfReply(<<>>) /\ NoData
     /\ (\E cmd \in {"line", "RNTO"} : Waits(cmd)) \/ (\E c \in Codes : Answered(c))
  \/ todo = OfRNFR /\ NoData /\ (Waits("RNFR") \/ (\E c \in Codes : Answered(c)))
  \/ \E r \in Rests : todo = OfEnd(r) /\ Still /\ Complete
  \/ \E cmd \in Commands, copy \in Copies, r \in Rests : Fits(cmd, copy) /\ MoveStage(cmd, copy, r)

----------------------------------------------------------------------------
(* What is left of a call, step by step                                    *)

Words ==
  Sent \cup {"bind", "get", "listen", "check", "accept", "receive", "ignore", "send", "end"}
Todos == Seq(Words)

\* A first step and the others.
LEMMA DoIs ==
  ASSUME NEW x \in Words, NEW s \in Todos
  PROVE  /\ Do(x, s) \in Todos /\ Do(x, s) # <<>> /\ Head(Do(x, s)) = x /\ Tail(Do(x, s)) = s
         /\ Len(Do(x, s)) = Len(s) + 1
         /\ \A t \in Todos : Do(x, s \o t) = Do(x, s) \o t
<1> DEFINE xs == <<x>>
           w == xs \o s
<1>1. xs \in Seq(Words) /\ s \in Seq(Words) /\ Len(xs) = 1 /\ xs[1] = x
  BY DEF Todos
<1>2. w \in Seq(Words) /\ w # <<>> /\ Head(w) = x /\ Len(w) = Len(s) + 1
  <2> HIDE DEF xs
  <2>1. w \in Seq(Words) /\ Len(w) = Len(xs) + Len(s) /\ w[1] = xs[1]
    <3>1. /\ w \in Seq(Words) /\ Len(w) = Len(xs) + Len(s)
          /\ \A i \in 1..(Len(xs) + Len(s)) :
               w[i] = IF i <= Len(xs) THEN xs[i] ELSE s[i - Len(xs)]
      BY <1>1, ConcatProperties
    <3>2. 1 \in 1..(Len(xs) + Len(s)) /\ 1 <= Len(xs)
      BY <1>1
    <3> HIDE DEF w
    <3> QED
      BY <3>1, <3>2
  <2>2. Len(s) \in Nat
    BY <1>1
  <2> HIDE DEF w
  <2> QED
    BY <1>1, <2>1, <2>2
<1>3. Tail(w) = s
  <2> HIDE DEF xs
  <2>1. /\ Tail(w) \in Seq(Words) /\ Len(Tail(w)) = Len(s)
        /\ \A i \in 1..Len(s) : Tail(w)[i] = s[i]
    BY <1>1, <1>2
  <2> HIDE DEF w
  <2> QED
    BY <1>1, <2>1, SeqEqual
<1>4. \A t \in Todos : xs \o (s \o t) = (xs \o s) \o t
  <2> HIDE DEF xs
  <2> QED
    BY <1>1, Associative DEF Todos
<1> QED
  BY <1>2, <1>3, <1>4 DEF Do, Todos

\* Every step of a call that moves a file has the next behind it.
LEMMA DataSteps ==
  ASSUME NEW cmd \in Commands, NEW copy \in Copies, NEW r \in Todos
  PROVE  /\ OfEnd(r) \in Todos /\ OfEnd(r) # <<>> /\ Head(OfEnd(r)) = "end" /\ Tail(OfEnd(r)) = r
         /\ OfReply(r) \in Todos /\ OfReply(r) # <<>> /\ Head(OfReply(r)) = "get"
         /\ Tail(OfReply(r)) = OfEnd(r)
         /\ OfCopy(copy, r) \in Todos /\ OfCopy(copy, r) # <<>> /\ Head(OfCopy(copy, r)) = copy
         /\ Tail(OfCopy(copy, r)) = OfReply(r)
         /\ OfAccept(copy, r) \in Todos /\ OfAccept(copy, r) # <<>>
         /\ Head(OfAccept(copy, r)) = "accept" /\ Tail(OfAccept(copy, r)) = OfCopy(copy, r)
         /\ OfCheck(copy, r) \in Todos /\ OfCheck(copy, r) # <<>>
         /\ Head(OfCheck(copy, r)) = "check" /\ Tail(OfCheck(copy, r)) = OfAccept(copy, r)
         /\ OfAnswer(copy, r) \in Todos /\ OfAnswer(copy, r) # <<>>
         /\ Head(OfAnswer(copy, r)) = "get" /\ Tail(OfAnswer(copy, r)) = OfCheck(copy, r)
         /\ OfCmd(cmd, copy, r) \in Todos /\ OfCmd(cmd, copy, r) # <<>>
         /\ Head(OfCmd(cmd, copy, r)) = cmd /\ Tail(OfCmd(cmd, copy, r)) = OfAnswer(copy, r)
         /\ OfListen(cmd, copy, r) \in Todos /\ OfListen(cmd, copy, r) # <<>>
         /\ Head(OfListen(cmd, copy, r)) = "listen"
         /\ Tail(OfListen(cmd, copy, r)) = OfCmd(cmd, copy, r)
         /\ OfPorted(cmd, copy, r) \in Todos /\ OfPorted(cmd, copy, r) # <<>>
         /\ Head(OfPorted(cmd, copy, r)) = "get"
         /\ Tail(OfPorted(cmd, copy, r)) = OfListen(cmd, copy, r)
         /\ OfPort(cmd, copy, r) \in Todos /\ OfPort(cmd, copy, r) # <<>>
         /\ Head(OfPort(cmd, copy, r)) = "PORT"
         /\ Tail(OfPort(cmd, copy, r)) = OfPorted(cmd, copy, r)
         /\ OfData(cmd, copy, r) \in Todos /\ OfData(cmd, copy, r) # <<>>
         /\ Head(OfData(cmd, copy, r)) = "bind"
         /\ Tail(OfData(cmd, copy, r)) = OfPort(cmd, copy, r)
<1>1. /\ "end" \in Words /\ "get" \in Words /\ copy \in Words /\ "accept" \in Words
      /\ "check" \in Words /\ cmd \in Words /\ "listen" \in Words /\ "PORT" \in Words
      /\ "bind" \in Words
  BY DEF Words, Sent, Commands, Copies
<1>2. \A x \in Words, s \in Todos :
        Do(x, s) \in Todos /\ Do(x, s) # <<>> /\ Head(Do(x, s)) = x /\ Tail(Do(x, s)) = s
  BY DoIs
<1>3. /\ OfEnd(r) \in Todos /\ OfEnd(r) # <<>> /\ Head(OfEnd(r)) = "end"
      /\ Tail(OfEnd(r)) = r
  BY <1>1, <1>2 DEF OfEnd
<1>4. /\ OfReply(r) \in Todos /\ OfReply(r) # <<>> /\ Head(OfReply(r)) = "get"
      /\ Tail(OfReply(r)) = OfEnd(r)
  BY <1>1, <1>2, <1>3 DEF OfReply
<1>5. /\ OfCopy(copy, r) \in Todos /\ OfCopy(copy, r) # <<>> /\ Head(OfCopy(copy, r)) = copy
      /\ Tail(OfCopy(copy, r)) = OfReply(r)
  BY <1>1, <1>2, <1>4 DEF OfCopy
<1>6. /\ OfAccept(copy, r) \in Todos /\ OfAccept(copy, r) # <<>> /\ Head(OfAccept(copy, r)) = "accept"
      /\ Tail(OfAccept(copy, r)) = OfCopy(copy, r)
  BY <1>1, <1>2, <1>5 DEF OfAccept
<1>7. /\ OfCheck(copy, r) \in Todos /\ OfCheck(copy, r) # <<>> /\ Head(OfCheck(copy, r)) = "check"
      /\ Tail(OfCheck(copy, r)) = OfAccept(copy, r)
  BY <1>1, <1>2, <1>6 DEF OfCheck
<1>8. /\ OfAnswer(copy, r) \in Todos /\ OfAnswer(copy, r) # <<>> /\ Head(OfAnswer(copy, r)) = "get"
      /\ Tail(OfAnswer(copy, r)) = OfCheck(copy, r)
  BY <1>1, <1>2, <1>7 DEF OfAnswer
<1>9. /\ OfCmd(cmd, copy, r) \in Todos /\ OfCmd(cmd, copy, r) # <<>> /\ Head(OfCmd(cmd, copy, r)) = cmd
      /\ Tail(OfCmd(cmd, copy, r)) = OfAnswer(copy, r)
  BY <1>1, <1>2, <1>8 DEF OfCmd
<1>10. /\ OfListen(cmd, copy, r) \in Todos /\ OfListen(cmd, copy, r) # <<>> /\ Head(OfListen(cmd, copy, r)) = "listen"
      /\ Tail(OfListen(cmd, copy, r)) = OfCmd(cmd, copy, r)
  BY <1>1, <1>2, <1>9 DEF OfListen
<1>11. /\ OfPorted(cmd, copy, r) \in Todos /\ OfPorted(cmd, copy, r) # <<>> /\ Head(OfPorted(cmd, copy, r)) = "get"
      /\ Tail(OfPorted(cmd, copy, r)) = OfListen(cmd, copy, r)
  BY <1>1, <1>2, <1>10 DEF OfPorted
<1>12. /\ OfPort(cmd, copy, r) \in Todos /\ OfPort(cmd, copy, r) # <<>> /\ Head(OfPort(cmd, copy, r)) = "PORT"
      /\ Tail(OfPort(cmd, copy, r)) = OfPorted(cmd, copy, r)
  BY <1>1, <1>2, <1>11 DEF OfPort
<1>13. /\ OfData(cmd, copy, r) \in Todos /\ OfData(cmd, copy, r) # <<>> /\ Head(OfData(cmd, copy, r)) = "bind"
      /\ Tail(OfData(cmd, copy, r)) = OfPort(cmd, copy, r)
  BY <1>1, <1>2, <1>12 DEF OfData
<1> QED
  BY <1>3, <1>4, <1>5, <1>6, <1>7, <1>8, <1>9, <1>10, <1>11, <1>12, <1>13

\* Its elements.
LEMMA DoElements ==
  ASSUME NEW x \in Words, NEW s \in Todos
  PROVE  Do(x, s)[1] = x /\ \A i \in 1..Len(s) : Do(x, s)[i + 1] = s[i]
<1> DEFINE w == Do(x, s)
<1>1. w \in Seq(Words) /\ w # <<>> /\ Head(w) = x /\ Tail(w) = s /\ Len(w) = Len(s) + 1
  BY DoIs DEF Todos
<1> HIDE DEF w
<1>2. w[1] = x
  BY <1>1
<1>3. \A i \in 1..Len(Tail(w)) : Tail(w)[i] = w[i + 1]
  BY <1>1, HeadTailProperties
<1> QED
  BY <1>1, <1>2, <1>3 DEF w

\* The same of a sequence that is known to be made so.
Behind(w, x, s) ==
  /\ w \in Todos /\ Len(w) = Len(s) + 1 /\ w[1] = x
  /\ \A i \in 1..Len(s) : w[i + 1] = s[i]

LEMMA DoneIs == \A x \in Words, s \in Todos : \A w : w = Do(x, s) => Behind(w, x, s)
<1> SUFFICES ASSUME NEW x \in Words, NEW s \in Todos PROVE Behind(Do(x, s), x, s)
  OBVIOUS
<1>1. Do(x, s) \in Todos /\ Len(Do(x, s)) = Len(s) + 1
  BY DoIs
<1>2. Do(x, s)[1] = x /\ \A i \in 1..Len(s) : Do(x, s)[i + 1] = s[i]
  BY DoElements
<1> QED
  BY <1>1, <1>2 DEF Behind

\* What moves a file, as a sequence.
LEMMA DataIs ==
  ASSUME NEW cmd \in Commands, NEW copy \in Copies
  PROVE  ftpdata(cmd, copy) = OfData(cmd, copy, <<>>)
<1>1. /\ "end" \in Words /\ "get" \in Words /\ copy \in Words /\ "accept" \in Words
      /\ "check" \in Words /\ cmd \in Words /\ "listen" \in Words /\ "PORT" \in Words
      /\ "bind" \in Words
  BY DEF Words, Sent, Commands, Copies
<1>2. <<>> \in Todos /\ Len(<<>>) = 0
  BY DEF Todos
<1> DEFINE s1 == OfEnd(<<>>)
           s2 == OfReply(<<>>)
           s3 == OfCopy(copy, <<>>)
           s4 == OfAccept(copy, <<>>)
           s5 == OfCheck(copy, <<>>)
           s6 == OfAnswer(copy, <<>>)
           s7 == OfCmd(cmd, copy, <<>>)
           s8 == OfListen(cmd, copy, <<>>)
           s9 == OfPorted(cmd, copy, <<>>)
           s10 == OfPort(cmd, copy, <<>>)
           s11 == OfData(cmd, copy, <<>>)
<1>3. /\ s1 \in Todos /\ Len(s1) = 1
      /\ s1[1] = "end"
  <2>1. s1 = Do("end", <<>>)
    BY DEF OfEnd
  <2> HIDE DEF s1
  <2>2. Behind(s1, "end", <<>>)
    <3>1. <<>> \in Todos
      BY <1>2
    <3> QED
      BY <1>1, <2>1, <3>1, DoneIs
  <2> QED
    BY <1>2, <2>2 DEF Behind
<1>4. /\ s2 \in Todos /\ Len(s2) = 2
      /\ s2[1] = "get" /\ s2[2] = "end"
  <2>1. s2 = Do("get", s1)
    BY DEF OfReply
  <2> HIDE DEF s2, s1
  <2>2. Behind(s2, "get", s1)
    <3>1. s1 \in Todos
      BY <1>3
    <3> QED
      BY <1>1, <2>1, <3>1, DoneIs
  <2>3. /\ s2[2] = s1[1]
    <3>1. \A i \in 1..1 : s2[i + 1] = s1[i]
      BY <1>3, <2>2 DEF Behind
    <3> QED
      BY <3>1
  <2> QED
    BY <1>3, <2>2, <2>3 DEF Behind
<1>5. /\ s3 \in Todos /\ Len(s3) = 3
      /\ s3[1] = copy /\ s3[2] = "get" /\ s3[3] = "end"
  <2>1. s3 = Do(copy, s2)
    BY DEF OfCopy
  <2> HIDE DEF s3, s2
  <2>2. Behind(s3, copy, s2)
    <3>1. s2 \in Todos
      BY <1>4
    <3> QED
      BY <1>1, <2>1, <3>1, DoneIs
  <2>3. /\ s3[2] = s2[1] /\ s3[3] = s2[2]
    <3>1. \A i \in 1..2 : s3[i + 1] = s2[i]
      BY <1>4, <2>2 DEF Behind
    <3> QED
      BY <3>1
  <2> QED
    BY <1>4, <2>2, <2>3 DEF Behind
<1>6. /\ s4 \in Todos /\ Len(s4) = 4
      /\ s4[1] = "accept" /\ s4[2] = copy /\ s4[3] = "get" /\ s4[4] = "end"
  <2>1. s4 = Do("accept", s3)
    BY DEF OfAccept
  <2> HIDE DEF s4, s3
  <2>2. Behind(s4, "accept", s3)
    <3>1. s3 \in Todos
      BY <1>5
    <3> QED
      BY <1>1, <2>1, <3>1, DoneIs
  <2>3. /\ s4[2] = s3[1] /\ s4[3] = s3[2] /\ s4[4] = s3[3]
    <3>1. \A i \in 1..3 : s4[i + 1] = s3[i]
      BY <1>5, <2>2 DEF Behind
    <3> QED
      BY <3>1
  <2> QED
    BY <1>5, <2>2, <2>3 DEF Behind
<1>7. /\ s5 \in Todos /\ Len(s5) = 5
      /\ s5[1] = "check" /\ s5[2] = "accept" /\ s5[3] = copy /\ s5[4] = "get"
      /\ s5[5] = "end"
  <2>1. s5 = Do("check", s4)
    BY DEF OfCheck
  <2> HIDE DEF s5, s4
  <2>2. Behind(s5, "check", s4)
    <3>1. s4 \in Todos
      BY <1>6
    <3> QED
      BY <1>1, <2>1, <3>1, DoneIs
  <2>3. /\ s5[2] = s4[1] /\ s5[3] = s4[2] /\ s5[4] = s4[3] /\ s5[5] = s4[4]
    <3>1. \A i \in 1..4 : s5[i + 1] = s4[i]
      BY <1>6, <2>2 DEF Behind
    <3> QED
      BY <3>1
  <2> QED
    BY <1>6, <2>2, <2>3 DEF Behind
<1>8. /\ s6 \in Todos /\ Len(s6) = 6
      /\ s6[1] = "get" /\ s6[2] = "check" /\ s6[3] = "accept" /\ s6[4] = copy
      /\ s6[5] = "get" /\ s6[6] = "end"
  <2>1. s6 = Do("get", s5)
    BY DEF OfAnswer
  <2> HIDE DEF s6, s5
  <2>2. Behind(s6, "get", s5)
    <3>1. s5 \in Todos
      BY <1>7
    <3> QED
      BY <1>1, <2>1, <3>1, DoneIs
  <2>3. /\ s6[2] = s5[1] /\ s6[3] = s5[2] /\ s6[4] = s5[3] /\ s6[5] = s5[4]
        /\ s6[6] = s5[5]
    <3>1. \A i \in 1..5 : s6[i + 1] = s5[i]
      BY <1>7, <2>2 DEF Behind
    <3> QED
      BY <3>1
  <2> QED
    BY <1>7, <2>2, <2>3 DEF Behind
<1>9. /\ s7 \in Todos /\ Len(s7) = 7
      /\ s7[1] = cmd /\ s7[2] = "get" /\ s7[3] = "check" /\ s7[4] = "accept"
      /\ s7[5] = copy /\ s7[6] = "get" /\ s7[7] = "end"
  <2>1. s7 = Do(cmd, s6)
    BY DEF OfCmd
  <2> HIDE DEF s7, s6
  <2>2. Behind(s7, cmd, s6)
    <3>1. s6 \in Todos
      BY <1>8
    <3> QED
      BY <1>1, <2>1, <3>1, DoneIs
  <2>3. /\ s7[2] = s6[1] /\ s7[3] = s6[2] /\ s7[4] = s6[3] /\ s7[5] = s6[4]
        /\ s7[6] = s6[5] /\ s7[7] = s6[6]
    <3>1. \A i \in 1..6 : s7[i + 1] = s6[i]
      BY <1>8, <2>2 DEF Behind
    <3> QED
      BY <3>1
  <2> QED
    BY <1>8, <2>2, <2>3 DEF Behind
<1>10. /\ s8 \in Todos /\ Len(s8) = 8
      /\ s8[1] = "listen" /\ s8[2] = cmd /\ s8[3] = "get" /\ s8[4] = "check"
      /\ s8[5] = "accept" /\ s8[6] = copy /\ s8[7] = "get" /\ s8[8] = "end"
  <2>1. s8 = Do("listen", s7)
    BY DEF OfListen
  <2> HIDE DEF s8, s7
  <2>2. Behind(s8, "listen", s7)
    <3>1. s7 \in Todos
      BY <1>9
    <3> QED
      BY <1>1, <2>1, <3>1, DoneIs
  <2>3. /\ s8[2] = s7[1] /\ s8[3] = s7[2] /\ s8[4] = s7[3] /\ s8[5] = s7[4]
        /\ s8[6] = s7[5] /\ s8[7] = s7[6] /\ s8[8] = s7[7]
    <3>1. \A i \in 1..7 : s8[i + 1] = s7[i]
      BY <1>9, <2>2 DEF Behind
    <3> QED
      BY <3>1
  <2> QED
    BY <1>9, <2>2, <2>3 DEF Behind
<1>11. /\ s9 \in Todos /\ Len(s9) = 9
      /\ s9[1] = "get" /\ s9[2] = "listen" /\ s9[3] = cmd /\ s9[4] = "get"
      /\ s9[5] = "check" /\ s9[6] = "accept" /\ s9[7] = copy /\ s9[8] = "get"
      /\ s9[9] = "end"
  <2>1. s9 = Do("get", s8)
    BY DEF OfPorted
  <2> HIDE DEF s9, s8
  <2>2. Behind(s9, "get", s8)
    <3>1. s8 \in Todos
      BY <1>10
    <3> QED
      BY <1>1, <2>1, <3>1, DoneIs
  <2>3. /\ s9[2] = s8[1] /\ s9[3] = s8[2] /\ s9[4] = s8[3] /\ s9[5] = s8[4]
        /\ s9[6] = s8[5] /\ s9[7] = s8[6] /\ s9[8] = s8[7] /\ s9[9] = s8[8]
    <3>1. \A i \in 1..8 : s9[i + 1] = s8[i]
      BY <1>10, <2>2 DEF Behind
    <3> QED
      BY <3>1
  <2> QED
    BY <1>10, <2>2, <2>3 DEF Behind
<1>12. /\ s10 \in Todos /\ Len(s10) = 10
      /\ s10[1] = "PORT" /\ s10[2] = "get" /\ s10[3] = "listen" /\ s10[4] = cmd
      /\ s10[5] = "get" /\ s10[6] = "check" /\ s10[7] = "accept" /\ s10[8] = copy
      /\ s10[9] = "get" /\ s10[10] = "end"
  <2>1. s10 = Do("PORT", s9)
    BY DEF OfPort
  <2> HIDE DEF s10, s9
  <2>2. Behind(s10, "PORT", s9)
    <3>1. s9 \in Todos
      BY <1>11
    <3> QED
      BY <1>1, <2>1, <3>1, DoneIs
  <2>3. /\ s10[2] = s9[1] /\ s10[3] = s9[2] /\ s10[4] = s9[3] /\ s10[5] = s9[4]
        /\ s10[6] = s9[5] /\ s10[7] = s9[6] /\ s10[8] = s9[7] /\ s10[9] = s9[8]
        /\ s10[10] = s9[9]
    <3>1. \A i \in 1..9 : s10[i + 1] = s9[i]
      BY <1>11, <2>2 DEF Behind
    <3> QED
      BY <3>1
  <2> QED
    BY <1>11, <2>2, <2>3 DEF Behind
<1>13. /\ s11 \in Todos /\ Len(s11) = 11
      /\ s11[1] = "bind" /\ s11[2] = "PORT" /\ s11[3] = "get" /\ s11[4] = "listen"
      /\ s11[5] = cmd /\ s11[6] = "get" /\ s11[7] = "check" /\ s11[8] = "accept"
      /\ s11[9] = copy /\ s11[10] = "get" /\ s11[11] = "end"
  <2>1. s11 = Do("bind", s10)
    BY DEF OfData
  <2> HIDE DEF s11, s10
  <2>2. Behind(s11, "bind", s10)
    <3>1. s10 \in Todos
      BY <1>12
    <3> QED
      BY <1>1, <2>1, <3>1, DoneIs
  <2>3. /\ s11[2] = s10[1] /\ s11[3] = s10[2] /\ s11[4] = s10[3] /\ s11[5] = s10[4]
        /\ s11[6] = s10[5] /\ s11[7] = s10[6] /\ s11[8] = s10[7] /\ s11[9] = s10[8]
        /\ s11[10] = s10[9] /\ s11[11] = s10[10]
    <3>1. \A i \in 1..10 : s11[i + 1] = s10[i]
      BY <1>12, <2>2 DEF Behind
    <3> QED
      BY <3>1
  <2> QED
    BY <1>12, <2>2, <2>3 DEF Behind
<1> DEFINE t == ftpdata(cmd, copy)
<1>14. /\ t \in Seq(Words) /\ Len(t) = 11
       /\ t[1] = "bind" /\ t[2] = "PORT" /\ t[3] = "get" /\ t[4] = "listen"
       /\ t[5] = cmd /\ t[6] = "get" /\ t[7] = "check" /\ t[8] = "accept"
       /\ t[9] = copy /\ t[10] = "get" /\ t[11] = "end"
  BY <1>1 DEF ftpdata
<1> HIDE DEF t, s1, s2, s3, s4, s5, s6, s7, s8, s9, s10, s11
<1>15. \A i \in 1..11 : t[i] = s11[i]
  <2>1. \A i \in 1..11 : \/ i = 1 \/ i = 2 \/ i = 3 \/ i = 4 \/ i = 5 \/ i = 6
                         \/ i = 7 \/ i = 8 \/ i = 9 \/ i = 10 \/ i = 11
    OBVIOUS
  <2> QED
    BY <1>13, <1>14, <2>1
<1>16. t = s11
  BY <1>13, <1>14, <1>15, SeqEqual DEF Todos
<1> QED
  BY <1>16 DEF t, s11

\* What comes behind it.
LEMMA DataThen ==
  ASSUME NEW cmd \in Commands, NEW copy \in Copies, NEW r \in Todos
  PROVE  OfData(cmd, copy, <<>>) \o r = OfData(cmd, copy, r)
<1>1. /\ "end" \in Words /\ "get" \in Words /\ copy \in Words /\ "accept" \in Words
      /\ "check" \in Words /\ cmd \in Words /\ "listen" \in Words /\ "PORT" \in Words
      /\ "bind" \in Words
  BY DEF Words, Sent, Commands, Copies
<1>2. \A x \in Words, s \in Todos : Do(x, s \o r) = Do(x, s) \o r /\ Do(x, s) \in Todos
  BY DoIs
<1>3. <<>> \in Todos /\ <<>> \o r = r
  BY ConcatEmptySeq DEF Todos
<1> DEFINE nil == <<>>
<1> HIDE DEF nil
<1>4. nil \in Todos /\ nil \o r = r
  BY <1>3 DEF nil
<1>5. OfEnd(nil) \o r = OfEnd(r) /\ OfEnd(nil) \in Todos
  BY <1>1, <1>2, <1>4 DEF OfEnd
<1>6. OfReply(nil) \o r = OfReply(r) /\ OfReply(nil) \in Todos
  BY <1>1, <1>2, <1>5 DEF OfReply
<1>7. OfCopy(copy, nil) \o r = OfCopy(copy, r) /\ OfCopy(copy, nil) \in Todos
  BY <1>1, <1>2, <1>6 DEF OfCopy
<1>8. OfAccept(copy, nil) \o r = OfAccept(copy, r) /\ OfAccept(copy, nil) \in Todos
  BY <1>1, <1>2, <1>7 DEF OfAccept
<1>9. OfCheck(copy, nil) \o r = OfCheck(copy, r) /\ OfCheck(copy, nil) \in Todos
  BY <1>1, <1>2, <1>8 DEF OfCheck
<1>10. OfAnswer(copy, nil) \o r = OfAnswer(copy, r) /\ OfAnswer(copy, nil) \in Todos
  BY <1>1, <1>2, <1>9 DEF OfAnswer
<1>11. OfCmd(cmd, copy, nil) \o r = OfCmd(cmd, copy, r) /\ OfCmd(cmd, copy, nil) \in Todos
  BY <1>1, <1>2, <1>10 DEF OfCmd
<1>12. OfListen(cmd, copy, nil) \o r = OfListen(cmd, copy, r) /\ OfListen(cmd, copy, nil) \in Todos
  BY <1>1, <1>2, <1>11 DEF OfListen
<1>13. OfPorted(cmd, copy, nil) \o r = OfPorted(cmd, copy, r) /\ OfPorted(cmd, copy, nil) \in Todos
  BY <1>1, <1>2, <1>12 DEF OfPorted
<1>14. OfPort(cmd, copy, nil) \o r = OfPort(cmd, copy, r) /\ OfPort(cmd, copy, nil) \in Todos
  BY <1>1, <1>2, <1>13 DEF OfPort
<1>15. OfData(cmd, copy, nil) \o r = OfData(cmd, copy, r) /\ OfData(cmd, copy, nil) \in Todos
  BY <1>1, <1>2, <1>14 DEF OfData
<1> QED
  BY <1>15 DEF nil

\* The other calls, step by step.
LEMMA SimpleSteps ==
  /\ <<>> \in Todos
  /\ OfReply(<<>>) \in Todos /\ OfReply(<<>>) # <<>> /\ Head(OfReply(<<>>)) = "get"
  /\ Tail(OfReply(<<>>)) = OfEnd(<<>>)
  /\ Do("line", OfReply(<<>>)) # <<>> /\ Head(Do("line", OfReply(<<>>))) = "line"
  /\ Tail(Do("line", OfReply(<<>>))) = OfReply(<<>>)
  /\ OfRNTO \in Todos /\ OfRNTO # <<>> /\ Head(OfRNTO) = "RNTO" /\ Tail(OfRNTO) = OfReply(<<>>)
  /\ OfChecked \in Todos /\ OfChecked # <<>> /\ Head(OfChecked) = "check"
  /\ Tail(OfChecked) = OfRNTO
  /\ OfRNFR \in Todos /\ OfRNFR # <<>> /\ Head(OfRNFR) = "get" /\ Tail(OfRNFR) = OfChecked
  /\ Do("RNFR", OfRNFR) # <<>> /\ Head(Do("RNFR", OfRNFR)) = "RNFR"
  /\ Tail(Do("RNFR", OfRNFR)) = OfRNFR
<1>1. /\ "end" \in Words /\ "get" \in Words /\ "line" \in Words /\ "RNTO" \in Words
      /\ "check" \in Words /\ "RNFR" \in Words
  BY DEF Words, Sent
<1>2. \A x \in Words, s \in Todos :
        Do(x, s) \in Todos /\ Do(x, s) # <<>> /\ Head(Do(x, s)) = x /\ Tail(Do(x, s)) = s
  BY DoIs
<1>3. <<>> \in Todos
  BY DEF Todos
<1>4. OfEnd(<<>>) \in Todos
  BY <1>1, <1>2, <1>3 DEF OfEnd
<1>5. OfReply(<<>>) \in Todos /\ OfReply(<<>>) # <<>> /\ Head(OfReply(<<>>)) = "get"
      /\ Tail(OfReply(<<>>)) = OfEnd(<<>>)
  BY <1>1, <1>2, <1>4 DEF OfReply
<1>6. Do("line", OfReply(<<>>)) # <<>> /\ Head(Do("line", OfReply(<<>>))) = "line"
      /\ Tail(Do("line", OfReply(<<>>))) = OfReply(<<>>)
  BY <1>1, <1>2, <1>5
<1>7. OfRNTO \in Todos /\ OfRNTO # <<>> /\ Head(OfRNTO) = "RNTO" /\ Tail(OfRNTO) = OfReply(<<>>)
  BY <1>1, <1>2, <1>5 DEF OfRNTO
<1>8. OfChecked \in Todos /\ OfChecked # <<>> /\ Head(OfChecked) = "check"
      /\ Tail(OfChecked) = OfRNTO
  BY <1>1, <1>2, <1>7 DEF OfChecked
<1>9. OfRNFR \in Todos /\ OfRNFR # <<>> /\ Head(OfRNFR) = "get" /\ Tail(OfRNFR) = OfChecked
  BY <1>1, <1>2, <1>8 DEF OfRNFR
<1>10. Do("RNFR", OfRNFR) # <<>> /\ Head(Do("RNFR", OfRNFR)) = "RNFR"
       /\ Tail(Do("RNFR", OfRNFR)) = OfRNFR
  BY <1>1, <1>2, <1>9
<1> QED
  BY <1>3, <1>5, <1>6, <1>7, <1>8, <1>9, <1>10

\* As sequences.
LEMMA SimpleAre ==
  /\ <<"get", "end">> = OfReply(<<>>)
  /\ <<"line", "get", "end">> = Do("line", OfReply(<<>>))
  /\ rename = Do("RNFR", OfRNFR)
<1>1. /\ "end" \in Words /\ "get" \in Words /\ "line" \in Words /\ "RNTO" \in Words
      /\ "check" \in Words /\ "RNFR" \in Words
  BY DEF Words, Sent
<1>2. <<>> \in Todos /\ Len(<<>>) = 0
  BY DEF Todos
<1> DEFINE s1 == OfEnd(<<>>)
           s2 == OfReply(<<>>)
           s3 == OfRNTO
           s4 == OfChecked
           s5 == OfRNFR
           s6 == Do("RNFR", OfRNFR)
           l == Do("line", OfReply(<<>>))
<1>3. /\ s1 \in Todos /\ Len(s1) = 1
      /\ s1[1] = "end"
  <2>1. s1 = Do("end", <<>>)
    BY DEF OfEnd
  <2> HIDE DEF s1
  <2>2. Behind(s1, "end", <<>>)
    <3>1. <<>> \in Todos
      BY <1>2
    <3> QED
      BY <1>1, <2>1, <3>1, DoneIs
  <2> QED
    BY <1>2, <2>2 DEF Behind
<1>4. /\ s2 \in Todos /\ Len(s2) = 2
      /\ s2[1] = "get" /\ s2[2] = "end"
  <2>1. s2 = Do("get", s1)
    BY DEF OfReply
  <2> HIDE DEF s2, s1
  <2>2. Behind(s2, "get", s1)
    <3>1. s1 \in Todos
      BY <1>3
    <3> QED
      BY <1>1, <2>1, <3>1, DoneIs
  <2>3. s2[2] = s1[1]
    <3>1. \A i \in 1..1 : s2[i + 1] = s1[i]
      BY <1>3, <2>2 DEF Behind
    <3> QED
      BY <3>1
  <2> QED
    BY <1>3, <2>2, <2>3 DEF Behind
<1>5. /\ l \in Todos /\ Len(l) = 3
      /\ l[1] = "line" /\ l[2] = "get" /\ l[3] = "end"
  <2>1. l = Do("line", s2)
    OBVIOUS
  <2> HIDE DEF l, s2
  <2>2. Behind(l, "line", s2)
    <3>1. s2 \in Todos
      BY <1>4
    <3> QED
      BY <1>1, <2>1, <3>1, DoneIs
  <2>3. l[2] = s2[1] /\ l[3] = s2[2]
    <3>1. \A i \in 1..2 : l[i + 1] = s2[i]
      BY <1>4, <2>2 DEF Behind
    <3> QED
      BY <3>1
  <2> QED
    BY <1>4, <2>2, <2>3 DEF Behind
<1>6. /\ s3 \in Todos /\ Len(s3) = 3
      /\ s3[1] = "RNTO" /\ s3[2] = "get" /\ s3[3] = "end"
  <2>1. s3 = Do("RNTO", s2)
    BY DEF OfRNTO
  <2> HIDE DEF s3, s2
  <2>2. Behind(s3, "RNTO", s2)
    <3>1. s2 \in Todos
      BY <1>4
    <3> QED
      BY <1>1, <2>1, <3>1, DoneIs
  <2>3. s3[2] = s2[1] /\ s3[3] = s2[2]
    <3>1. \A i \in 1..2 : s3[i + 1] = s2[i]
      BY <1>4, <2>2 DEF Behind
    <3> QED
      BY <3>1
  <2> QED
    BY <1>4, <2>2, <2>3 DEF Behind
<1>7. /\ s4 \in Todos /\ Len(s4) = 4
      /\ s4[1] = "check" /\ s4[2] = "RNTO" /\ s4[3] = "get" /\ s4[4] = "end"
  <2>1. s4 = Do("check", s3)
    BY DEF OfChecked
  <2> HIDE DEF s4, s3
  <2>2. Behind(s4, "check", s3)
    <3>1. s3 \in Todos
      BY <1>6
    <3> QED
      BY <1>1, <2>1, <3>1, DoneIs
  <2>3. s4[2] = s3[1] /\ s4[3] = s3[2] /\ s4[4] = s3[3]
    <3>1. \A i \in 1..3 : s4[i + 1] = s3[i]
      BY <1>6, <2>2 DEF Behind
    <3> QED
      BY <3>1
  <2> QED
    BY <1>6, <2>2, <2>3 DEF Behind
<1>8. /\ s5 \in Todos /\ Len(s5) = 5
      /\ s5[1] = "get" /\ s5[2] = "check" /\ s5[3] = "RNTO" /\ s5[4] = "get"
      /\ s5[5] = "end"
  <2>1. s5 = Do("get", s4)
    BY DEF OfRNFR
  <2> HIDE DEF s5, s4
  <2>2. Behind(s5, "get", s4)
    <3>1. s4 \in Todos
      BY <1>7
    <3> QED
      BY <1>1, <2>1, <3>1, DoneIs
  <2>3. s5[2] = s4[1] /\ s5[3] = s4[2] /\ s5[4] = s4[3] /\ s5[5] = s4[4]
    <3>1. \A i \in 1..4 : s5[i + 1] = s4[i]
      BY <1>7, <2>2 DEF Behind
    <3> QED
      BY <3>1
  <2> QED
    BY <1>7, <2>2, <2>3 DEF Behind
<1>9. /\ s6 \in Todos /\ Len(s6) = 6
      /\ s6[1] = "RNFR" /\ s6[2] = "get" /\ s6[3] = "check" /\ s6[4] = "RNTO"
      /\ s6[5] = "get" /\ s6[6] = "end"
  <2>1. s6 = Do("RNFR", s5)
    OBVIOUS
  <2> HIDE DEF s6, s5
  <2>2. Behind(s6, "RNFR", s5)
    <3>1. s5 \in Todos
      BY <1>8
    <3> QED
      BY <1>1, <2>1, <3>1, DoneIs
  <2>3. s6[2] = s5[1] /\ s6[3] = s5[2] /\ s6[4] = s5[3] /\ s6[5] = s5[4] /\ s6[6] = s5[5]
    <3>1. \A i \in 1..5 : s6[i + 1] = s5[i]
      BY <1>8, <2>2 DEF Behind
    <3> QED
      BY <3>1
  <2> QED
    BY <1>8, <2>2, <2>3 DEF Behind
<1> DEFINE t == <<"get", "end">>
           u == <<"line", "get", "end">>
           v == rename
<1>10. t = s2
  <2>1. /\ t \in Seq(Words) /\ Len(t) = 2
        /\ t[1] = "get" /\ t[2] = "end"
    BY <1>1
  <2>2. \A i \in 1..2 : i = 1 \/ i = 2
    OBVIOUS
  <2> HIDE DEF t, s2
  <2>3. \A i \in 1..2 : t[i] = s2[i]
    BY <1>4, <2>1, <2>2
  <2> QED
    BY <1>4, <2>1, <2>3, SeqEqual DEF Todos
<1>11. u = l
  <2>1. /\ u \in Seq(Words) /\ Len(u) = 3
        /\ u[1] = "line" /\ u[2] = "get" /\ u[3] = "end"
    BY <1>1
  <2>2. \A i \in 1..3 : i = 1 \/ i = 2 \/ i = 3
    OBVIOUS
  <2> HIDE DEF u, l
  <2>3. \A i \in 1..3 : u[i] = l[i]
    BY <1>5, <2>1, <2>2
  <2> QED
    BY <1>5, <2>1, <2>3, SeqEqual DEF Todos
<1>12. v = s6
  <2>1. /\ v \in Seq(Words) /\ Len(v) = 6
        /\ v[1] = "RNFR" /\ v[2] = "get" /\ v[3] = "check" /\ v[4] = "RNTO" /\ v[5] = "get" /\ v[6] = "end"
    BY <1>1 DEF rename
  <2>2. \A i \in 1..6 : i = 1 \/ i = 2 \/ i = 3 \/ i = 4 \/ i = 5 \/ i = 6
    OBVIOUS
  <2> HIDE DEF v, s6
  <2>3. \A i \in 1..6 : v[i] = s6[i]
    BY <1>9, <2>1, <2>2
  <2> QED
    BY <1>9, <2>1, <2>3, SeqEqual DEF Todos
<1> QED
  BY <1>10, <1>11, <1>12

LEMMA RestsType == Rests \subseteq Todos /\ <<>> \in Rests
<1>1. "nameless" \in Commands /\ "receive" \in Copies /\ <<>> \in Todos
  BY SimpleSteps DEF Commands, Copies
<1>2. OfData("nameless", "receive", <<>>) \in Todos
  BY <1>1, DataSteps
<1> QED
  BY <1>1, <1>2 DEF Rests

\* What a call is: a line and its reply, a renaming, or moving a file, after which
\* getfile may go on.
LEMMA CallsAre ==
  ASSUME NEW steps \in Calls
  PROVE  \/ steps = Do("line", OfReply(<<>>)) \/ steps = Do("RNFR", OfRNFR)
         \/ \E cmd \in Commands, copy \in Copies, r \in Rests :
              Fits(cmd, copy) /\ steps = OfData(cmd, copy, r)
<1> DEFINE rest == OfData("nameless", "receive", <<>>)
<1>1. /\ \A cmd \in {"LIST", "RETR", "STOR", "nameless"} : cmd \in Commands
      /\ \A copy \in {"receive", "ignore", "send"} : copy \in Copies
  BY DEF Commands, Copies
<1>2. <<>> \in Rests /\ rest \in Rests /\ Rests \subseteq Todos
  BY RestsType DEF Rests
<1>3. \A cmd \in Commands, copy \in Copies : ftpdata(cmd, copy) = OfData(cmd, copy, <<>>)
  BY DataIs
<1>4. \A cmd \in Commands, copy \in Copies, r \in Todos :
        OfData(cmd, copy, <<>>) \o r = OfData(cmd, copy, r)
  BY DataThen
<1> DEFINE away == IF o THEN "receive" ELSE "ignore"
<1>5. away \in Copies /\ away # "send"
  BY <1>1
<1>6. list = OfData("LIST", away, <<>>)
  BY <1>1, <1>3, <1>5 DEF list
<1>7. ftpdata("nameless", "receive") = rest
  BY <1>1, <1>3
<1> HIDE DEF away, rest
<1>8. getfile(FALSE) = OfData("LIST", away, rest)
  BY <1>1, <1>2, <1>4, <1>5, <1>6, <1>7 DEF getfile
<1>9. /\ getfile(TRUE) = OfData("RETR", "receive", <<>>)
      /\ putfile = OfData("STOR", "send", <<>>) /\ append = OfData("nameless", "send", <<>>)
  BY <1>1, <1>3 DEF getfile, putfile, append
<1>10. /\ Fits("LIST", away) /\ Fits("RETR", "receive") /\ Fits("STOR", "send")
       /\ Fits("nameless", "send")
  BY <1>1, <1>5 DEF Fits
<1>11. /\ "LIST" \in Commands /\ "RETR" \in Commands /\ "STOR" \in Commands
       /\ "nameless" \in Commands /\ "receive" \in Copies /\ "send" \in Copies
  BY <1>1
<1>12. \/ steps = Do("line", OfReply(<<>>)) \/ steps = Do("RNFR", OfRNFR)
       \/ steps = OfData("LIST", away, <<>>) \/ steps = OfData("LIST", away, rest)
       \/ steps = OfData("RETR", "receive", <<>>) \/ steps = OfData("STOR", "send", <<>>)
       \/ steps = OfData("nameless", "send", <<>>)
  BY <1>6, <1>8, <1>9, SimpleAre DEF Calls
<1> QED
  BY <1>2, <1>5, <1>10, <1>11, <1>12

\* What is left after an error: the end of the call.
Past(s) == SubSeq(s, SelectInSeq(s, LAMBDA x : x = "end"), Len(s))
FirstEnd(s, n) == n \in 1..Len(s) /\ s[n] = "end" /\ \A i \in 1..(n - 1) : s[i] # "end"
Closes(s, e) == \E n \in 1..Len(s) : FirstEnd(s, n) /\ SubSeq(s, n, Len(s)) = e

LEMMA PastIs ==
  ASSUME NEW s \in Todos, NEW e, Closes(s, e)
  PROVE  Past(s) = e
<1>1. PICK n \in 1..Len(s) : FirstEnd(s, n) /\ SubSeq(s, n, Len(s)) = e
  BY DEF Closes
<1> DEFINE I == {i \in 1..Len(s) : s[i] = "end"}
<1>2. n \in I /\ \A i \in I : n <= i
  BY <1>1 DEF FirstEnd
<1>3. \A m \in I : (\A i \in I : m <= i) => m = n
  BY <1>2
<1>4. SelectInSeq(s, LAMBDA x : x = "end") = IF I # {} THEN CHOOSE m \in I : \A i \in I : m <= i ELSE 0
  BY DEF SelectInSeq, Min
<1> HIDE DEF I
<1>5. (CHOOSE m \in I : \A i \in I : m <= i) = n
  BY <1>2, <1>3
<1>6. SelectInSeq(s, LAMBDA x : x = "end") = n
  BY <1>2, <1>4, <1>5
<1> QED
  BY <1>1, <1>6 DEF Past

\* It is the same with another step before it.
LEMMA ClosesDo ==
  ASSUME NEW x \in Words, x # "end", NEW s \in Todos, NEW e, Closes(s, e)
  PROVE  Closes(Do(x, s), e)
<1> DEFINE w == Do(x, s)
<1>1. PICK n \in 1..Len(s) : FirstEnd(s, n) /\ SubSeq(s, n, Len(s)) = e
  BY DEF Closes
<1>2. Behind(w, x, s)
  BY DoneIs
<1> HIDE DEF w
<1>3. w \in Todos /\ Len(w) = Len(s) + 1 /\ w[1] = x /\ Len(s) \in Nat
  BY <1>2 DEF Behind, Todos
<1>4. \A i \in 1..Len(s) : w[i + 1] = s[i]
  BY <1>2 DEF Behind
<1>5. n + 1 \in 1..Len(w) /\ w[n + 1] = "end"
  BY <1>1, <1>3, <1>4 DEF FirstEnd
<1>6. \A i \in 1..n : w[i] # "end"
  <2> SUFFICES ASSUME NEW i \in 1..n PROVE w[i] # "end"
    OBVIOUS
  <2>1. CASE i = 1
    BY <1>3, <2>1
  <2>2. CASE i # 1
    <3>1. i - 1 \in 1..(n - 1) /\ i - 1 \in 1..Len(s) /\ (i - 1) + 1 = i
      BY <1>3, <2>2
    <3>2. s[i - 1] # "end"
      BY <1>1, <3>1 DEF FirstEnd
    <3> QED
      BY <1>4, <3>1, <3>2
  <2> QED
    BY <2>1, <2>2
<1>7. SubSeq(w, n + 1, Len(w)) = SubSeq(s, n, Len(s))
  <2> DEFINE a == SubSeq(w, n + 1, Len(w))
             b == SubSeq(s, n, Len(s))
  <2>1. a \in Seq(Words) /\ Len(a) = Len(s) - n + 1
        /\ \A i \in 1..(Len(s) - n + 1) : a[i] = w[(n + 1) + i - 1]
    <3>1. \A i \in (n + 1)..Len(w) : w[i] \in Words
      BY <1>3 DEF Todos
    <3>2. /\ a \in Seq(Words) /\ Len(a) = IF n + 1 <= Len(w) THEN Len(w) - (n + 1) + 1 ELSE 0
          /\ \A i \in 1..(Len(w) - (n + 1) + 1) : a[i] = w[(n + 1) + i - 1]
      BY <1>3, <3>1, SubSeqProperties
    <3>3. n + 1 <= Len(w) /\ Len(w) - (n + 1) + 1 = Len(s) - n + 1
      BY <1>3
    <3> HIDE DEF a
    <3> QED
      BY <3>2, <3>3
  <2>2. b \in Seq(Words) /\ Len(b) = Len(s) - n + 1
        /\ \A i \in 1..(Len(s) - n + 1) : b[i] = s[n + i - 1]
    <3>1. \A i \in n..Len(s) : s[i] \in Words
      BY DEF Todos
    <3>2. /\ b \in Seq(Words) /\ Len(b) = IF n <= Len(s) THEN Len(s) - n + 1 ELSE 0
          /\ \A i \in 1..(Len(s) - n + 1) : b[i] = s[n + i - 1]
      BY <1>3, <3>1, SubSeqProperties
    <3> HIDE DEF b
    <3> QED
      BY <3>2
  <2> HIDE DEF a, b
  <2>3. \A i \in 1..(Len(s) - n + 1) : a[i] = b[i]
    <3> SUFFICES ASSUME NEW i \in 1..(Len(s) - n + 1) PROVE a[i] = b[i]
      OBVIOUS
    <3>1. n + i - 1 \in 1..Len(s) /\ (n + 1) + i - 1 = (n + i - 1) + 1
      BY <1>3
    <3> QED
      BY <1>4, <2>1, <2>2, <3>1
  <2>4. a = b
    BY <2>1, <2>2, <2>3, SeqEqual
  <2> QED
    BY <2>4 DEF a, b
<1>8. FirstEnd(w, n + 1)
  <2>1. (n + 1) - 1 = n
    BY <1>3
  <2> QED
    BY <1>5, <1>6, <2>1 DEF FirstEnd
<1> QED
  BY <1>1, <1>5, <1>7, <1>8 DEF Closes, w

LEMMA ClosesEnd ==
  ASSUME NEW r \in Todos
  PROVE  Closes(OfEnd(r), OfEnd(r))
<1> DEFINE w == OfEnd(r)
<1>1. Behind(w, "end", r)
  BY DoneIs DEF OfEnd, Words
<1> HIDE DEF w
<1>2. w \in Seq(Words) /\ Len(w) = Len(r) + 1 /\ w[1] = "end" /\ Len(r) \in Nat
  BY <1>1 DEF Behind, Todos
<1>3. 1 \in 1..Len(w) /\ FirstEnd(w, 1)
  BY <1>2 DEF FirstEnd
<1>4. SubSeq(w, 1, Len(w)) = w
  BY <1>2, SubSeqFull
<1> QED
  BY <1>3, <1>4 DEF Closes, w

\* An error in an answer ends a call.
LEMMA ChecksPast ==
  /\ \A copy \in Copies, r \in Todos : Past(OfCheck(copy, r)) = OfEnd(r)
  /\ Past(OfChecked) = OfEnd(<<>>)
<1>1. /\ "end" \in Words /\ "get" \in Words /\ "accept" \in Words /\ "RNTO" \in Words
      /\ "check" \in Words
      /\ \A copy \in Copies : copy \in Words /\ copy # "end"
  BY DEF Words, Sent, Copies
<1>2. \A r \in Todos : Closes(OfReply(r), OfEnd(r)) /\ OfReply(r) \in Todos
  <2> SUFFICES ASSUME NEW r \in Todos PROVE Closes(OfReply(r), OfEnd(r)) /\ OfReply(r) \in Todos
    OBVIOUS
  <2>1. OfEnd(r) \in Todos
    BY <1>1, DoIs DEF OfEnd
  <2>2. Closes(OfEnd(r), OfEnd(r))
    BY ClosesEnd
  <2>3. Closes(Do("get", OfEnd(r)), OfEnd(r))
    BY <1>1, <2>1, <2>2, ClosesDo
  <2>4. Do("get", OfEnd(r)) \in Todos
    BY <1>1, <2>1, DoIs
  <2> QED
    BY <2>3, <2>4 DEF OfReply
<1>3. ASSUME NEW copy \in Copies, NEW r \in Todos PROVE Past(OfCheck(copy, r)) = OfEnd(r)
  <2> DEFINE e == OfEnd(r)
             s1 == OfReply(r)
             s2 == OfCopy(copy, r)
             s3 == OfAccept(copy, r)
             s4 == OfCheck(copy, r)
  <2>1. s1 \in Todos /\ Closes(s1, e)
    BY <1>2
  <2>2. s2 = Do(copy, s1) /\ s3 = Do("accept", s2) /\ s4 = Do("check", s3)
    BY DEF OfCopy, OfAccept, OfCheck
  <2> HIDE DEF s1, s2, s3, s4, e
  <2>3. copy \in Words /\ copy # "end"
    BY <1>1
  <2>4. s2 \in Todos /\ Closes(s2, e)
    BY <2>1, <2>2, <2>3, DoIs, ClosesDo
  <2>5. s3 \in Todos /\ Closes(s3, e)
    BY <1>1, <2>2, <2>4, DoIs, ClosesDo
  <2>6. s4 \in Todos /\ Closes(s4, e)
    BY <1>1, <2>2, <2>5, DoIs, ClosesDo
  <2>7. Past(s4) = e
    BY <2>6, PastIs
  <2> QED
    BY <2>7 DEF s4, e
<1>4. Past(OfChecked) = OfEnd(<<>>)
  <2> DEFINE e == OfEnd(<<>>)
             s1 == OfReply(<<>>)
             s2 == OfRNTO
             s3 == OfChecked
  <2>1. s1 \in Todos /\ Closes(s1, e)
    BY <1>2, SimpleSteps
  <2>2. s2 = Do("RNTO", s1) /\ s3 = Do("check", s2)
    BY DEF OfRNTO, OfChecked
  <2> HIDE DEF s1, s2, s3, e
  <2>4. s2 \in Todos /\ Closes(s2, e)
    BY <1>1, <2>1, <2>2, DoIs, ClosesDo
  <2>5. s3 \in Todos /\ Closes(s3, e)
    BY <1>1, <2>2, <2>4, DoIs, ClosesDo
  <2>7. Past(s3) = e
    BY <2>5, PastIs
  <2> QED
    BY <2>7 DEF s3, e
<1> QED
  BY <1>3, <1>4

----------------------------------------------------------------------------
(* The ftp client reads replies                                            *)

\* The first element of two sequences is that of the first.
LEMMA TailCat ==
  ASSUME NEW C, NEW p \in Seq(C), p # <<>>, NEW q \in Seq(C)
  PROVE  /\ p \o q # <<>> /\ Head(p \o q) = Head(p) /\ Tail(p \o q) = Tail(p) \o q
         /\ p \o q \in Seq(C) /\ Tail(p) \in Seq(C)
<1> DEFINE w == p \o q
           a == Tail(w)
           t == Tail(p)
           b == t \o q
<1>1. /\ Len(p) \in Nat \ {0} /\ Len(q) \in Nat /\ w \in Seq(C) /\ Len(w) = Len(p) + Len(q)
      /\ \A i \in 1..(Len(p) + Len(q)) : w[i] = IF i <= Len(p) THEN p[i] ELSE q[i - Len(p)]
  BY ConcatProperties
<1> HIDE DEF w
<1>2. w # <<>> /\ Head(w) = Head(p)
  <2>1. Len(w) # 0 /\ 1 \in 1..(Len(p) + Len(q)) /\ 1 <= Len(p)
    BY <1>1
  <2>2. w[1] = p[1]
    BY <1>1, <2>1
  <2> QED
    BY <1>1, <2>1, <2>2
<1>3. /\ t \in Seq(C) /\ Len(t) = Len(p) - 1 /\ \A i \in 1..(Len(p) - 1) : t[i] = p[i + 1]
  BY <1>1, HeadTailProperties
<1>4. /\ a \in Seq(C) /\ Len(a) = Len(w) - 1 /\ \A i \in 1..(Len(w) - 1) : a[i] = w[i + 1]
  BY <1>1, <1>2, HeadTailProperties
<1> HIDE DEF a, t
<1>5. /\ b \in Seq(C) /\ Len(b) = Len(t) + Len(q)
      /\ \A i \in 1..(Len(t) + Len(q)) : b[i] = IF i <= Len(t) THEN t[i] ELSE q[i - Len(t)]
  BY <1>1, <1>3, ConcatProperties
<1> HIDE DEF b
<1>6. Len(a) = Len(b) /\ Len(a) = Len(p) + Len(q) - 1
  BY <1>1, <1>3, <1>4, <1>5
<1>7. \A i \in 1..(Len(p) + Len(q) - 1) : a[i] = b[i]
  <2> SUFFICES ASSUME NEW i \in 1..(Len(p) + Len(q) - 1) PROVE a[i] = b[i]
    OBVIOUS
  <2>1. /\ i + 1 \in 1..(Len(p) + Len(q)) /\ i \in 1..(Len(w) - 1) /\ i \in 1..(Len(t) + Len(q))
        /\ (i + 1) - Len(p) = i - Len(t)
    BY <1>1, <1>3
  <2>2. a[i] = w[i + 1]
    BY <1>4, <2>1
  <2>3. CASE i <= Len(t)
    <3>1. i \in 1..(Len(p) - 1) /\ i + 1 <= Len(p)
      BY <1>1, <1>3, <2>3
    <3> QED
      BY <1>1, <1>3, <1>5, <2>1, <2>2, <2>3, <3>1
  <2>4. CASE ~(i <= Len(t))
    <3>1. ~(i + 1 <= Len(p))
      BY <1>1, <1>3, <2>4
    <3> QED
      BY <1>1, <1>5, <2>1, <2>2, <2>4, <3>1
  <2> QED
    BY <2>3, <2>4
<1>8. a = b
  BY <1>4, <1>5, <1>6, <1>7, SeqEqual
<1> QED
  BY <1>1, <1>2, <1>3, <1>8 DEF w, a, t, b

\* The lines of a reply.
LEMMA LineIs ==
  ASSUME NEW c \in Codes, NEW n \in Int
  PROVE  /\ \A d \in {c, "text"}, s \in {" ", "-"} :
              /\ Line(d, s, n) \in ReplyLines /\ Line(d, s, n).code = d /\ Line(d, s, n).sep = s
              /\ Line(d, s, n).to = n /\ Line(d, s, n).part = "whole"
         /\ c # "text"
BY DEF Line, ReplyLines, Codes

LEMMA PartIs ==
  ASSUME NEW c \in Codes, NEW n \in Int, NEW p \in Part(c, n)
  PROVE  /\ p \in Seq(ReplyLines) /\ p # <<>>
         /\ \/ Head(p) = Line(c, " ", n) /\ Tail(p) = <<>>
            \/ Head(p) = Line("text", " ", n) /\ Tail(p) \in Part(c, n)
<1> DEFINE x == Line(c, " ", n)
           y == Line("text", " ", n)
<1>1. x \in ReplyLines /\ y \in ReplyLines
  BY LineIs
<1>2. p = <<x>> \/ p = <<y, x>>
  BY DEF Part
<1>3. <<x>> \in Part(c, n)
  BY DEF Part
<1> HIDE DEF x, y
<1>4. CASE p = <<x>>
  <2>1. p \in Seq(ReplyLines) /\ p # <<>> /\ Head(p) = x /\ Tail(p) = <<>>
    BY <1>1, <1>4
  <2> QED
    BY <2>1 DEF x
<1>5. CASE p = <<y, x>>
  <2>1. p \in Seq(ReplyLines) /\ p # <<>> /\ Head(p) = y /\ Tail(p) = <<x>>
    BY <1>1, <1>5
  <2> QED
    BY <1>3, <2>1 DEF y
<1> QED
  BY <1>2, <1>4, <1>5

Wholes(p) == \A i \in 1..Len(p) : p[i].part = "whole"

LEMMA FullIs ==
  ASSUME NEW c \in Codes, NEW n \in Int, NEW p \in Full(c, n)
  PROVE  /\ p \in Seq(ReplyLines) /\ p # <<>>
         /\ \/ Head(p) = Line(c, " ", n) /\ Tail(p) = <<>>
            \/ Head(p) = Line(c, "-", n) /\ Tail(p) \in Part(c, n)
         /\ p[Len(p)] \in Ends /\ p[Len(p)].to = n /\ Wholes(p)
<1> DEFINE x == Line(c, " ", n)
           y == Line("text", " ", n)
           z == Line(c, "-", n)
<1>1. /\ x \in ReplyLines /\ y \in ReplyLines /\ z \in ReplyLines /\ x \in Ends /\ x.to = n
      /\ x.part = "whole" /\ y.part = "whole" /\ z.part = "whole"
  <2>1. /\ x \in ReplyLines /\ y \in ReplyLines /\ z \in ReplyLines /\ x.sep = " " /\ x.to = n
        /\ x.part = "whole" /\ y.part = "whole" /\ z.part = "whole"
    <3>1. x \in ReplyLines /\ x.sep = " " /\ x.to = n /\ x.part = "whole"
      BY DEF Line, ReplyLines, Codes
    <3>2. y \in ReplyLines /\ y.part = "whole"
      BY LineIs
    <3>3. z \in ReplyLines /\ z.part = "whole"
      BY DEF Line, ReplyLines, Codes
    <3> QED
      BY <3>1, <3>2, <3>3
  <2> HIDE DEF x, y, z
  <2> QED
    BY <2>1 DEF Ends
<1>2. p = <<x>> \/ p = <<z, x>> \/ p = <<z, y, x>>
  BY DEF Full
<1>3. <<x>> \in Part(c, n) /\ <<y, x>> \in Part(c, n)
  BY DEF Part
<1> HIDE DEF x, y, z
<1>4. CASE p = <<x>>
  <2>1. p \in Seq(ReplyLines) /\ p # <<>> /\ Head(p) = x /\ Tail(p) = <<>> /\ Len(p) = 1 /\ p[1] = x
    BY <1>1, <1>4
  <2>2. \A i \in 1..1 : i = 1
    OBVIOUS
  <2> QED
    BY <1>1, <2>1, <2>2 DEF x, Wholes
<1>5. CASE p = <<z, x>>
  <2>1. /\ p \in Seq(ReplyLines) /\ p # <<>> /\ Head(p) = z /\ Tail(p) = <<x>> /\ Len(p) = 2
        /\ p[1] = z /\ p[2] = x
    BY <1>1, <1>5
  <2>2. \A i \in 1..2 : i = 1 \/ i = 2
    OBVIOUS
  <2> QED
    BY <1>1, <1>3, <2>1, <2>2 DEF z, Wholes
<1>6. CASE p = <<z, y, x>>
  <2>1. /\ p \in Seq(ReplyLines) /\ p # <<>> /\ Head(p) = z /\ Tail(p) = <<y, x>> /\ Len(p) = 3
        /\ p[1] = z /\ p[2] = y /\ p[3] = x
    BY <1>1, <1>6
  <2>2. \A i \in 1..3 : i = 1 \/ i = 2 \/ i = 3
    OBVIOUS
  <2> QED
    BY <1>1, <1>3, <2>1, <2>2 DEF z, Wholes
<1> QED
  BY <1>2, <1>4, <1>5, <1>6

\* Reading a line takes the first of what is on its way.
LEMMA HeadRead ==
  ASSUME RepliesInv, fetched # <<>>, fetched' = Tail(fetched), onway' = onway
  PROVE  /\ Pipe \in Seq(ReplyLines) /\ Pipe # <<>> /\ Head(Pipe) = fetched[1]
         /\ Pipe' = Tail(Pipe)
<1>1. fetched \in Seq(ReplyLines) /\ onway \in Seq(ReplyLines)
  BY DEF RepliesInv
<1>2. /\ fetched \o onway # <<>> /\ Head(fetched \o onway) = Head(fetched)
      /\ Tail(fetched \o onway) = Tail(fetched) \o onway /\ fetched \o onway \in Seq(ReplyLines)
  BY <1>1, TailCat
<1>3. Head(fetched) = fetched[1]
  BY <1>1
<1> QED
  BY <1>2, <1>3 DEF Pipe

\* What get_response does with a line when nothing goes wrong outside the client.
LEMMA LineGot ==
  ASSUME RepliesInv, faults = {}, ftp_get_response
  PROVE  LET x == fetched[1]
         IN  /\ Pipe \in Seq(ReplyLines) /\ Pipe # <<>> /\ x = Head(Pipe) /\ Pipe' = Tail(Pipe)
             /\ heard' = x.to /\ code' = (IF first THEN x.code ELSE code)
             /\ \/ /\ x.sep = " " /\ x.code = code' /\ first' = TRUE /\ ret' = code'
                   /\ todo' = Tail(todo)
                \/ ~(x.sep = " " /\ x.code = code') /\ first' = FALSE /\ UNCHANGED <<ret, todo>>
<1> DEFINE x == fetched[1]
<1>1. ~NoMore
  BY DEF RepliesInv, NoMore
<1>2. /\ fetched # <<>> /\ fetched' = Tail(fetched) /\ onway' = onway
      /\ heard' = x.to
  BY <1>1 DEF ftp_get_response
<1>3. Pipe \in Seq(ReplyLines) /\ Pipe # <<>> /\ Head(Pipe) = x /\ Pipe' = Tail(Pipe)
  BY <1>2, HeadRead
<1>4. x.part = "whole"
  <2>1. 1 \in 1..Len(Pipe) /\ Pipe[1] = x
    BY <1>3
  <2> QED
    BY <2>1 DEF RepliesInv
<1>5. /\ code' = (IF first THEN x.code ELSE code)
      /\ IF x.sep = " " /\ x.code = code'
         THEN first' = TRUE /\ ret' = code' /\ todo' = Tail(todo)
         ELSE first' = FALSE /\ UNCHANGED <<ret, todo>>
  <2>1. \E c \in {"2", "5"}, s \in {" ", "-"} :
          LET line == IF x.part = "tail" THEN [code |-> c, sep |-> s] ELSE x
          IN  /\ code' = IF first THEN line.code ELSE code
              /\ IF line.sep = " " /\ line.code = code'
                 THEN first' = TRUE /\ ret' = code' /\ todo' = Tail(todo)
                 ELSE first' = FALSE /\ UNCHANGED <<ret, todo>>
    BY <1>1 DEF ftp_get_response
  <2> HIDE DEF x
  <2>2. x.part # "tail"
    BY <1>4
  <2> QED
    BY <2>1, <2>2
<1> HIDE DEF x
<1>6. /\ Pipe \in Seq(ReplyLines) /\ Pipe # <<>> /\ x = Head(Pipe) /\ Pipe' = Tail(Pipe)
      /\ heard' = x.to /\ code' = (IF first THEN x.code ELSE code)
      /\ \/ /\ x.sep = " " /\ x.code = code' /\ first' = TRUE /\ ret' = code'
            /\ todo' = Tail(todo)
         \/ ~(x.sep = " " /\ x.code = code') /\ first' = FALSE /\ UNCHANGED <<ret, todo>>
  BY <1>2, <1>3, <1>5
<1> QED
  BY <1>6 DEF x

\* It reads a line of a reply: there are more, or it was the last.
LEMMA GetReply ==
  ASSUME RepliesInv, faults = {}, ftp_get_response,
         NEW c \in Codes, NEW p \in Left(c), NEW q \in Seq(ReplyLines), Pipe = p \o q
  PROVE  \/ Pipe' = Tail(p) \o q /\ Tail(p) \in Left(c)' /\ UNCHANGED <<ret, todo>>
         \/ /\ Pipe' = q /\ first' = TRUE /\ heard' = asked /\ ret' = c
            /\ todo' = Tail(todo)
<1> DEFINE x == fetched[1]
           n == asked
<1>1. /\ Pipe # <<>> /\ x = Head(Pipe) /\ Pipe' = Tail(Pipe)
      /\ heard' = x.to /\ code' = (IF first THEN x.code ELSE code)
      /\ \/ /\ x.sep = " " /\ x.code = code' /\ first' = TRUE /\ ret' = code'
            /\ todo' = Tail(todo)
         \/ ~(x.sep = " " /\ x.code = code') /\ first' = FALSE /\ UNCHANGED <<ret, todo>>
  BY LineGot
<1>2. n \in Int /\ asked' = n
  BY DEF RepliesInv, ftp_get_response
<1> HIDE DEF x, n
<1>3. p \in Seq(ReplyLines) /\ p # <<>>
  BY <1>2, PartIs, FullIs DEF Left, n
<1>4. x = Head(p) /\ Pipe' = Tail(p) \o q
  BY <1>1, <1>3, TailCat
<1>5. /\ Line(c, " ", n).code = c /\ Line(c, " ", n).sep = " " /\ Line(c, " ", n).to = n
      /\ Line(c, "-", n).code = c /\ Line(c, "-", n).sep = "-"
      /\ Line("text", " ", n).code = "text" /\ c # "text"
  BY DEF Line, Codes
<1>6. <<>> \o q = q
  BY ConcatEmptySeq
<1>7. ASSUME x = Line(c, " ", n), Tail(p) = <<>>, first \/ code = c
      PROVE  /\ Pipe' = q /\ first' = TRUE /\ heard' = asked /\ ret' = c
             /\ todo' = Tail(todo)
  <2>1. code' = c /\ x.sep = " " /\ x.code = c /\ x.to = n
    BY <1>1, <1>5, <1>7
  <2> QED
    BY <1>1, <1>4, <1>6, <1>7, <2>1 DEF n
<1>8. ASSUME Tail(p) \in Part(c, n), code' = c, ~(x.sep = " " /\ x.code = code')
      PROVE  Pipe' = Tail(p) \o q /\ Tail(p) \in Left(c)' /\ UNCHANGED <<ret, todo>>
  <2>1. first' = FALSE /\ UNCHANGED <<ret, todo>>
    BY <1>1, <1>8
  <2>2. Tail(p) \in (IF first' THEN Full(c, asked') ELSE IF code' = c THEN Part(c, asked') ELSE {})
    BY <1>2, <1>8, <2>1
  <2> QED
    BY <1>4, <2>1, <2>2 DEF Left
<1>9. CASE first
  <2>1. \/ x = Line(c, " ", n) /\ Tail(p) = <<>>
        \/ x = Line(c, "-", n) /\ Tail(p) \in Part(c, n)
    BY <1>2, <1>4, <1>9, FullIs DEF Left, n
  <2>2. CASE x = Line(c, "-", n) /\ Tail(p) \in Part(c, n)
    <3>1. code' = c /\ x.sep = "-"
      BY <1>1, <1>5, <1>9, <2>2
    <3> QED
      BY <1>8, <2>2, <3>1
  <2> QED
    BY <1>7, <1>9, <2>1, <2>2
<1>10. CASE ~first
  <2>0. code = c /\ p \in Part(c, n)
    BY <1>10 DEF Left, n
  <2>1. \/ x = Line(c, " ", n) /\ Tail(p) = <<>>
        \/ x = Line("text", " ", n) /\ Tail(p) \in Part(c, n)
    BY <1>2, <1>4, <2>0, PartIs
  <2>2. CASE x = Line("text", " ", n) /\ Tail(p) \in Part(c, n)
    <3>1. code' = c /\ x.code = "text"
      BY <1>1, <1>5, <1>10, <2>0, <2>2
    <3> QED
      BY <1>5, <1>8, <2>2, <3>1
  <2> QED
    BY <1>7, <2>0, <2>1, <2>2
<1> QED
  BY <1>9, <1>10

\* One reply, two, or none.
LEMMA GetOne ==
  ASSUME RepliesInv, faults = {}, ftp_get_response, NEW c \in Codes, OneReply(c)
  PROVE  \/ OneReply(c)' /\ UNCHANGED <<ret, todo>>
         \/ NoReply' /\ heard' = asked /\ ret' = c /\ todo' = Tail(todo)
<1> DEFINE p == Pipe
           nil == <<>>
<1>1. p \in Left(c) /\ p \in Seq(ReplyLines) /\ nil \in Seq(ReplyLines)
  <2>1. p \in Left(c)
    BY DEF OneReply
  <2>2. p \in Seq(ReplyLines)
    BY LineGot
  <2> QED
    BY <2>1, <2>2
<1>2. p \o nil = p /\ \A s \in Seq(ReplyLines) : s \o nil = s
  BY <1>1, ConcatEmptySeq
<1>3. p # <<>>
  BY LineGot
<1> HIDE DEF nil
<1>4. Tail(p) \in Seq(ReplyLines) /\ Tail(p) \o nil = Tail(p)
  <2> HIDE DEF p
  <2> QED
    BY <1>1, <1>2, <1>3
<1>5. \/ Pipe' = Tail(p) \o nil /\ Tail(p) \in Left(c)' /\ UNCHANGED <<ret, todo>>
      \/ Pipe' = nil /\ first' = TRUE /\ heard' = asked /\ ret' = c /\ todo' = Tail(todo)
  BY <1>1, <1>2, GetReply
<1> QED
  BY <1>4, <1>5 DEF OneReply, NoReply, nil

LEMMA GetTwo ==
  ASSUME RepliesInv, faults = {}, ftp_get_response, NEW c \in Codes, NEW d \in Codes,
         TwoReplies(c, d)
  PROVE  \/ TwoReplies(c, d)' /\ UNCHANGED <<ret, todo>>
         \/ OneReply(d)' /\ ret' = c /\ todo' = Tail(todo)
<1>1. PICK p \in Left(c), q \in Full(d, asked) : Pipe = p \o q
  BY DEF TwoReplies
<1>2. asked \in Int /\ asked' = asked
  BY DEF RepliesInv, ftp_get_response
<1>3. q \in Seq(ReplyLines)
  BY <1>2, FullIs
<1>4. \/ Pipe' = Tail(p) \o q /\ Tail(p) \in Left(c)' /\ UNCHANGED <<ret, todo>>
      \/ Pipe' = q /\ first' = TRUE /\ ret' = c /\ todo' = Tail(todo)
  BY <1>1, <1>3, GetReply
<1>5. q \in Full(d, asked')
  BY <1>2
<1>6. first' = TRUE => q \in Left(d)'
  BY <1>5 DEF Left
<1>7. Tail(p) \in Left(c)' /\ Pipe' = Tail(p) \o q => TwoReplies(c, d)'
  BY <1>5 DEF TwoReplies
<1> QED
  BY <1>4, <1>6, <1>7 DEF OneReply

LEMMA GetNone ==
  ASSUME RepliesInv, faults = {}, ftp_get_response
  PROVE  ~NoReply
BY LineGot DEF NoReply

\* The server sends a reply.
LEMMA ReplySent ==
  ASSUME RepliesInv, NEW c \in Codes, FtpReply(c),
         UNCHANGED <<fetched, o, hungUp, asked, first, code>>, faults \subseteq faults'
  PROVE  /\ RepliesInv'
         /\ NoReply => OneReply(c)'
         /\ \A d \in Codes : OneReply(d) => TwoReplies(d, c)'
<1>0. asked \in Int
  BY DEF RepliesInv
<1>1. PICK lines \in Full(c, asked) : onway' = onway \o lines
  <2>1. \A s \in {<<Line(c, " ", asked)>>,
                  <<Line(c, "-", asked), Line("text", " ", asked), Line(c, " ", asked)>>} :
          s \in Full(c, asked)
    BY DEF Full
  <2> QED
    BY <2>1 DEF FtpReply
<1>2. /\ lines \in Seq(ReplyLines) /\ lines # <<>>
      /\ lines[Len(lines)] \in Ends /\ lines[Len(lines)].to = asked
      /\ \A i \in 1..Len(lines) : lines[i].part = "whole"
  <2> DEFINE n == asked
  <2>1. n \in Int /\ lines \in Full(c, n)
    BY <1>0
  <2> HIDE DEF n
  <2>2. lines \in Seq(ReplyLines) /\ lines # <<>>
    BY <2>1, FullIs
  <2>3. lines[Len(lines)] \in Ends /\ lines[Len(lines)].to = n
    BY <2>1, FullIs
  <2>4. \A i \in 1..Len(lines) : lines[i].part = "whole"
    <3>1. Wholes(lines)
      BY <2>1, FullIs
    <3> QED
      BY <3>1 DEF Wholes
  <2> QED
    BY <2>2, <2>3, <2>4 DEF n
<1>3. RepliesInv'
  BY <1>1, <1>2, SendReplies
<1>4. Pipe' = Pipe \o lines /\ Pipe \in Seq(ReplyLines)
  BY <1>1, <1>2, PipeSend
<1>5. lines \in Full(c, asked')
  BY <1>1
<1>6. ASSUME NoReply PROVE OneReply(c)'
  <2>1. Pipe = <<>> /\ first
    BY <1>6 DEF NoReply
  <2>2. Pipe' = lines
    BY <1>2, <1>4, <2>1, ConcatEmptySeq
  <2> QED
    BY <1>5, <2>1, <2>2 DEF OneReply, Left
<1>7. ASSUME NEW d \in Codes, OneReply(d) PROVE TwoReplies(d, c)'
  <2>1. Pipe \in Left(d)
    BY <1>7 DEF OneReply
  <2>2. Left(d)' = Left(d)
    BY DEF Left
  <2> QED
    BY <1>4, <1>5, <2>1, <2>2 DEF TwoReplies
<1> QED
  BY <1>3, <1>6, <1>7

\* What the invariant says of the lines is kept, whatever goes wrong.
LEMMA RepliesStep ==
  ASSUME RepliesInv, FtpNext
  PROVE  RepliesInv'
<1>0. asked \in Int /\ "1" \in Codes /\ "2" \in Codes /\ "3" \in Codes /\ "4" \in Codes
      /\ "5" \in Codes
  BY DEF RepliesInv, Codes
<1>1. CASE \E steps \in Calls : FtpCall(steps)
  BY <1>0, <1>1, SameReplies DEF FtpCall
<1>2. CASE ftp_send_cmd
  <2>1. asked' \in Int /\ UNCHANGED <<fetched, onway, o, hungUp, faults>>
    BY <1>0, <1>2 DEF ftp_send_cmd
  <2> QED
    BY <2>1, SameReplies
<1>3. CASE Refill /\ UNCHANGED ftpvars
  BY <1>3, RefillReplies
<1>4. CASE ftp_get_response
  <2>1. CASE UNCHANGED fetched
    BY <1>0, <1>4, <2>1, SameReplies DEF ftp_get_response
  <2>2. CASE fetched # <<>> /\ fetched' = Tail(fetched)
    BY <1>4, <2>2, ReadReplies DEF ftp_get_response
  <2> QED
    BY <1>4, <2>1, <2>2 DEF ftp_get_response
<1>5. CASE check
  BY <1>0, <1>5, SameReplies DEF check
<1>6. CASE ftpdata_step
  BY <1>0, <1>6, SameReplies DEF ftpdata_step
<1>7. CASE sys_read \/ sys_write
  BY <1>0, <1>7, SameReplies DEF sys_read, sys_write, revars
<1>8. CASE FtpServe
  <2>1. /\ UNCHANGED <<fetched, o, hungUp, asked, first, code>> /\ faults \subseteq faults'
        /\ \E c \in {"1", "2", "3", "5"} : FtpReply(c)
    BY <1>8 DEF FtpServe, Goes
  <2> QED
    BY <1>0, <2>1, ReplySent
<1>9. CASE Connect
  <2>1. /\ UNCHANGED <<fetched, o, hungUp, asked, first, code>> /\ faults \subseteq faults'
        /\ UNCHANGED <<onway, faults>> \/ FtpReply("4")
    BY <1>9 DEF Connect, Deserted, Goes
  <2> QED
    BY <1>0, <2>1, ReplySent, SameReplies
<1>10. CASE Transfer
  <2>1. /\ UNCHANGED <<fetched, o, hungUp, asked, first, code, faults>>
        /\ UNCHANGED onway \/ FtpReply("4") \/ FtpReply("2")
    BY <1>10 DEF Transfer, Deserted
  <2> QED
    BY <1>0, <2>1, ReplySent, SameReplies
<1>11. CASE HangUp /\ UNCHANGED ftpvars
  BY <1>11, HangReplies
<1> QED
  BY <1>1, <1>2, <1>3, <1>4, <1>5, <1>6, <1>7, <1>8, <1>9, <1>10, <1>11
  DEF FtpNext, FtpWork, FtpServers

FtpInv == RepliesInv /\ (faults = {} => FtpStage)

\* The stages of a call that moves a file, by what the client does next.
CheckStage(copy) ==
  (Ready /\ Still /\ Error(ret)) \/ (ret = "1" /\ Moving(copy, "late") /\ Unmet)
MoveNext(cmd, copy, r) ==
  \/ Head(todo) = "bind" /\ Tail(todo) = OfPort(cmd, copy, r) /\ Still /\ NoData
  \/ Head(todo) = "PORT" /\ Tail(todo) = OfPorted(cmd, copy, r) /\ Still /\ HasPort
  \/ /\ Head(todo) = "get" /\ Tail(todo) = OfListen(cmd, copy, r) /\ HasPort
     /\ todo = OfPorted(cmd, copy, r)
     /\ Waits("PORT") \/ (Answered("2") /\ told = port)
  \/ /\ Head(todo) = "listen" /\ Tail(todo) = OfCmd(cmd, copy, r)
     /\ Still /\ HasPort /\ told = port
  \/ Head(todo) = cmd /\ Tail(todo) = OfAnswer(copy, r) /\ Still /\ Ready
  \/ /\ Head(todo) = "get" /\ Tail(todo) = OfCheck(copy, r) /\ todo = OfAnswer(copy, r)
     /\ AnswerStage(cmd, copy)
  \/ /\ Head(todo) = "check" /\ Tail(todo) = OfAccept(copy, r) /\ todo = OfCheck(copy, r)
     /\ CheckStage(copy)
  \/ /\ Head(todo) = "accept" /\ Tail(todo) = OfCopy(copy, r) /\ todo = OfAccept(copy, r)
     /\ Moving(copy, "late") /\ Unmet
  \/ /\ Head(todo) = copy /\ Tail(todo) = OfReply(r) /\ todo = OfCopy(copy, r)
     /\ Moving(copy, "late") /\ conn = "accepted" /\ "client" \notin ended
  \/ /\ Head(todo) = "get" /\ Tail(todo) = OfEnd(r) /\ todo = OfReply(r)
     /\ Moving(copy, "late") /\ Through(copy)

\* The first step of what is left is that of the stage.
LEMMA StageIs ==
  ASSUME FtpStage
  PROVE  \/ todo = <<>> /\ Still /\ NoData
         \/ /\ todo # <<>> /\ Still /\ NoData
            /\ \/ Head(todo) = "line" /\ Tail(todo) = OfReply(<<>>)
               \/ Head(todo) = "RNFR" /\ Tail(todo) = OfRNFR
               \/ Head(todo) = "check" /\ Tail(todo) = OfRNTO /\ todo = OfChecked
               \/ Head(todo) = "RNTO" /\ Tail(todo) = OfReply(<<>>)
         \/ /\ todo # <<>> /\ Head(todo) = "get" /\ Tail(todo) = OfEnd(<<>>) /\ NoData
            /\ todo = OfReply(<<>>)
            /\ (\E cmd \in {"line", "RNTO"} : Waits(cmd)) \/ (\E c \in Codes : Answered(c))
         \/ /\ todo # <<>> /\ Head(todo) = "get" /\ Tail(todo) = OfChecked /\ NoData
            /\ todo = OfRNFR /\ (Waits("RNFR") \/ (\E c \in Codes : Answered(c)))
         \/ \E r \in Rests : /\ todo # <<>> /\ Head(todo) = "end" /\ Tail(todo) = r
                             /\ Still /\ Complete
         \/ \E cmd \in Commands, copy \in Copies, r \in Rests :
              todo # <<>> /\ Fits(cmd, copy) /\ MoveNext(cmd, copy, r)
<1>1. CASE todo \in Simple /\ Still /\ NoData
  <2>1. \/ todo = <<>> \/ todo = Do("line", OfReply(<<>>)) \/ todo = Do("RNFR", OfRNFR)
        \/ todo = OfChecked \/ todo = OfRNTO
    BY <1>1 DEF Simple
  <2> QED
    BY <1>1, <2>1, SimpleSteps
<1>2. CASE /\ todo = OfReply(<<>>) /\ NoData
           /\ (\E cmd \in {"line", "RNTO"} : Waits(cmd)) \/ (\E c \in Codes : Answered(c))
  BY <1>2, SimpleSteps
<1>3. CASE todo = OfRNFR /\ NoData /\ (Waits("RNFR") \/ (\E c \in Codes : Answered(c)))
  BY <1>3, SimpleSteps
<1>4. CASE \E r \in Rests : todo = OfEnd(r) /\ Still /\ Complete
  <2>1. PICK r \in Rests : todo = OfEnd(r) /\ Still /\ Complete
    BY <1>4
  <2>2. r \in Todos /\ "LIST" \in Commands /\ "send" \in Copies
    BY RestsType DEF Commands, Copies
  <2>3. OfEnd(r) # <<>> /\ Head(OfEnd(r)) = "end" /\ Tail(OfEnd(r)) = r
    BY <2>2, DataSteps
  <2> QED
    BY <2>1, <2>3
<1>5. ASSUME NEW cmd \in Commands, NEW copy \in Copies, NEW r \in Rests, MoveStage(cmd, copy, r)
      PROVE  todo # <<>> /\ MoveNext(cmd, copy, r)
  <2>0. r \in Todos
    BY RestsType
  <2>1. CASE todo = OfData(cmd, copy, r) /\ Still /\ NoData
    BY <2>0, <2>1, DataSteps DEF MoveNext
  <2>2. CASE todo = OfPort(cmd, copy, r) /\ Still /\ HasPort
    BY <2>0, <2>2, DataSteps DEF MoveNext
  <2>3. CASE /\ todo = OfPorted(cmd, copy, r) /\ HasPort
             /\ Waits("PORT") \/ (Answered("2") /\ told = port)
    BY <2>0, <2>3, DataSteps DEF MoveNext
  <2>4. CASE todo = OfListen(cmd, copy, r) /\ Still /\ HasPort /\ told = port
    BY <2>0, <2>4, DataSteps DEF MoveNext
  <2>5. CASE todo = OfCmd(cmd, copy, r) /\ Still /\ Ready
    BY <2>0, <2>5, DataSteps DEF MoveNext
  <2>6. CASE todo = OfAnswer(copy, r) /\ AnswerStage(cmd, copy)
    BY <2>0, <2>6, DataSteps DEF MoveNext
  <2>7. CASE todo = OfCheck(copy, r) /\ CheckStage(copy)
    BY <2>0, <2>7, DataSteps DEF MoveNext
  <2>8. CASE todo = OfAccept(copy, r) /\ Moving(copy, "late") /\ Unmet
    BY <2>0, <2>8, DataSteps DEF MoveNext
  <2>9. CASE /\ todo = OfCopy(copy, r) /\ Moving(copy, "late") /\ conn = "accepted"
             /\ "client" \notin ended
    BY <2>0, <2>9, DataSteps DEF MoveNext
  <2>10. CASE todo = OfReply(r) /\ Moving(copy, "late") /\ Through(copy)
    BY <2>0, <2>10, DataSteps DEF MoveNext
  <2> QED
    BY <1>5, <2>1, <2>2, <2>3, <2>4, <2>5, <2>6, <2>7, <2>8, <2>9, <2>10 DEF MoveStage, CheckStage
<1>6. CASE \E cmd \in Commands, copy \in Copies, r \in Rests :
             Fits(cmd, copy) /\ MoveStage(cmd, copy, r)
  BY <1>5, <1>6
<1> QED
  BY <1>1, <1>2, <1>3, <1>4, <1>6 DEF FtpStage

----------------------------------------------------------------------------
(* Every step of the ftp client and of its server leads to a stage          *)

\* What is to be read, as long as the lines are the same.
LEMMA SameNone ==
  ASSUME Pipe' = Pipe, UNCHANGED <<asked, first, code>>
  PROVE  NoReply' = NoReply
BY DEF NoReply

LEMMA SameOne ==
  ASSUME Pipe' = Pipe, UNCHANGED <<asked, first, code>>, NEW c \in Codes
  PROVE  OneReply(c)' = OneReply(c)
BY DEF Left, OneReply

LEMMA SameTwo ==
  ASSUME Pipe' = Pipe, UNCHANGED <<asked, first, code>>, NEW c \in Codes, NEW d \in Codes
  PROVE  TwoReplies(c, d)' = TwoReplies(c, d)
BY DEF Left, TwoReplies

\* The same of the parts of a stage that are about the server.
LEMMA SameStill ==
  ASSUME Pipe' = Pipe, UNCHANGED <<asked, first, code, tosrv, srv, dir, heard>>
  PROVE  Still' = Still
BY SameNone DEF Still

LEMMA SameWaits ==
  ASSUME Pipe' = Pipe, UNCHANGED <<asked, first, code, tosrv, srv, dir, port>>, NEW cmd
  PROVE  Waits(cmd)' = Waits(cmd)
BY SameNone DEF Waits

LEMMA SameAnswered ==
  ASSUME Pipe' = Pipe, UNCHANGED <<asked, first, code, tosrv, srv, dir>>, NEW c \in Codes
  PROVE  Answered(c)' = Answered(c)
BY SameOne DEF Answered

LEMMA SameBegun ==
  ASSUME Pipe' = Pipe, UNCHANGED <<asked, first, code>>, NEW when \in {"early", "late"}
  PROVE  Begun(when)' = Begun(when)
BY SameNone, SameOne DEF Begun, Codes

LEMMA SameOver ==
  ASSUME Pipe' = Pipe, UNCHANGED <<asked, first, code>>, NEW when \in {"early", "late"},
         NEW e \in {"2", "4"}
  PROVE  Over(when, e)' = Over(when, e)
<1>1. e \in Codes /\ "1" \in Codes
  BY DEF Codes
<1> QED
  BY <1>1, SameOne, SameTwo DEF Over

LEMMA SameMoving ==
  ASSUME Pipe' = Pipe, UNCHANGED <<asked, first, code, tosrv, srv, dir, told>>,
         UNCHANGED datavars, NEW copy \in Copies, NEW when \in {"early", "late"}
  PROVE  Moving(copy, when)' = Moving(copy, when)
<1>1. UNCHANGED <<port, heeds, conn, ended, inpipe, taken>>
  BY DEF datavars
<1>2. Begun(when)' = Begun(when)
  BY SameBegun
<1>6. \A e \in {"2", "4"} : Over(when, e)' = Over(when, e)
  BY SameOver
<1>3. Connects(copy, when)' = Connects(copy, when)
  BY <1>1, <1>2 DEF Connects
<1>4. Transfers(copy, when)' = Transfers(copy, when)
  BY <1>1, <1>2 DEF Transfers
<1>5. Done(copy, when)' = Done(copy, when)
  BY <1>1, <1>6 DEF Done
<1> QED
  BY <1>1, <1>3, <1>4, <1>5 DEF Moving

\* The stages do not depend on where in the get area the lines are.
LEMMA SameStage ==
  ASSUME FtpStage, Pipe' = Pipe, UNCHANGED <<tosrv, srv, todo, asked, heard, ftpvars>>
  PROVE  FtpStage'
<1>1. UNCHANGED <<first, code, ret, port, heeds, conn, ended, inpipe, taken, told, dir>>
  BY DEF ftpvars, datavars
<1>2. UNCHANGED datavars
  BY DEF ftpvars
<1>3. NoData' = NoData /\ HasPort' = HasPort /\ Ready' = Ready /\ Unmet' = Unmet
      /\ Complete' = Complete /\ \A copy \in Copies : Through(copy)' = Through(copy)
  BY <1>1 DEF NoData, HasPort, Ready, Unmet, Complete, Through
<1>4. Still' = Still
  BY <1>1, SameStill
<1>5. \A cmd : Waits(cmd)' = Waits(cmd)
  BY <1>1, SameWaits
<1>6. \A c \in Codes : Answered(c)' = Answered(c)
  BY <1>1, SameAnswered
<1>7. "2" \in Codes /\ "5" \in Codes /\ "early" \in {"early", "late"} /\ "late" \in {"early", "late"}
  BY DEF Codes
<1>8. \A copy \in Copies, when \in {"early", "late"} : Moving(copy, when)' = Moving(copy, when)
  BY <1>1, <1>2, SameMoving
<1>9. ASSUME NEW cmd \in Commands, NEW copy \in Copies, NEW r \in Rests, MoveStage(cmd, copy, r)
      PROVE  MoveStage(cmd, copy, r)'
  <2>1. AnswerStage(cmd, copy)' = AnswerStage(cmd, copy)
    BY <1>3, <1>4, <1>5, <1>6, <1>7, <1>8 DEF AnswerStage
  <2> QED
    BY <1>1, <1>3, <1>4, <1>5, <1>6, <1>7, <1>8, <1>9, <2>1 DEF MoveStage
<1> QED
  BY <1>1, <1>3, <1>4, <1>5, <1>6, <1>9 DEF FtpStage

\* One of the stages of a call that moves a file.
LEMMA ToMove ==
  ASSUME NEW cmd \in Commands, NEW copy \in Copies, NEW r \in Rests, Fits(cmd, copy),
         MoveStage(cmd, copy, r)'
  PROVE  FtpStage'
BY DEF FtpStage

\* A call begins between two.
LEMMA CallStage ==
  ASSUME FtpStage, NEW steps \in Calls, FtpCall(steps)
  PROVE  FtpStage'
<1>1. /\ todo = <<>> /\ todo' = steps
      /\ UNCHANGED <<tosrv, srv, onway, fetched, asked, heard, first, code, ret, port, heeds,
                     conn, ended, inpipe, taken, told, dir>>
  BY DEF FtpCall, Idle, ftpvars, datavars
<1>2. Still /\ NoData
  BY <1>1, StageIs
<1>3. Pipe' = Pipe
  BY <1>1 DEF Pipe
<1>4. Still' /\ NoData'
  BY <1>1, <1>2, <1>3, SameStill DEF NoData
<1>5. CASE steps = Do("line", OfReply(<<>>)) \/ steps = Do("RNFR", OfRNFR)
  <2>1. todo' \in Simple
    BY <1>1, <1>5 DEF Simple
  <2> QED
    BY <1>4, <2>1 DEF FtpStage, Simple
<1>6. ASSUME NEW cmd \in Commands, NEW copy \in Copies, NEW r \in Rests, Fits(cmd, copy),
             steps = OfData(cmd, copy, r)
      PROVE  FtpStage'
  <2>1. MoveStage(cmd, copy, r)'
    BY <1>1, <1>4, <1>6 DEF MoveStage
  <2> QED
    BY <1>6, <2>1, ToMove
<1> QED
  BY <1>5, <1>6, CallsAre

\* What a command does, between replies.
LEMMA SentWaits ==
  ASSUME ftp_send_cmd, Still, NEW cmd, Head(todo) = cmd
  PROVE  Waits(cmd)'
<1>1. /\ tosrv' = <<[cmd |-> cmd, port |-> useraddr(port)]>>
      /\ UNCHANGED <<srv, dir, port, first, fetched, onway>>
  <2> DEFINE x == [cmd |-> cmd, port |-> useraddr(port)]
  <2>1. tosrv = <<>> /\ tosrv' = Append(tosrv, x)
    BY DEF ftp_send_cmd, Still
  <2> HIDE DEF x
  <2>2. tosrv' = <<x>>
    BY <2>1
  <2> QED
    BY <2>2 DEF x, ftp_send_cmd, ftpvars, datavars
<1> QED
  BY <1>1 DEF Waits, Still, NoReply, Pipe

LEMMA SendStage ==
  ASSUME FtpStage, ftp_send_cmd
  PROVE  FtpStage'
<1>1. /\ todo # <<>> /\ Head(todo) \in Sent /\ todo' = Tail(todo)
      /\ UNCHANGED <<port, heeds, conn, ended, inpipe, taken, told>>
  BY DEF ftp_send_cmd, ftpvars, datavars
<1>2. Head(todo) \notin {"get", "end", "check", "bind", "listen", "accept"} \cup Copies
  BY <1>1 DEF Sent, Copies
<1>3. NoData' = NoData /\ HasPort' = HasPort /\ Ready' = Ready
  BY <1>1 DEF NoData, HasPort, Ready
<1>4. \/ /\ Still /\ NoData
         /\ \/ Head(todo) = "line" /\ Tail(todo) = OfReply(<<>>)
            \/ Head(todo) = "RNFR" /\ Tail(todo) = OfRNFR
            \/ Head(todo) = "RNTO" /\ Tail(todo) = OfReply(<<>>)
      \/ \E cmd \in Commands, copy \in Copies, r \in Rests :
           Fits(cmd, copy) /\ MoveNext(cmd, copy, r)
  BY <1>1, <1>2, StageIs
<1>5. CASE /\ Still /\ NoData
           /\ \/ Head(todo) = "line" /\ Tail(todo) = OfReply(<<>>)
              \/ Head(todo) = "RNTO" /\ Tail(todo) = OfReply(<<>>)
  <2>1. NoData' /\ \E cmd \in {"line", "RNTO"} : Waits(cmd)'
    BY <1>3, <1>5, SentWaits
  <2> QED
    BY <1>1, <1>5, <2>1 DEF FtpStage
<1>6. CASE Still /\ NoData /\ Head(todo) = "RNFR" /\ Tail(todo) = OfRNFR
  <2>1. NoData' /\ Waits("RNFR")'
    BY <1>3, <1>6, SentWaits
  <2> QED
    BY <1>1, <1>6, <2>1 DEF FtpStage
<1>7. ASSUME NEW cmd \in Commands, NEW copy \in Copies, NEW r \in Rests, Fits(cmd, copy),
             MoveNext(cmd, copy, r)
      PROVE  FtpStage'
  <2>1. \/ Head(todo) = "PORT" /\ Tail(todo) = OfPorted(cmd, copy, r) /\ Still /\ HasPort
        \/ Head(todo) = cmd /\ Tail(todo) = OfAnswer(copy, r) /\ Still /\ Ready
    BY <1>2, <1>7 DEF MoveNext
  <2>2. CASE Head(todo) = "PORT" /\ Tail(todo) = OfPorted(cmd, copy, r) /\ Still /\ HasPort
    <3>1. HasPort' /\ Waits("PORT")'
      BY <1>3, <2>2, SentWaits
    <3>2. MoveStage(cmd, copy, r)'
      BY <1>1, <2>2, <3>1 DEF MoveStage
    <3> QED
      BY <1>7, <3>2, ToMove
  <2>3. CASE Head(todo) = cmd /\ Tail(todo) = OfAnswer(copy, r) /\ Still /\ Ready
    <3>1. Ready' /\ Waits(cmd)'
      BY <1>3, <2>3, SentWaits
    <3>2. MoveStage(cmd, copy, r)'
      BY <1>1, <2>3, <3>1 DEF MoveStage, AnswerStage
    <3> QED
      BY <1>7, <3>2, ToMove
  <2> QED
    BY <2>1, <2>2, <2>3
<1> QED
  BY <1>4, <1>5, <1>6, <1>7

\* The check after a reply; an error ends what is done.
LEMMA CheckKeeps ==
  ASSUME FtpStage, check
  PROVE  FtpStage'
<1>1. /\ todo # <<>> /\ Head(todo) = "check"
      /\ UNCHANGED <<tosrv, srv, onway, fetched, asked, heard, first, code, datavars, port, heeds,
                     conn, ended, inpipe, taken, told, dir>>
      /\ Error(ret) => ret' = "4" /\ todo' = Past(todo)
      /\ ~Error(ret) => todo' = Tail(todo) /\ ret' = ret
  BY DEF check, At, Past, datavars
<1>2. Pipe' = Pipe
  BY <1>1 DEF Pipe
<1>3. /\ Still' = Still /\ NoData' = NoData /\ Unmet' = Unmet
      /\ \A copy \in Copies : Moving(copy, "late")' = Moving(copy, "late")
  BY <1>1, <1>2, SameStill, SameMoving DEF NoData, Unmet
<1>4. \/ Still /\ NoData /\ todo = OfChecked /\ Tail(todo) = OfRNTO
      \/ \E cmd \in Commands, copy \in Copies, r \in Rests :
           Fits(cmd, copy) /\ MoveNext(cmd, copy, r)
  BY <1>1, StageIs
<1>5. ASSUME NEW r \in Rests, todo' = OfEnd(r), Still, conn = "none"
      PROVE  FtpStage'
  <2>1. Still' /\ Complete'
    BY <1>1, <1>3, <1>5 DEF Complete
  <2> QED
    BY <1>5, <2>1 DEF FtpStage
<1>6. CASE Still /\ NoData /\ todo = OfChecked /\ Tail(todo) = OfRNTO
  <2>1. CASE Error(ret)
    <3>1. todo' = OfEnd(<<>>) /\ <<>> \in Rests /\ conn = "none"
      BY <1>1, <1>6, <2>1, ChecksPast, RestsType DEF NoData
    <3> QED
      BY <1>5, <1>6, <3>1
  <2>2. CASE ~Error(ret)
    <3>1. todo' \in Simple /\ Still' /\ NoData'
      BY <1>1, <1>3, <1>6, <2>2 DEF Simple
    <3> QED
      BY <3>1 DEF FtpStage, Simple
  <2> QED
    BY <2>1, <2>2
<1>7. ASSUME NEW cmd \in Commands, NEW copy \in Copies, NEW r \in Rests, Fits(cmd, copy),
             MoveNext(cmd, copy, r)
      PROVE  FtpStage'
  <2>1. copy # "check" /\ cmd # "check"
    BY DEF Copies, Commands
  <2>2. /\ Tail(todo) = OfAccept(copy, r) /\ todo = OfCheck(copy, r) /\ CheckStage(copy)
    BY <1>1, <1>7, <2>1 DEF MoveNext
  <2>3. CASE Ready /\ Still /\ Error(ret)
    <3>1. todo' = OfEnd(r) /\ conn = "none"
      BY <1>1, <2>2, <2>3, ChecksPast, RestsType DEF Ready, HasPort
    <3> QED
      BY <1>5, <2>3, <3>1
  <2>4. CASE ret = "1" /\ Moving(copy, "late") /\ Unmet
    <3>1. todo' = OfAccept(copy, r)
      BY <1>1, <2>2, <2>4 DEF Error
    <3>2. MoveStage(cmd, copy, r)'
      BY <1>3, <2>4, <3>1 DEF MoveStage
    <3> QED
      BY <1>7, <3>2, ToMove
  <2> QED
    BY <2>2, <2>3, <2>4 DEF CheckStage
<1> QED
  BY <1>4, <1>6, <1>7

\* The server goes on when the client does something with the connection.
LEMMA StillServes ==
  ASSUME NEW copy \in Copies, Moving(copy, "late"), Pipe' = Pipe,
         UNCHANGED <<asked, first, code, tosrv, srv, dir, port>>,
         conn \in {"made", "accepted", "ignored"}, conn' \in {"made", "accepted", "ignored"},
         "server" \in ended' <=> "server" \in ended,
         inpipe' \in Nat, taken' \in Nat,
         "server" \in ended =>
            /\ taken' + inpipe' = taken + inpipe
            /\ copy = "send" /\ "client" \in ended /\ inpipe = 0 => "client" \in ended' /\ inpipe' = 0,
         copy = "send" /\ "client" \in ended' => taken' + inpipe' = FILESIZE
  PROVE  Moving(copy, "late")'
<1>1. Begun("late")' = Begun("late") /\ \A e \in {"2", "4"} : Over("late", e)' = Over("late", e)
  BY SameBegun, SameOver
<1>2. CASE Connects(copy, "late")
  BY <1>2 DEF Connects
<1>3. CASE Transfers(copy, "late")
  <2>1. Transfers(copy, "late")'
    BY <1>1, <1>3 DEF Transfers
  <2> QED
    BY <2>1 DEF Moving
<1>4. CASE Done(copy, "late")
  <2>1. Done(copy, "late")'
    BY <1>1, <1>4 DEF Done
  <2> QED
    BY <2>1 DEF Moving
<1> QED
  BY <1>2, <1>3, <1>4 DEF Moving

\* There is a first port that is not in use.
LEMMA PortFound ==
  ASSUME NEW busy \in Busy
  PROVE  bind_until_success(busy) \in Nat
<1> DEFINE T == {p \in FirstPort..65535 : p \notin busy}
<1>1. FirstPort \in Nat /\ T \in SUBSET Nat /\ T # {}
  BY FtpAssumption
<1>2. PICK m \in T : \A n \in T : m <= n
  <2> HIDE DEF T
  <2> QED
    BY <1>1, LeastNatural
<1>3. /\ m \in FirstPort..65535 /\ m \notin busy
      /\ \A q \in FirstPort..(m - 1) : q \in busy
  BY <1>1, <1>2
<1>4. bind_until_success(busy) \in FirstPort..65535
  BY <1>3 DEF bind_until_success
<1> QED
  BY <1>1, <1>4

\* The steps that are about the data connection.
LEMMA DataStage ==
  ASSUME FtpStage, ftpdata_step
  PROVE  FtpStage'
<1>1. /\ todo # <<>> /\ todo' = Tail(todo)
      /\ UNCHANGED <<tosrv, srv, onway, fetched, asked, heard, first, code, ret, told, dir>>
  BY DEF ftpdata_step, At
<1>2. Pipe' = Pipe
  BY <1>1 DEF Pipe
<1>3. Still' = Still
  BY <1>1, <1>2, SameStill
<1>4. CASE /\ Head(todo) = "bind" /\ \E busy \in Busy : port' = bind_until_success(busy)
           /\ taken' = 0 /\ UNCHANGED <<heeds, conn, ended, inpipe>>
  <2>1. PICK cmd \in Commands, copy \in Copies, r \in Rests :
          Fits(cmd, copy) /\ MoveNext(cmd, copy, r)
    BY <1>1, <1>4, StageIs
  <2>2. Tail(todo) = OfPort(cmd, copy, r) /\ Still /\ NoData
    BY <1>4, <2>1 DEF MoveNext, Commands, Copies
  <2>3. port' \in Nat
    BY <1>4, PortFound
  <2>4. HasPort'
    BY <1>4, <2>2, <2>3 DEF HasPort, NoData
  <2>5. MoveStage(cmd, copy, r)'
    BY <1>1, <1>3, <2>2, <2>4 DEF MoveStage
  <2> QED
    BY <2>1, <2>5, ToMove
<1>5. CASE Head(todo) = "listen" /\ heeds' = TRUE /\ UNCHANGED <<port, conn, ended, inpipe, taken>>
  <2>1. PICK cmd \in Commands, copy \in Copies, r \in Rests :
          Fits(cmd, copy) /\ MoveNext(cmd, copy, r)
    BY <1>1, <1>5, StageIs
  <2>2. Tail(todo) = OfCmd(cmd, copy, r) /\ Still /\ HasPort /\ told = port
    BY <1>5, <2>1 DEF MoveNext, Commands, Copies
  <2>3. Ready'
    BY <1>1, <1>5, <2>2 DEF Ready, HasPort
  <2>4. MoveStage(cmd, copy, r)'
    BY <1>1, <1>3, <2>2, <2>3 DEF MoveStage
  <2> QED
    BY <2>1, <2>4, ToMove
<1>6. CASE /\ Head(todo) = "accept" /\ conn = "made" /\ conn' = "accepted"
           /\ UNCHANGED <<port, heeds, ended, inpipe, taken>>
  <2>1. PICK cmd \in Commands, copy \in Copies, r \in Rests :
          Fits(cmd, copy) /\ MoveNext(cmd, copy, r)
    BY <1>1, <1>6, StageIs
  <2>2. Tail(todo) = OfCopy(copy, r) /\ Moving(copy, "late") /\ Unmet
    BY <1>6, <2>1 DEF MoveNext, Commands, Copies
  <2>3. "client" \notin ended /\ inpipe \in Nat /\ taken \in Nat
    BY <2>2 DEF Moving, Unmet
  <2>4. Moving(copy, "late")'
    BY <1>1, <1>2, <1>6, <2>2, <2>3, StillServes
  <2>5. MoveStage(cmd, copy, r)'
    BY <1>1, <1>6, <2>2, <2>3, <2>4 DEF MoveStage
  <2> QED
    BY <2>1, <2>5, ToMove
<1>7. CASE /\ Head(todo) = "ignore" /\ conn' = "ignored"
           /\ UNCHANGED <<port, heeds, ended, inpipe, taken>>
  <2>1. PICK cmd \in Commands, copy \in Copies, r \in Rests :
          Fits(cmd, copy) /\ MoveNext(cmd, copy, r)
    BY <1>1, <1>7, StageIs
  <2>2. /\ Tail(todo) = OfReply(r) /\ Moving(copy, "late") /\ conn = "accepted"
        /\ "client" \notin ended
    BY <1>7, <2>1 DEF MoveNext, Commands, Copies
  <2>3. inpipe \in Nat /\ taken \in Nat
    BY <2>2 DEF Moving
  <2>4. Moving(copy, "late")'
    BY <1>1, <1>2, <1>7, <2>2, <2>3, StillServes
  <2>5. Through(copy)'
    BY <1>7 DEF Through
  <2>6. MoveStage(cmd, copy, r)'
    BY <1>1, <2>2, <2>4, <2>5 DEF MoveStage
  <2> QED
    BY <2>1, <2>6, ToMove
<1>8. CASE /\ Head(todo) = "receive" /\ inpipe = 0 /\ "server" \in ended /\ UNCHANGED datavars
  <2>1. PICK cmd \in Commands, copy \in Copies, r \in Rests :
          Fits(cmd, copy) /\ MoveNext(cmd, copy, r)
    BY <1>1, <1>8, StageIs
  <2>2. copy = "receive" /\ Tail(todo) = OfReply(r) /\ Moving(copy, "late") /\ conn = "accepted"
    BY <1>8, <2>1 DEF MoveNext, Commands, Copies
  <2>3. UNCHANGED <<conn, ended, inpipe>>
    BY <1>8 DEF datavars
  <2>4. Moving(copy, "late")'
    BY <1>1, <1>2, <1>8, <2>2, SameMoving
  <2>5. Through(copy)'
    BY <1>8, <2>2, <2>3 DEF Through
  <2>6. MoveStage(cmd, copy, r)'
    BY <1>1, <2>2, <2>4, <2>5 DEF MoveStage
  <2> QED
    BY <2>1, <2>6, ToMove
<1>9. CASE /\ Head(todo) = "send" /\ taken + inpipe = FILESIZE /\ ended' = ended \cup {"client"}
           /\ UNCHANGED <<port, heeds, conn, inpipe, taken>>
  <2>1. PICK cmd \in Commands, copy \in Copies, r \in Rests :
          Fits(cmd, copy) /\ MoveNext(cmd, copy, r)
    BY <1>1, <1>9, StageIs
  <2>2. copy = "send" /\ Tail(todo) = OfReply(r) /\ Moving(copy, "late") /\ conn = "accepted"
    BY <1>9, <2>1 DEF MoveNext, Commands, Copies
  <2>3. inpipe \in Nat /\ taken \in Nat
    BY <2>2 DEF Moving
  <2>4. Moving(copy, "late")'
    BY <1>1, <1>2, <1>9, <2>2, <2>3, StillServes
  <2>5. Through(copy)'
    BY <1>9, <2>2 DEF Through
  <2>6. MoveStage(cmd, copy, r)'
    BY <1>1, <2>2, <2>4, <2>5 DEF MoveStage
  <2> QED
    BY <2>1, <2>6, ToMove
<1>10. Head(todo) # "sendonly"
  BY <1>1, StageIs DEF MoveNext, Commands, Copies, Fits
<1>11. CASE /\ Head(todo) = "end" /\ port' = 0 /\ heeds' = FALSE /\ conn' = "none" /\ ended' = {}
            /\ inpipe' = 0 /\ UNCHANGED taken
  <2>1. NoData'
    BY <1>11 DEF NoData
  <2>2. \/ \E r \in Rests : Tail(todo) = r /\ Still
        \/ \E cmd \in Commands, copy \in Copies, r \in Rests :
             Fits(cmd, copy) /\ MoveNext(cmd, copy, r)
    BY <1>1, <1>11, StageIs
  <2>6. ASSUME NEW cmd \in Commands, NEW copy \in Copies, NEW r \in Rests,
               MoveNext(cmd, copy, r)
        PROVE  FALSE
    BY <1>11, <2>6 DEF MoveNext, Commands, Copies
  <2>3. PICK r \in Rests : Tail(todo) = r /\ Still
    BY <2>2, <2>6
  <2>4. CASE r = <<>>
    <3>1. todo' \in Simple
      BY <1>1, <2>3, <2>4 DEF Simple
    <3> QED
      BY <1>3, <2>1, <2>3, <3>1 DEF FtpStage, Simple
  <2>5. CASE r = OfData("nameless", "receive", <<>>)
    <3>1. MoveStage("nameless", "receive", <<>>)'
      BY <1>1, <1>3, <2>1, <2>3, <2>5 DEF MoveStage
    <3>2. "nameless" \in Commands /\ "receive" \in Copies /\ <<>> \in Rests
          /\ Fits("nameless", "receive")
      BY RestsType DEF Commands, Copies, Fits
    <3> QED
      BY <3>1, <3>2, ToMove
  <2> QED
    BY <2>3, <2>4, <2>5 DEF Rests
<1> QED
  BY <1>1, <1>4, <1>5, <1>6, <1>7, <1>8, <1>9, <1>10, <1>11 DEF ftpdata_step, At

\* What has arrived is read, or more is sent.
LEMMA CopyStage ==
  ASSUME FtpStage, sys_read \/ sys_write
  PROVE  FtpStage'
<1>1. /\ todo # <<>> /\ Head(todo) \in {"receive", "send"}
      /\ UNCHANGED <<tosrv, srv, onway, fetched, todo, asked, heard, first, code, ret, port, heeds,
                     conn, ended, told, dir>>
  BY DEF sys_read, sys_write, At, revars
<1>2. PICK cmd \in Commands, copy \in Copies, r \in Rests :
        Fits(cmd, copy) /\ MoveNext(cmd, copy, r)
  BY <1>1, StageIs
<1>3. /\ copy = Head(todo) /\ todo = OfCopy(copy, r) /\ Moving(copy, "late") /\ conn = "accepted"
      /\ "client" \notin ended
  BY <1>1, <1>2 DEF MoveNext, Commands, Copies
<1>4. Pipe' = Pipe
  BY <1>1 DEF Pipe
<1>5. inpipe \in Nat /\ taken \in Nat
  BY <1>3 DEF Moving
<1>6. inpipe' \in Nat /\ taken' \in Nat /\ ("server" \in ended => taken' + inpipe' = taken + inpipe)
  <2>1. CASE sys_read
    <3>1. PICK k \in 1..inpipe : inpipe' = inpipe - k /\ taken' = taken + k
      BY <2>1 DEF sys_read
    <3> QED
      BY <1>5, <3>1
  <2>2. CASE sys_write
    <3>1. inpipe' = inpipe + 1 /\ taken' = taken /\ copy = "send"
      BY <1>3, <2>2 DEF sys_write, At
    <3>2. "server" \notin ended
      BY <1>3, <3>1 DEF Moving, Connects, Transfers, Done
    <3> QED
      BY <1>5, <3>1, <3>2
  <2> QED
    BY <2>1, <2>2
<1>7. Moving(copy, "late")'
  BY <1>1, <1>3, <1>4, <1>5, <1>6, StillServes
<1>8. MoveStage(cmd, copy, r)'
  BY <1>1, <1>3, <1>7 DEF MoveStage
<1> QED
  BY <1>2, <1>8, ToMove

\* The server goes on while the client reads its first reply.
LEMMA GetMoving ==
  ASSUME RepliesInv, faults = {}, ftp_get_response, NEW copy \in Copies, Moving(copy, "early")
  PROVE  \/ Moving(copy, "early")' /\ UNCHANGED <<ret, todo>>
         \/ Moving(copy, "late")' /\ ret' = "1" /\ todo' = Tail(todo)
<1>1. UNCHANGED <<tosrv, srv, asked, port, heeds, conn, ended, inpipe, taken, told, dir>>
  BY DEF ftp_get_response, datavars
<1>2. "1" \in Codes /\ "2" \in Codes /\ "4" \in Codes
  BY DEF Codes
<1>3. CASE Connects(copy, "early")
  <2>1. OneReply("1")
    BY <1>3 DEF Connects, Begun
  <2>2. \/ OneReply("1")' /\ UNCHANGED <<ret, todo>>
        \/ NoReply' /\ ret' = "1" /\ todo' = Tail(todo)
    BY <1>2, <2>1, GetOne
  <2>3. CASE OneReply("1")' /\ UNCHANGED <<ret, todo>>
    <3>1. Connects(copy, "early")'
      BY <1>1, <1>3, <2>3 DEF Connects, Begun
    <3> QED
      BY <1>1, <2>3, <3>1 DEF Moving
  <2>4. CASE NoReply' /\ ret' = "1" /\ todo' = Tail(todo)
    <3>1. Connects(copy, "late")'
      BY <1>1, <1>3, <2>4 DEF Connects, Begun
    <3> QED
      BY <1>1, <2>4, <3>1 DEF Moving
  <2> QED
    BY <2>2, <2>3, <2>4
<1>4. CASE Transfers(copy, "early")
  <2>1. OneReply("1")
    BY <1>4 DEF Transfers, Begun
  <2>2. \/ OneReply("1")' /\ UNCHANGED <<ret, todo>>
        \/ NoReply' /\ ret' = "1" /\ todo' = Tail(todo)
    BY <1>2, <2>1, GetOne
  <2>3. CASE OneReply("1")' /\ UNCHANGED <<ret, todo>>
    <3>1. Transfers(copy, "early")'
      BY <1>1, <1>4, <2>3 DEF Transfers, Begun
    <3> QED
      BY <1>1, <2>3, <3>1 DEF Moving
  <2>4. CASE NoReply' /\ ret' = "1" /\ todo' = Tail(todo)
    <3>1. Transfers(copy, "late")'
      BY <1>1, <1>4, <2>4 DEF Transfers, Begun
    <3> QED
      BY <1>1, <2>4, <3>1 DEF Moving
  <2> QED
    BY <2>2, <2>3, <2>4
<1>5. CASE Done(copy, "early")
  <2>1. PICK e \in {"2", "4"} :
          TwoReplies("1", e) /\ (e = "2" => taken + inpipe = FILESIZE)
    BY <1>5 DEF Done, Over
  <2>2. \/ TwoReplies("1", e)' /\ UNCHANGED <<ret, todo>>
        \/ OneReply(e)' /\ ret' = "1" /\ todo' = Tail(todo)
    BY <1>2, <2>1, GetTwo
  <2>3. CASE TwoReplies("1", e)' /\ UNCHANGED <<ret, todo>>
    <3>1. Done(copy, "early")'
      BY <1>1, <1>5, <2>1, <2>3 DEF Done, Over
    <3> QED
      BY <1>1, <2>3, <3>1 DEF Moving
  <2>4. CASE OneReply(e)' /\ ret' = "1" /\ todo' = Tail(todo)
    <3>1. Done(copy, "late")'
      BY <1>1, <1>5, <2>1, <2>4 DEF Done, Over
    <3> QED
      BY <1>1, <2>4, <3>1 DEF Moving
  <2> QED
    BY <2>2, <2>3, <2>4
<1> QED
  BY <1>3, <1>4, <1>5 DEF Moving

\* The second reply, of which the client has seen to the data connection.
LEMMA GetSecond ==
  ASSUME RepliesInv, faults = {}, ftp_get_response, NEW copy \in Copies, Moving(copy, "late"),
         Through(copy)
  PROVE  \/ Moving(copy, "late")' /\ UNCHANGED todo
         \/ Still' /\ Complete' /\ todo' = Tail(todo)
<1>1. UNCHANGED <<tosrv, srv, asked, port, heeds, conn, ended, inpipe, taken, told, dir>>
  BY DEF ftp_get_response, datavars
<1>2. ~Connects(copy, "late")
  BY DEF Connects, Through
<1>3. ~Transfers(copy, "late")
  BY GetNone DEF Transfers, Begun
<1>4. Done(copy, "late") /\ tosrv = <<>> /\ inpipe \in Nat /\ taken \in Nat
  BY <1>2, <1>3 DEF Moving
<1>5. PICK e \in {"2", "4"} : OneReply(e) /\ (e = "2" => taken + inpipe = FILESIZE)
  BY <1>4 DEF Done, Over
<1>6. \/ OneReply(e)' /\ UNCHANGED <<ret, todo>>
      \/ NoReply' /\ heard' = asked /\ ret' = e /\ todo' = Tail(todo)
  BY <1>5, GetOne DEF Codes
<1>7. CASE OneReply(e)' /\ UNCHANGED <<ret, todo>>
  <2>1. Done(copy, "late")'
    BY <1>1, <1>4, <1>5, <1>7 DEF Done, Over
  <2> QED
    BY <1>1, <1>7, <2>1 DEF Moving
<1>8. CASE NoReply' /\ heard' = asked /\ ret' = e /\ todo' = Tail(todo)
  <2>1. Still'
    BY <1>1, <1>4, <1>8 DEF Still, Done
  <2>2. ASSUME conn = "accepted", e = "2"
        PROVE  inpipe = 0 /\ taken = FILESIZE
    <3>1. inpipe = 0
      BY <1>4, <2>2 DEF Done, Through
    <3> QED
      BY <1>4, <1>5, <2>2, <3>1
  <2>3. Complete'
    BY <1>1, <1>8, <2>2 DEF Complete
  <2> QED
    BY <1>8, <2>1, <2>3
<1> QED
  BY <1>6, <1>7, <1>8

\* A turn of the loop that reads a reply.
LEMMA GetStage ==
  ASSUME RepliesInv, faults = {}, FtpStage, ftp_get_response
  PROVE  FtpStage'
<1>1. /\ todo # <<>> /\ Head(todo) = "get"
      /\ UNCHANGED <<tosrv, srv, asked, port, heeds, conn, ended, inpipe, taken, told, dir>>
  BY DEF ftp_get_response, Getting, datavars
<1>2. NoData' = NoData /\ HasPort' = HasPort /\ Ready' = Ready /\ Unmet' = Unmet
      /\ \A copy \in Copies : Through(copy)' = Through(copy)
  BY <1>1 DEF NoData, HasPort, Ready, Unmet, Through
<1>3. \A cmd : ~Waits(cmd)
  BY GetNone DEF Waits
<1>4. ASSUME NEW c \in Codes, Answered(c)
      PROVE  \/ Answered(c)' /\ UNCHANGED <<ret, todo>>
             \/ Still' /\ ret' = c /\ todo' = Tail(todo)
  <2>1. OneReply(c) /\ srv = "command" /\ dir = "none" /\ tosrv = <<>>
    BY <1>4 DEF Answered
  <2>2. \/ OneReply(c)' /\ UNCHANGED <<ret, todo>>
        \/ NoReply' /\ heard' = asked /\ ret' = c /\ todo' = Tail(todo)
    BY <2>1, GetOne
  <2>3. CASE OneReply(c)' /\ UNCHANGED <<ret, todo>>
    BY <1>1, <2>1, <2>3 DEF Answered
  <2>4. CASE NoReply' /\ heard' = asked /\ ret' = c /\ todo' = Tail(todo)
    BY <1>1, <2>1, <2>4 DEF Still
  <2> QED
    BY <2>2, <2>3, <2>4
<1>5. CASE Tail(todo) = OfEnd(<<>>) /\ NoData /\ todo = OfReply(<<>>) /\ \E c \in Codes : Answered(c)
  <2>1. PICK c \in Codes : Answered(c)
    BY <1>5
  <2>2. CASE Answered(c)' /\ UNCHANGED <<ret, todo>>
    BY <1>2, <1>5, <2>2 DEF FtpStage
  <2>3. CASE Still' /\ todo' = Tail(todo)
    <3>1. Complete' /\ <<>> \in Rests
      BY <1>1, <1>5, RestsType DEF Complete, NoData
    <3> QED
      BY <1>5, <2>3, <3>1 DEF FtpStage
  <2> QED
    BY <1>4, <2>1, <2>2, <2>3
<1>6. CASE Tail(todo) = OfChecked /\ NoData /\ todo = OfRNFR /\ \E c \in Codes : Answered(c)
  <2>1. PICK c \in Codes : Answered(c)
    BY <1>6
  <2>2. CASE Answered(c)' /\ UNCHANGED <<ret, todo>>
    BY <1>2, <1>6, <2>2 DEF FtpStage
  <2>3. CASE Still' /\ todo' = Tail(todo)
    <3>1. todo' \in Simple
      BY <1>6, <2>3 DEF Simple
    <3> QED
      BY <1>2, <1>6, <2>3, <3>1 DEF FtpStage, Simple
  <2> QED
    BY <1>4, <2>1, <2>2, <2>3
<1>7. ASSUME NEW cmd \in Commands, NEW copy \in Copies, NEW r \in Rests, Fits(cmd, copy),
             MoveNext(cmd, copy, r)
      PROVE  FtpStage'
  <2>1. "2" \in Codes /\ "5" \in Codes
    BY DEF Codes
  <2>2. CASE /\ Tail(todo) = OfListen(cmd, copy, r) /\ HasPort /\ todo = OfPorted(cmd, copy, r)
             /\ Answered("2") /\ told = port
    <3>1. \/ Answered("2")' /\ UNCHANGED <<ret, todo>>
          \/ Still' /\ todo' = Tail(todo)
      BY <1>4, <2>1, <2>2
    <3>2. MoveStage(cmd, copy, r)'
      BY <1>1, <1>2, <2>2, <3>1 DEF MoveStage
    <3> QED
      BY <1>7, <3>2, ToMove
  <2>3. CASE /\ Tail(todo) = OfCheck(copy, r) /\ todo = OfAnswer(copy, r) /\ Ready /\ Answered("5")
    <3>1. \/ Answered("5")' /\ UNCHANGED <<ret, todo>>
          \/ Still' /\ ret' = "5" /\ todo' = Tail(todo)
      BY <1>4, <2>1, <2>3
    <3>2. MoveStage(cmd, copy, r)'
      BY <1>2, <2>3, <3>1 DEF MoveStage, AnswerStage, Error
    <3> QED
      BY <1>7, <3>2, ToMove
  <2>4. CASE /\ Tail(todo) = OfCheck(copy, r) /\ todo = OfAnswer(copy, r) /\ cmd # "nameless"
             /\ Moving(copy, "early") /\ Unmet
    <3>1. \/ Moving(copy, "early")' /\ UNCHANGED <<ret, todo>>
          \/ Moving(copy, "late")' /\ ret' = "1" /\ todo' = Tail(todo)
      BY <2>4, GetMoving
    <3>2. MoveStage(cmd, copy, r)'
      BY <1>2, <2>4, <3>1 DEF MoveStage, AnswerStage
    <3> QED
      BY <1>7, <3>2, ToMove
  <2>5. CASE /\ Tail(todo) = OfEnd(r) /\ todo = OfReply(r) /\ Moving(copy, "late") /\ Through(copy)
    <3>1. \/ Moving(copy, "late")' /\ UNCHANGED todo
          \/ Still' /\ Complete' /\ todo' = Tail(todo)
      BY <2>5, GetSecond
    <3>2. CASE Moving(copy, "late")' /\ UNCHANGED todo
      <4>1. MoveStage(cmd, copy, r)'
        BY <1>2, <2>5, <3>2 DEF MoveStage
      <4> QED
        BY <1>7, <4>1, ToMove
    <3>3. CASE Still' /\ Complete' /\ todo' = Tail(todo)
      BY <2>5, <3>3 DEF FtpStage
    <3> QED
      BY <3>1, <3>2, <3>3
  <2> QED
    BY <1>1, <1>3, <1>7, <2>2, <2>3, <2>4, <2>5 DEF MoveNext, AnswerStage, Commands, Copies
<1> QED
  BY <1>1, <1>3, <1>5, <1>6, <1>7, StageIs

\* The server answers the command that it has been sent.
LEMMA ServeWaits ==
  ASSUME RepliesInv, faults = {}, faults' = {}, FtpServe, NEW cmd, Waits(cmd), port \in Nat
  PROVE  \/ cmd # "PORT" /\ Answered("5")' /\ UNCHANGED told
         \/ cmd = "PORT" /\ Answered("2")' /\ told' = port
         \/ cmd \in {"line", "RNTO"} /\ Answered("2")' /\ UNCHANGED told
         \/ cmd = "RNFR" /\ Answered("3")' /\ UNCHANGED told
         \/ /\ cmd \in {"LIST", "RETR", "STOR"} /\ OneReply("1")' /\ srv' = "connect"
            /\ tosrv' = <<>> /\ dir' = (IF cmd = "STOR" THEN "put" ELSE "get") /\ UNCHANGED told
<1> DEFINE x == [cmd |-> cmd, port |-> useraddr(port)]
           c == Head(tosrv).cmd
           p == Head(tosrv).port
<1>1. x.cmd = cmd /\ x.port[1] = port \div 256 /\ x.port[2] = port % 256
  BY DEF useraddr
<1>2. 256 * (port \div 256) + (port % 256) = port
  OBVIOUS
<1> HIDE DEF x
<1>3. tosrv = <<x>> /\ srv = "command" /\ dir = "none" /\ NoReply
  BY DEF Waits, x
<1>4. Head(tosrv) = x /\ Tail(tosrv) = <<>>
  BY <1>3
<1>5. c = cmd /\ 256 * p[1] + p[2] = port
  BY <1>1, <1>2, <1>4
<1>6. /\ tosrv' = <<>>
      /\ UNCHANGED <<fetched, o, hungUp, asked, first, code>>
      /\ \/ c # "PORT" /\ FtpReply("5") /\ UNCHANGED <<srv, told, dir>>
         \/ c = "PORT" /\ FtpReply("2") /\ told' = 256 * p[1] + p[2] /\ UNCHANGED <<srv, dir>>
         \/ c \in {"line", "RNTO"} /\ FtpReply("2") /\ UNCHANGED <<srv, told, dir>>
         \/ c = "RNFR" /\ FtpReply("3") /\ UNCHANGED <<srv, told, dir>>
         \/ /\ c \in {"LIST", "RETR", "STOR"} /\ FtpReply("1") /\ srv' = "connect"
            /\ dir' = (IF c = "STOR" THEN "put" ELSE "get") /\ UNCHANGED told
  BY <1>4 DEF FtpServe, Goes
<1> HIDE DEF c, p
<1>7. /\ tosrv' = <<>>
      /\ UNCHANGED <<fetched, o, hungUp, asked, first, code>>
      /\ \/ cmd # "PORT" /\ FtpReply("5") /\ UNCHANGED <<srv, told, dir>>
         \/ cmd = "PORT" /\ FtpReply("2") /\ told' = port /\ UNCHANGED <<srv, dir>>
         \/ cmd \in {"line", "RNTO"} /\ FtpReply("2") /\ UNCHANGED <<srv, told, dir>>
         \/ cmd = "RNFR" /\ FtpReply("3") /\ UNCHANGED <<srv, told, dir>>
         \/ /\ cmd \in {"LIST", "RETR", "STOR"} /\ FtpReply("1") /\ srv' = "connect"
            /\ dir' = (IF cmd = "STOR" THEN "put" ELSE "get") /\ UNCHANGED told
  BY <1>5, <1>6
<1>8. ASSUME NEW e \in Codes, FtpReply(e)
      PROVE  OneReply(e)' /\ (UNCHANGED <<srv, dir>> => Answered(e)')
  <2>1. OneReply(e)'
    BY <1>3, <1>7, <1>8, ReplySent
  <2> QED
    BY <1>3, <1>7, <2>1 DEF Answered
<1>9. "1" \in Codes /\ "2" \in Codes /\ "3" \in Codes /\ "5" \in Codes
  BY DEF Codes
<1> QED
  BY <1>7, <1>8, <1>9

LEMMA ServeStage ==
  ASSUME RepliesInv, faults = {}, faults' = {}, FtpStage, FtpServe
  PROVE  FtpStage'
<1>1. /\ tosrv # <<>>
      /\ UNCHANGED <<todo, port, heeds, conn, ended, inpipe, taken>>
  BY DEF FtpServe, datavars
<1>2. NoData' = NoData /\ HasPort' = HasPort
  BY <1>1 DEF NoData, HasPort
<1>3. ~Still /\ \A c \in Codes : ~Answered(c)
  BY <1>1 DEF Still, Answered
<1>4. \A copy \in Copies, when \in {"early", "late"} : ~Moving(copy, when)
  BY <1>1 DEF Moving
<1>5. CASE todo = OfReply(<<>>) /\ NoData /\ \E cmd \in {"line", "RNTO"} : Waits(cmd)
  <2>1. PICK cmd \in {"line", "RNTO"} : Waits(cmd)
    BY <1>5
  <2>2. port \in Nat
    BY <1>5 DEF NoData
  <2>3. Answered("5")' \/ Answered("2")'
    BY <2>1, <2>2, ServeWaits
  <2>4. \E c \in Codes : Answered(c)'
    BY <2>3 DEF Codes
  <2> QED
    BY <1>1, <1>2, <1>5, <2>4 DEF FtpStage
<1>6. CASE todo = OfRNFR /\ NoData /\ Waits("RNFR")
  <2>1. port \in Nat
    BY <1>6 DEF NoData
  <2>2. Answered("5")' \/ Answered("3")'
    BY <1>6, <2>1, ServeWaits
  <2>3. \E c \in Codes : Answered(c)'
    BY <2>2 DEF Codes
  <2> QED
    BY <1>1, <1>2, <1>6, <2>3 DEF FtpStage
<1>7. ASSUME NEW cmd \in Commands, NEW copy \in Copies, NEW r \in Rests, Fits(cmd, copy),
             MoveStage(cmd, copy, r)
      PROVE  FtpStage'
  <2>1. "2" \in Codes /\ "5" \in Codes /\ "early" \in {"early", "late"} /\ "late" \in {"early", "late"}
    BY DEF Codes
  <2>2. \/ todo = OfPorted(cmd, copy, r) /\ HasPort /\ Waits("PORT")
        \/ todo = OfAnswer(copy, r) /\ Ready /\ Waits(cmd)
    BY <1>3, <1>4, <1>7, <2>1 DEF MoveStage, AnswerStage
  <2>3. CASE todo = OfPorted(cmd, copy, r) /\ HasPort /\ Waits("PORT")
    <3>1. port \in Nat
      BY <2>3 DEF HasPort
    <3>2. Answered("2")' /\ told' = port
      BY <2>3, <3>1, ServeWaits
    <3>3. MoveStage(cmd, copy, r)'
      BY <1>1, <1>2, <2>3, <3>2 DEF MoveStage
    <3> QED
      BY <1>7, <3>3, ToMove
  <2>4. CASE todo = OfAnswer(copy, r) /\ Ready /\ Waits(cmd)
    <3>1. port \in Nat /\ cmd \notin {"PORT", "line", "RNTO", "RNFR"}
      BY <2>4 DEF Ready, HasPort, Commands
    <3>2. /\ \/ Answered("5")'
             \/ /\ cmd \in {"LIST", "RETR", "STOR"} /\ OneReply("1")' /\ srv' = "connect"
                /\ tosrv' = <<>> /\ dir' = (IF cmd = "STOR" THEN "put" ELSE "get")
          /\ UNCHANGED told
      BY <2>4, <3>1, ServeWaits
    <3>3. CASE Answered("5")'
      <4>1. Ready'
        BY <1>1, <1>2, <2>4, <3>2 DEF Ready
      <4>2. MoveStage(cmd, copy, r)'
        BY <1>1, <2>4, <3>3, <4>1 DEF MoveStage, AnswerStage
      <4> QED
        BY <1>7, <4>2, ToMove
    <3>4. CASE /\ cmd \in {"LIST", "RETR", "STOR"} /\ OneReply("1")' /\ srv' = "connect"
               /\ tosrv' = <<>> /\ dir' = (IF cmd = "STOR" THEN "put" ELSE "get")
      <4>1. cmd # "nameless" /\ (cmd = "STOR" <=> copy = "send")
        BY <1>7, <3>4 DEF Fits
      <4>2. Connects(copy, "early")'
        BY <1>1, <2>4, <3>2, <3>4, <4>1 DEF Connects, Begun, Ready, HasPort
      <4>3. Moving(copy, "early")' /\ Unmet'
        BY <1>1, <2>4, <3>4, <4>2 DEF Moving, Unmet, Ready, HasPort
      <4>4. MoveStage(cmd, copy, r)'
        BY <1>1, <2>4, <4>1, <4>3 DEF MoveStage, AnswerStage
      <4> QED
        BY <1>7, <4>4, ToMove
    <3> QED
      BY <3>2, <3>3, <3>4
  <2> QED
    BY <2>2, <2>3, <2>4
<1>8. \A r \in Rests : ~(todo = OfEnd(r) /\ Still /\ Complete)
  BY <1>3
<1> QED
  BY <1>3, <1>5, <1>6, <1>7, <1>8 DEF FtpStage

\* Where the client is while the server moves a file.
MovedAt(cmd, copy, r, when) ==
  \/ when = "early" /\ todo = OfAnswer(copy, r) /\ cmd # "nameless" /\ Unmet
  \/ when = "late" /\ todo = OfCheck(copy, r) /\ ret = "1" /\ Unmet
  \/ when = "late" /\ todo = OfAccept(copy, r) /\ Unmet
  \/ when = "late" /\ todo = OfCopy(copy, r) /\ conn = "accepted" /\ "client" \notin ended
  \/ when = "late" /\ todo = OfReply(r) /\ Through(copy)

\* Only then is the server not waiting for a command.
LEMMA ServerMoves ==
  ASSUME FtpStage, srv # "command"
  PROVE  \E cmd \in Commands, copy \in Copies, r \in Rests, when \in {"early", "late"} :
           Fits(cmd, copy) /\ Moving(copy, when) /\ MovedAt(cmd, copy, r, when)
<1>1. ~Still /\ (\A c \in Codes : ~Answered(c)) /\ \A cmd : ~Waits(cmd)
  BY DEF Still, Answered, Waits
<1>2. "2" \in Codes /\ "5" \in Codes
  BY DEF Codes
<1>3. PICK cmd \in Commands, copy \in Copies, r \in Rests :
        Fits(cmd, copy) /\ MoveStage(cmd, copy, r)
  BY <1>1 DEF FtpStage
<1>4. \/ Moving(copy, "early") /\ MovedAt(cmd, copy, r, "early")
      \/ Moving(copy, "late") /\ MovedAt(cmd, copy, r, "late")
  BY <1>1, <1>2, <1>3 DEF MoveStage, AnswerStage, MovedAt
<1> QED
  BY <1>3, <1>4

LEMMA MovesOn ==
  ASSUME NEW cmd \in Commands, NEW copy \in Copies, NEW r \in Rests, Fits(cmd, copy),
         NEW when \in {"early", "late"}, Moving(copy, when)', MovedAt(cmd, copy, r, when)'
  PROVE  FtpStage'
<1>1. MoveStage(cmd, copy, r)'
  BY DEF MoveStage, AnswerStage, MovedAt
<1> QED
  BY <1>1, ToMove

\* The server connects.
LEMMA ConnectStage ==
  ASSUME faults' = {}, FtpStage, Connect
  PROVE  FtpStage'
<1>1. srv = "connect"
  BY DEF Connect
<1>2. PICK cmd \in Commands, copy \in Copies, r \in Rests, when \in {"early", "late"} :
        Fits(cmd, copy) /\ Moving(copy, when) /\ MovedAt(cmd, copy, r, when)
  BY <1>1, ServerMoves
<1>3. Connects(copy, when) /\ tosrv = <<>> /\ port \in Nat
  BY <1>1, <1>2 DEF Moving, Transfers, Done
<1>4. /\ conn' = "made" /\ srv' = "transfer"
      /\ UNCHANGED <<tosrv, onway, fetched, todo, asked, first, code, ret, port, ended, inpipe,
                     taken, dir>>
  BY <1>3 DEF Connect, Connects, Goes
<1>5. Pipe' = Pipe
  BY <1>4 DEF Pipe
<1>6. Begun(when)' = Begun(when)
  BY <1>4, <1>5, SameBegun
<1>7. Transfers(copy, when)'
  BY <1>3, <1>4, <1>6 DEF Transfers, Connects
<1>8. Moving(copy, when)'
  BY <1>3, <1>4, <1>7 DEF Moving, Connects
<1>9. MovedAt(cmd, copy, r, when)'
  BY <1>2, <1>3, <1>4 DEF MovedAt, Unmet, Through, Connects
<1> QED
  BY <1>2, <1>8, <1>9, MovesOn

\* The server sends or takes the file.
LEMMA TransferStage ==
  ASSUME RepliesInv, faults = {}, FtpStage, Transfer
  PROVE  FtpStage'
<1>1. srv = "transfer" /\ faults' = faults
  BY DEF Transfer
<1>2. PICK cmd \in Commands, copy \in Copies, r \in Rests, when \in {"early", "late"} :
        Fits(cmd, copy) /\ Moving(copy, when) /\ MovedAt(cmd, copy, r, when)
  BY <1>1, ServerMoves
<1>3. Transfers(copy, when) /\ tosrv = <<>> /\ port \in Nat /\ inpipe \in Nat /\ taken \in Nat
  BY <1>1, <1>2 DEF Moving, Connects, Done
<1>4. UNCHANGED <<tosrv, fetched, o, hungUp, todo, asked, first, code, ret, port, heeds, conn>>
  BY DEF Transfer
<1>5. MovedAt(cmd, copy, r, when)' \/ ("client" \in ended' /\ "client" \notin ended)
  BY <1>2, <1>3, <1>4 DEF MovedAt, Unmet, Through, Transfers, Transfer
<1>6. ASSUME NEW e \in {"2", "4"}, FtpReply(e)
      PROVE  Over(when, e)'
  <2>1. e \in Codes /\ "1" \in Codes
    BY DEF Codes
  <2>2. /\ NoReply => OneReply(e)'
        /\ \A d \in Codes : OneReply(d) => TwoReplies(d, e)'
    BY <1>1, <1>4, <1>6, <2>1, ReplySent
  <2> QED
    BY <1>3, <2>1, <2>2 DEF Over, Begun, Transfers
<1>7. Begun(when)' = Begun(when) \/ onway' # onway
  <2>1. CASE onway' = onway
    <3>1. Pipe' = Pipe
      BY <1>4, <2>1 DEF Pipe
    <3> QED
      BY <1>4, <3>1, SameBegun
  <2> QED
    BY <2>1
<1>8. CASE /\ dir = "get" /\ taken + inpipe < FILESIZE /\ inpipe' = inpipe + 1
           /\ UNCHANGED <<taken, ended, srv, dir, onway>>
  <2>1. Transfers(copy, when)'
    BY <1>3, <1>4, <1>7, <1>8 DEF Transfers
  <2>2. Moving(copy, when)'
    BY <1>3, <1>4, <1>8, <2>1 DEF Moving
  <2> QED
    BY <1>2, <1>5, <1>8, <2>2, MovesOn
<1>9. CASE /\ dir = "put" /\ inpipe > 0 /\ inpipe' = inpipe - 1 /\ taken' = taken + 1
           /\ UNCHANGED <<ended, srv, dir, onway>>
  <2>1. inpipe' \in Nat /\ taken' \in Nat /\ taken' + inpipe' = taken + inpipe
    BY <1>3, <1>9
  <2>2. Transfers(copy, when)'
    BY <1>3, <1>4, <1>7, <1>9, <2>1 DEF Transfers
  <2>3. Moving(copy, when)'
    BY <1>3, <1>4, <2>1, <2>2 DEF Moving
  <2> QED
    BY <1>2, <1>5, <1>9, <2>3, MovesOn
<1>10. ASSUME NEW e \in {"2", "4"}, FtpReply(e), e = "2" => taken + inpipe = FILESIZE,
              copy = "send" => "client" \in ended /\ inpipe = 0,
              srv' = "command", dir' = "none", ended' = ended \cup {"server"},
              UNCHANGED <<taken, inpipe>>
       PROVE  FtpStage'
  <2>1. Over(when, e)'
    BY <1>6, <1>10
  <2>2. Done(copy, when)'
    BY <1>3, <1>4, <1>10, <2>1 DEF Done, Transfers
  <2>3. Moving(copy, when)'
    BY <1>3, <1>4, <1>10, <2>2 DEF Moving
  <2> QED
    BY <1>2, <1>5, <1>10, <2>3, MovesOn
<1>11. CASE /\ IF dir = "get" THEN taken + inpipe = FILESIZE
                             ELSE inpipe = 0 /\ "client" \in ended
            /\ srv' = "command" /\ dir' = "none" /\ FtpReply("2")
            /\ ended' = ended \cup {"server"} /\ UNCHANGED <<taken, inpipe>>
  <2>1. taken + inpipe = FILESIZE /\ (copy = "send" => "client" \in ended /\ inpipe = 0)
    BY <1>3, <1>11 DEF Transfers
  <2> QED
    BY <1>10, <1>11, <2>1
<1>12. CASE dir = "get" /\ Deserted /\ ended' = ended \cup {"server"} /\ UNCHANGED <<taken, inpipe>>
  <2>1. copy # "send"
    BY <1>3, <1>12 DEF Transfers
  <2> QED
    BY <1>10, <1>12, <2>1 DEF Deserted
<1> QED
  BY <1>8, <1>9, <1>11, <1>12 DEF Transfer

\* The program reads the greeting first.
LEMMA FtpStarts == FtpStart => FtpInv
<1> SUFFICES ASSUME FtpStart PROVE FtpInv
  OBVIOUS
<1>1. /\ o \in BOOLEAN /\ tosrv = <<>> /\ srv = "command" /\ onway \in Answers("2", 0)
      /\ fetched = <<>> /\ hungUp = FALSE /\ asked = 0 /\ faults = {}
      /\ first = TRUE /\ port = 0 /\ heeds = FALSE /\ conn = "none" /\ ended = {} /\ inpipe = 0
      /\ dir = "none" /\ todo = <<"get", "end">>
  BY DEF FtpStart, RepliesInit, FtpInit
<1>2. "2" \in Codes /\ 0 \in Int
  BY DEF Codes
<1>3. /\ onway \in Seq(ReplyLines)
      /\ \A i \in 1..Len(onway) : onway[i].part = "whole"
  BY <1>1, <1>2, AnswersType
<1>4. Pipe = onway
  BY <1>1, <1>3, ConcatEmptySeq DEF Pipe
<1>5. RepliesInv
  BY <1>1, <1>3, <1>4 DEF RepliesInv
<1>6. Answered("2")
  <2>1. onway \in Full("2", 0)
    BY <1>1 DEF Answers, Full
  <2> QED
    BY <1>1, <1>4, <2>1 DEF Answered, OneReply, Left
<1>7. todo = OfReply(<<>>)
  BY <1>1, SimpleAre
<1>8. NoData
  BY <1>1 DEF NoData
<1>9. FtpStage
  BY <1>2, <1>6, <1>7, <1>8 DEF FtpStage
<1> QED
  BY <1>5, <1>9 DEF FtpInv

\* What went wrong stays so.
LEMMA FaultsStay ==
  ASSUME FtpNext, faults' = {}
  PROVE  faults = {} /\ ~HangUp
<1>1. ~HangUp
  BY DEF HangUp, Goes
<1>2. ASSUME NEW steps \in Calls, FtpCall(steps)
      PROVE  faults = {}
  BY <1>2 DEF FtpCall
<1>3. ASSUME FtpWork
      PROVE  faults = {}
  <2>1. CASE ftp_send_cmd \/ check
    BY <2>1 DEF ftp_send_cmd, check
  <2>2. CASE Refill
    BY <2>2 DEF Refill, Goes
  <2>3. CASE ftp_get_response
    BY <2>3 DEF ftp_get_response
  <2>4. CASE ftpdata_step
    BY <2>4 DEF ftpdata_step
  <2>5. CASE sys_read \/ sys_write
    BY <2>5 DEF sys_read, sys_write, revars
  <2> QED
    BY <1>3, <2>1, <2>2, <2>3, <2>4, <2>5 DEF FtpWork
<1>4. ASSUME FtpServers
      PROVE  faults = {}
  <2>1. CASE FtpServe
    BY <2>1 DEF FtpServe, Goes
  <2>2. CASE Connect
    BY <2>2 DEF Connect, Goes
  <2>3. CASE Transfer
    BY <2>3 DEF Transfer
  <2> QED
    BY <1>4, <2>1, <2>2, <2>3 DEF FtpServers
<1> QED
  BY <1>1, <1>2, <1>3, <1>4 DEF FtpNext

\* Every step of the ftp client and of its server keeps the stage.
LEMMA FtpSteps ==
  FtpInv /\ [FtpNext /\ UNCHANGED client]_<<client, revars, ftpvars>> => FtpInv'
<1>1. ASSUME FtpInv, FtpNext
      PROVE  FtpInv'
  <2>1. RepliesInv /\ RepliesInv'
    BY <1>1, RepliesStep DEF FtpInv
  <2>2. ASSUME faults' = {}
        PROVE  FtpStage'
    <3>1. faults = {} /\ FtpStage /\ ~HangUp
      BY <1>1, <2>2, FaultsStay DEF FtpInv
    <3>2. CASE \E steps \in Calls : FtpCall(steps)
      BY <3>1, <3>2, CallStage
    <3>3. CASE ftp_send_cmd
      BY <3>1, <3>3, SendStage
    <3>4. CASE Refill /\ UNCHANGED ftpvars
      <4>1. Pipe' = Pipe
        BY <2>1, <2>2, <3>4, PipeRefill
      <4> QED
        BY <3>1, <3>4, <4>1, SameStage DEF Refill
    <3>5. CASE ftp_get_response
      BY <2>1, <3>1, <3>5, GetStage
    <3>6. CASE check
      BY <3>1, <3>6, CheckKeeps
    <3>7. CASE ftpdata_step
      BY <3>1, <3>7, DataStage
    <3>8. CASE sys_read \/ sys_write
      BY <3>1, <3>8, CopyStage
    <3>9. CASE FtpServe
      BY <2>1, <2>2, <3>1, <3>9, ServeStage
    <3>10. CASE Connect
      BY <2>2, <3>1, <3>10, ConnectStage
    <3>11. CASE Transfer
      BY <2>1, <3>1, <3>11, TransferStage
    <3> QED
      BY <1>1, <3>1, <3>2, <3>3, <3>4, <3>5, <3>6, <3>7, <3>8, <3>9, <3>10, <3>11
      DEF FtpNext, FtpWork, FtpServers
  <2> QED
    BY <2>1, <2>2 DEF FtpInv
<1>2. ASSUME FtpInv, UNCHANGED <<client, revars, ftpvars>>
      PROVE  FtpInv'
  <2>1. UNCHANGED <<o, tosrv, srv, onway, fetched, hungUp, todo, asked, heard, faults>>
    BY <1>2 DEF revars
  <2>2. Pipe' = Pipe
    BY <2>1 DEF Pipe
  <2>3. RepliesInv'
    BY <1>2, <2>1, SameReplies DEF FtpInv, RepliesInv
  <2>4. faults' = {} => FtpStage'
    BY <1>2, <2>1, <2>2, SameStage DEF FtpInv
  <2> QED
    BY <2>3, <2>4 DEF FtpInv
<1> QED
  BY <1>1, <1>2

\* When a call of the ftp client has returned and nothing went wrong outside it,
\* every line of every reply has been read, the last answers the last command sent,
\* and neither side has a data connection.
THEOREM FtpStaysInStep == FtpSpec => []FtpInStep
<1>1. FtpInv => FtpInStep
  <2> SUFFICES ASSUME FtpInv, Idle, faults = {}
               PROVE  Caught /\ conn = "none" /\ srv = "command"
    BY DEF FtpInStep
  <2>1. RepliesInv /\ Still /\ NoData
    BY StageIs DEF FtpInv, Idle
  <2>2. fetched \in Seq(ReplyLines) /\ onway \in Seq(ReplyLines) /\ Pipe = <<>> /\ heard = asked
    BY <2>1 DEF RepliesInv, Still, NoReply
  <2>3. fetched = <<>> /\ onway = <<>>
    BY <2>2, ConcatEqualIffEmpty DEF Pipe
  <2> QED
    BY <2>1, <2>2, <2>3 DEF Caught, Still, NoData
<1> QED
  BY <1>1, FtpStarts, FtpSteps, PTL DEF FtpSpec

\* When the program is about to learn that a file has been moved, in either
\* direction, all of it has been, and nothing of it is left in the connection.
THEOREM FilesAreWhole == FtpSpec => []FileWhole
<1>1. FtpInv => FileWhole
  <2> SUFFICES ASSUME FtpInv, At("end"), conn = "accepted", faults = {}, ret = "2"
               PROVE  inpipe = 0 /\ taken = FILESIZE
    BY DEF FileWhole
  <2>1. FtpStage /\ todo # <<>> /\ Head(todo) = "end"
    BY DEF FtpInv, At
  <2>2. ASSUME NEW cmd \in Commands, NEW copy \in Copies, NEW r \in Rests, MoveNext(cmd, copy, r)
        PROVE  FALSE
    BY <2>1, <2>2 DEF MoveNext, Commands, Copies
  <2>3. Complete
    BY <2>1, <2>2, StageIs
  <2> QED
    BY <2>3 DEF Complete
<1> QED
  BY <1>1, FtpStarts, FtpSteps, PTL DEF FtpSpec
=============================================================================
