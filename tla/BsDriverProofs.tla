--------------------------- MODULE BsDriverProofs ---------------------------
(***************************************************************************)
(* Proofs about driver/bs.c for every number of files and processes, every *)
(* card size, every base address and every sequence of loads.              *)
(***************************************************************************)
EXTENDS BsDriver, FiniteSetTheorems, TLAPS

Sole(f) == \A p, q \in Users[f] : p = q

\* A loaded driver has the addresses of some insmod line.
LoadedBase ==
  loaded => /\ memaddr \in {MemBase(mem) : mem \in MemParams}
            /\ ioaddr \in Ports

\* A file starts at the base of the card and only moves up.
PosAboveBase == \A f \in open : memaddr <= f_pos[f]

\* What a sleeping call remembers: its process holds the file, and if no other
\* process does, the position has not moved since the call looked at it.
CallsRemember ==
  \A p \in Procs : Busy(p) =>
    /\ p \in Users[call[p].f]
    /\ Sole(call[p].f) => f_pos[call[p].f] = call[p].at

\* The inductive invariant.
DriverInv ==
  /\ TypeOK
  /\ UseCountMatches
  /\ LoadedBase
  /\ PosAboveBase
  /\ TransfersConfined
  /\ CallsRemember
  /\ PosInWindow

----------------------------------------------------------------------------
(* Cutting a transfer down to the window leaves a count that ends in it.   *)
LEMMA ClampedFits ==
  ASSUME NEW pos \in Nat, NEW count \in Nat, memaddr \in Nat, pos < End
  PROVE  Clamped(pos, count) \in Nat /\ pos + Clamped(pos, count) <= End
BY CardAssumption DEF Clamped, End

LEMMA BasesAreAddresses == \A mem \in MemParams : MemBase(mem) \in Nat
BY CardAssumption DEF MemBase

LEMMA WindowIsNat ==
  ASSUME TypeOK
  PROVE  memaddr \in Nat /\ End \in Nat /\ memaddr <= End
<1>1. memaddr \in Nat
  BY BasesAreAddresses DEF TypeOK
<1>2. QED
  BY <1>1, CardAssumption DEF End

LEMMA InitInv == Init => DriverInv
<1> SUFFICES ASSUME Init PROVE DriverInv
  OBVIOUS
<1>1. TypeOK
  <2>1. f_pos \in [Files -> Nat] /\ call \in [Procs -> {Idle} \cup Transfers]
    BY DEF Init
  <2>2. ram \in [Addrs -> Values] /\ port \in [Ports -> SUBSET (0..7)]
    BY DEF Init
  <2>3. useCount \in Int
    BY DEF Init
  <2>4. QED
    BY <2>1, <2>2, <2>3, Zenon DEF Init, TypeOK
<1>2. UseCountMatches
  BY FS_EmptySet DEF Init, UseCountMatches
<1>3. LoadedBase /\ PosAboveBase /\ PosInWindow
  BY DEF Init, LoadedBase, PosAboveBase, PosInWindow
<1>4. TransfersConfined /\ CallsRemember
  BY DEF Init, TransfersConfined, CallsRemember, Busy
<1>5. QED
  BY <1>1, <1>2, <1>3, <1>4 DEF DriverInv

----------------------------------------------------------------------------
(* Type correctness is inductive on its own, given that a call that sleeps *)
(* has a count.                                                            *)
LEMMA TypeStep == TypeOK /\ [Next]_vars => TypeOK'
<1> SUFFICES ASSUME TypeOK, [Next]_vars PROVE TypeOK'
  OBVIOUS
<1> USE DEF TypeOK
<1>1. ASSUME NEW mem \in MemParams, NEW io \in IoParams, init_module(mem, io)
      PROVE  TypeOK'
  BY <1>1 DEF init_module, Ports
<1>2. CASE cleanup_module
  BY <1>2 DEF cleanup_module
<1>3. ASSUME NEW f \in Files, NEW minor \in Minors, bs_open(f, minor)
      PROVE  TypeOK'
  <2>1. memaddr \in Nat
    BY BasesAreAddresses
  <2>2. QED
    BY <1>3, <2>1 DEF bs_open
<1>4. ASSUME NEW f \in Files, bs_release(f)
      PROVE  TypeOK'
  BY <1>4 DEF bs_release
<1>5. ASSUME NEW p \in Procs, NEW f \in Files, SysCall(p, f)
      PROVE  TypeOK'
  <2>0. memaddr \in Nat /\ f_pos[f] \in Nat
    BY BasesAreAddresses
  <2>1. ASSUME NEW offset \in Offsets, bs_lseek_set(p, f, offset)
        PROVE  TypeOK'
    BY <2>0, <2>1, ClientAssumption DEF bs_lseek_set
  <2>2. ASSUME NEW offset \in Offsets, bs_lseek_cur(p, f, offset)
        PROVE  TypeOK'
    BY <2>0, <2>2, ClientAssumption DEF bs_lseek_cur
  <2>3. ASSUME NEW op \in {"read", "write"}, NEW count \in Counts, NEW byte \in Values,
               BeginTransfer(p, f, op, count, byte)
        PROVE  TypeOK'
    <3>1. Transfer(op, f, count, byte) \in Transfers
      <4>1. Clamped(f_pos[f], count) \in Nat
        BY <2>0, <2>3, ClampedFits, ClientAssumption DEF BeginTransfer
      <4>2. QED
        BY <2>0, <4>1 DEF Transfer, Transfers
    <3>2. QED
      BY <2>3, <3>1 DEF BeginTransfer
  <2>4. ASSUME NEW newval \in Bytes, bs_ioctl(p, f, newval)
        PROVE  TypeOK'
    <3>1. newval \cap BankBits \in SUBSET BankBits /\ BankBits \subseteq 0..7
      BY DEF BankBits
    <3>2. QED
      BY <2>4, <3>1 DEF bs_ioctl
  <2>5. (CHOOSE byte \in Values : TRUE) \in Values
    BY CardAssumption
  <2>6. QED
    BY <1>5, <2>1, <2>2, <2>3, <2>4, <2>5 DEF SysCall, bs_read, bs_write
<1>6. ASSUME NEW p \in Procs, bs_read_copied(p) \/ copy_from_user(p) \/ bs_write_copied(p)
      PROVE  TypeOK'
  <2>1. call[p] \in Transfers
    BY <1>6 DEF bs_read_copied, copy_from_user, bs_write_copied, Busy
  <2>2. CASE bs_read_copied(p)
    BY <2>1, <2>2 DEF bs_read_copied, Transfers
  <2>3. CASE copy_from_user(p)
    <3>1. [call[p] EXCEPT !.done = @ + 1] \in Transfers /\ call[p].byte \in Values
      BY <2>1 DEF Transfers
    <3>2. QED
      BY <2>3, <3>1 DEF copy_from_user
  <2>4. CASE bs_write_copied(p)
    BY <2>4 DEF bs_write_copied
  <2>5. QED
    BY <1>6, <2>2, <2>3, <2>4
<1>7. ASSUME NEW a \in Ports, NEW value \in Bytes, wp(a, value)
      PROVE  TypeOK'
  BY <1>7, ClientAssumption DEF wp
<1>8. CASE UNCHANGED vars
  BY <1>8 DEF vars
<1>9. QED
  BY <1>1, <1>2, <1>3, <1>4, <1>5, <1>6, <1>7, <1>8 DEF Next

\* Every value of the driver's variables has its type, for every card.
THEOREM TypeCorrect == Spec => []TypeOK
<1>1. Init => TypeOK
  BY InitInv DEF DriverInv
<1>2. QED
  BY <1>1, TypeStep, PTL DEF Spec

----------------------------------------------------------------------------
(* The steps of DriverInv, one lemma per action that changes what it says. *)

\* What is known of a process inside a transfer.
LEMMA BusyFacts ==
  ASSUME DriverInv, NEW p \in Procs, Busy(p)
  PROVE  /\ call[p] \in Transfers
         /\ call[p].f \in open /\ p \in Users[call[p].f]
         /\ call[p].at \in Nat /\ call[p].count \in Nat
         /\ memaddr <= call[p].at /\ call[p].at + call[p].count <= End
BY DEF DriverInv, TypeOK, TransfersConfined, CallsRemember, Busy, Transfers

LEMMA NoFileNoCall ==
  ASSUME DriverInv, open = {}
  PROVE  \A p \in Procs : ~Busy(p)
BY DEF DriverInv, TransfersConfined

LEMMA LoadStep ==
  ASSUME DriverInv, TypeOK', NEW mem \in MemParams, NEW io \in IoParams,
         init_module(mem, io)
  PROVE  DriverInv'
<1>1. open = {} /\ \A p \in Procs : ~Busy(p)
  BY NoFileNoCall DEF DriverInv, UseCountMatches, init_module
<1>2. UseCountMatches' /\ PosAboveBase' /\ PosInWindow'
  BY <1>1 DEF DriverInv, init_module, UseCountMatches, PosAboveBase, PosInWindow
<1>3. LoadedBase'
  BY DEF init_module, LoadedBase, Ports
<1>4. TransfersConfined' /\ CallsRemember'
  BY <1>1 DEF init_module, TransfersConfined, CallsRemember, Busy
<1>5. QED
  BY <1>2, <1>3, <1>4 DEF DriverInv

LEMMA UnloadStep ==
  ASSUME DriverInv, TypeOK', cleanup_module
  PROVE  DriverInv'
<1>1. open = {}
  <2>1. IsFiniteSet(open)
    BY FilesAssumption, FS_Subset DEF DriverInv, TypeOK
  <2>2. QED
    BY <2>1, FS_EmptySet DEF DriverInv, UseCountMatches, cleanup_module
<1>2. \A p \in Procs : ~Busy(p)
  BY <1>1, NoFileNoCall
<1>3. UseCountMatches' /\ PosAboveBase' /\ PosInWindow' /\ LoadedBase'
  BY <1>1 DEF DriverInv, cleanup_module, UseCountMatches, PosAboveBase, PosInWindow, LoadedBase
<1>4. TransfersConfined' /\ CallsRemember'
  BY <1>2 DEF cleanup_module, TransfersConfined, CallsRemember, Busy
<1>5. QED
  BY <1>3, <1>4 DEF DriverInv

LEMMA OpenStep ==
  ASSUME DriverInv, TypeOK', NEW f \in Files, NEW minor \in Minors, bs_open(f, minor)
  PROVE  DriverInv'
<1>1. memaddr \in Nat /\ End \in Nat /\ memaddr <= End
  BY WindowIsNat DEF DriverInv
<1>2. UseCountMatches'
  <2>1. IsFiniteSet(open)
    BY FilesAssumption, FS_Subset DEF DriverInv, TypeOK
  <2>2. Cardinality(open \cup {f}) = Cardinality(open) + 1
    BY <2>1, FS_AddElement DEF bs_open
  <2>3. QED
    BY <2>2 DEF DriverInv, UseCountMatches, bs_open
<1>3. f_pos' = [f_pos EXCEPT ![f] = memaddr] /\ f_pos \in [Files -> Nat] /\ open' = open \cup {f}
  BY DEF DriverInv, TypeOK, bs_open
<1>4. PosAboveBase' /\ PosInWindow'
  BY <1>1, <1>3 DEF DriverInv, TypeOK, bs_open, PosAboveBase, PosInWindow, End
<1>5. LoadedBase'
  BY DEF DriverInv, bs_open, LoadedBase
<1>6. TransfersConfined'
  BY DEF DriverInv, bs_open, TransfersConfined, Busy, End
<1>7. CallsRemember'
  <2> SUFFICES ASSUME NEW p \in Procs, Busy(p)
               PROVE  /\ p \in Users[call[p].f]
                      /\ Sole(call[p].f) => f_pos'[call[p].f] = call[p].at
    BY DEF CallsRemember, Busy, bs_open
  <2>1. call[p].f \in open /\ call[p].f # f
    BY BusyFacts DEF bs_open
  <2>2. QED
    BY <2>1, <1>3 DEF DriverInv, CallsRemember, TypeOK
<1>8. QED
  BY <1>2, <1>4, <1>5, <1>6, <1>7 DEF DriverInv

LEMMA ReleaseStep ==
  ASSUME DriverInv, TypeOK', NEW f \in Files, bs_release(f)
  PROVE  DriverInv'
<1>1. UseCountMatches'
  <2>1. IsFiniteSet(open)
    BY FilesAssumption, FS_Subset DEF DriverInv, TypeOK
  <2>2. Cardinality(open \ {f}) = Cardinality(open) - 1
    BY <2>1, FS_RemoveElement DEF bs_release
  <2>3. QED
    BY <2>2 DEF DriverInv, UseCountMatches, bs_release
<1>2. PosAboveBase' /\ PosInWindow' /\ LoadedBase' /\ CallsRemember'
  BY DEF DriverInv, bs_release, PosAboveBase, PosInWindow, LoadedBase, CallsRemember, Busy, End
<1>3. TransfersConfined'
  BY DEF DriverInv, bs_release, TransfersConfined, Busy, End
<1>4. QED
  BY <1>1, <1>2, <1>3 DEF DriverInv

\* The two seeks: f is held by an idle process, so if it is private no call on
\* it is asleep.
LEMMA SeekStep ==
  ASSUME DriverInv, TypeOK', NEW p \in Procs, NEW f \in Files, NEW pos \in Nat,
         Calls(p, f), memaddr <= pos, pos <= End,
         f_pos' = [f_pos EXCEPT ![f] = pos],
         UNCHANGED <<loaded, ioaddr, memaddr, useCount, open, call, ram, port, asked>>
  PROVE  DriverInv'
<1>1. f_pos \in [Files -> Nat] /\ open \subseteq Files
  BY DEF DriverInv, TypeOK
<1>2. UseCountMatches' /\ LoadedBase'
  BY DEF DriverInv, UseCountMatches, LoadedBase
<1>3. TransfersConfined'
  BY DEF DriverInv, TransfersConfined, Busy, End
<1>4. PosAboveBase' /\ PosInWindow'
  <2>1. memaddr \in Nat /\ End \in Nat /\ End' = End
    BY WindowIsNat DEF DriverInv, End
  <2>2. QED
    BY <1>1, <2>1 DEF DriverInv, PosAboveBase, PosInWindow
<1>5. CallsRemember'
  <2> SUFFICES ASSUME NEW q \in Procs, Busy(q)
               PROVE  /\ q \in Users[call[q].f]
                      /\ Sole(call[q].f) => f_pos'[call[q].f] = call[q].at
    BY DEF CallsRemember, Busy
  <2>1. q \in Users[call[q].f] /\ call[q].f \in Files
    BY <1>1, BusyFacts
  <2>2. CASE call[q].f = f
    BY <2>1, <2>2 DEF Calls, Sole
  <2>3. CASE call[q].f # f
    BY <1>1, <2>1, <2>3 DEF DriverInv, CallsRemember
  <2>4. QED
    BY <2>2, <2>3
<1>6. QED
  BY <1>2, <1>3, <1>4, <1>5 DEF DriverInv

LEMMA BeginStep ==
  ASSUME DriverInv, TypeOK', NEW p \in Procs, NEW f \in Files,
         NEW op \in {"read", "write"}, NEW count \in Counts, NEW byte \in Values,
         BeginTransfer(p, f, op, count, byte)
  PROVE  DriverInv'
<1> DEFINE new == Transfer(op, f, count, byte)
<1>1. call' = [call EXCEPT ![p] = new] /\ call \in [Procs -> {Idle} \cup Transfers]
  BY DEF BeginTransfer, DriverInv, TypeOK
<1>2. /\ f \in open /\ p \in Users[f] /\ loaded
      /\ f_pos[f] \in Nat /\ memaddr <= f_pos[f] /\ f_pos[f] < End
  BY DEF DriverInv, TypeOK, UseCountMatches, PosAboveBase, BeginTransfer, Calls
<1>3. f_pos[f] + Clamped(f_pos[f], count) <= End
  BY <1>2, ClampedFits, WindowIsNat, ClientAssumption DEF DriverInv
<1>4. new.f = f /\ new.at = f_pos[f] /\ new.count = Clamped(f_pos[f], count)
  BY DEF Transfer
<1>5. UseCountMatches' /\ LoadedBase' /\ PosAboveBase' /\ PosInWindow'
  BY DEF DriverInv, BeginTransfer, UseCountMatches, LoadedBase, PosAboveBase, PosInWindow, End
<1>6. TransfersConfined'
  <2> SUFFICES ASSUME NEW q \in Procs, Busy(q)'
               PROVE  /\ loaded /\ call'[q].f \in open
                      /\ memaddr <= call'[q].at
                      /\ call'[q].at + call'[q].count <= End
    BY DEF TransfersConfined, BeginTransfer, End
  <2>1. CASE q = p
    BY <2>1, <1>1, <1>2, <1>3, <1>4
  <2>2. CASE q # p
    BY <2>2, <1>1 DEF DriverInv, TransfersConfined, Busy
  <2>3. QED
    BY <2>1, <2>2
<1>7. CallsRemember'
  <2> SUFFICES ASSUME NEW q \in Procs, Busy(q)'
               PROVE  /\ q \in Users[call'[q].f]
                      /\ Sole(call'[q].f) => f_pos[call'[q].f] = call'[q].at
    BY DEF CallsRemember, BeginTransfer
  <2>1. CASE q = p
    BY <2>1, <1>1, <1>2, <1>4
  <2>2. CASE q # p
    BY <2>2, <1>1 DEF DriverInv, CallsRemember, Busy
  <2>3. QED
    BY <2>1, <2>2
<1>8. QED
  BY <1>5, <1>6, <1>7 DEF DriverInv

\* The read that moves a private file's position had looked at that position.
LEMMA ReadStep ==
  ASSUME DriverInv, TypeOK', NEW p \in Procs, bs_read_copied(p)
  PROVE  DriverInv'
<1> DEFINE f == call[p].f
<1>1. /\ call[p] \in Transfers /\ f \in open /\ p \in Users[f]
      /\ call[p].at \in Nat /\ call[p].count \in Nat
      /\ memaddr <= call[p].at /\ call[p].at + call[p].count <= End
  BY BusyFacts DEF bs_read_copied
<1>2. f_pos \in [Files -> Nat] /\ open \subseteq Files /\ call \in [Procs -> {Idle} \cup Transfers]
  BY DEF DriverInv, TypeOK
<1>3. f_pos' = [f_pos EXCEPT ![f] = @ + call[p].count] /\ call' = [call EXCEPT ![p] = Idle]
  BY DEF bs_read_copied
<1>4. memaddr \in Nat /\ End \in Nat /\ memaddr' = memaddr /\ End' = End /\ open' = open
  BY WindowIsNat DEF DriverInv, bs_read_copied, End
<1>5. UseCountMatches' /\ LoadedBase'
  BY DEF DriverInv, bs_read_copied, UseCountMatches, LoadedBase
<1>6. PosAboveBase'
  BY <1>1, <1>2, <1>3, <1>4 DEF DriverInv, PosAboveBase
<1>7. PosInWindow'
  <2> SUFFICES ASSUME NEW g \in open, Sole(g)
               PROVE  f_pos'[g] \in memaddr..End
    BY <1>4 DEF PosInWindow, Sole
  <2>1. CASE g = f
    <3>1. f_pos[f] = call[p].at
      BY <2>1 DEF DriverInv, CallsRemember, bs_read_copied
    <3>2. f_pos'[f] = call[p].at + call[p].count
      BY <1>1, <1>2, <1>3, <3>1
    <3>3. QED
      BY <2>1, <3>2, <1>1, <1>4
  <2>2. CASE g # f
    BY <2>2, <1>2, <1>3 DEF DriverInv, PosInWindow, Sole
  <2>3. QED
    BY <2>1, <2>2
<1>8. TransfersConfined'
  BY <1>2, <1>3, <1>4 DEF DriverInv, TransfersConfined, Busy, bs_read_copied
<1>9. CallsRemember'
  <2> SUFFICES ASSUME NEW q \in Procs, Busy(q)'
               PROVE  /\ q \in Users[call'[q].f]
                      /\ Sole(call'[q].f) => f_pos'[call'[q].f] = call'[q].at
    BY DEF CallsRemember
  <2>1. q # p /\ call'[q] = call[q] /\ Busy(q)
    BY <1>2, <1>3 DEF Busy
  <2>2. q \in Users[call[q].f] /\ call[q].f \in Files
    BY <2>1, <1>2, BusyFacts
  <2>3. Sole(call[q].f) => call[q].f # f
    BY <1>1, <2>1, <2>2 DEF Sole
  <2>4. QED
    BY <2>1, <2>2, <2>3, <1>2, <1>3 DEF DriverInv, CallsRemember
<1>10. QED
  BY <1>5, <1>6, <1>7, <1>8, <1>9 DEF DriverInv

\* A step of copy_from_user, or its end, leaves the other calls alone and its
\* own call where it was.
LEMMA WriteStep ==
  ASSUME DriverInv, TypeOK', NEW p \in Procs, copy_from_user(p) \/ bs_write_copied(p)
  PROVE  DriverInv'
<1>1. UNCHANGED <<loaded, ioaddr, memaddr, useCount, open, f_pos>>
  BY DEF copy_from_user, bs_write_copied
<1>2. UseCountMatches' /\ LoadedBase' /\ PosAboveBase' /\ PosInWindow'
  BY <1>1 DEF DriverInv, UseCountMatches, LoadedBase, PosAboveBase, PosInWindow, End
<1>3. call[p] \in Transfers /\ call \in [Procs -> {Idle} \cup Transfers]
  BY BusyFacts DEF DriverInv, TypeOK, copy_from_user, bs_write_copied
<1>4. ASSUME NEW q \in Procs, Busy(q)'
      PROVE  /\ Busy(q)
             /\ call'[q].f = call[q].f /\ call'[q].at = call[q].at
             /\ call'[q].count = call[q].count
  <2>1. CASE q = p
    BY <1>3, <1>4, <2>1 DEF copy_from_user, bs_write_copied, Busy, Transfers
  <2>2. CASE q # p
    BY <1>3, <1>4, <2>2 DEF copy_from_user, bs_write_copied, Busy
  <2>3. QED
    BY <2>1, <2>2
<1>5. TransfersConfined' /\ CallsRemember'
  BY <1>1, <1>4 DEF DriverInv, TransfersConfined, CallsRemember, End
<1>6. QED
  BY <1>2, <1>5 DEF DriverInv

LEMMA PortStep ==
  ASSUME DriverInv, TypeOK',
         UNCHANGED <<loaded, ioaddr, memaddr, useCount, open, f_pos, call>>
  PROVE  DriverInv'
BY DEF DriverInv, UseCountMatches, LoadedBase, PosAboveBase, PosInWindow,
       TransfersConfined, CallsRemember, Busy, End

----------------------------------------------------------------------------
LEMMA DriverStep == DriverInv /\ [Next]_vars => DriverInv'
<1> SUFFICES ASSUME DriverInv, [Next]_vars PROVE DriverInv'
  OBVIOUS
<1>0. TypeOK'
  BY TypeStep DEF DriverInv
<1>1. ASSUME NEW mem \in MemParams, NEW io \in IoParams, init_module(mem, io)
      PROVE  DriverInv'
  BY <1>0, <1>1, LoadStep
<1>2. CASE cleanup_module
  BY <1>0, <1>2, UnloadStep
<1>3. ASSUME NEW f \in Files, NEW minor \in Minors, bs_open(f, minor)
      PROVE  DriverInv'
  BY <1>0, <1>3, OpenStep
<1>4. ASSUME NEW f \in Files, bs_release(f)
      PROVE  DriverInv'
  BY <1>0, <1>4, ReleaseStep
<1>5. ASSUME NEW p \in Procs, NEW f \in Files, SysCall(p, f)
      PROVE  DriverInv'
  <2>0. /\ memaddr \in Nat /\ End \in Nat /\ f_pos[f] \in Nat
        /\ f \in open => memaddr <= f_pos[f]
    BY WindowIsNat DEF DriverInv, TypeOK, PosAboveBase
  <2>1. ASSUME NEW offset \in Offsets, bs_lseek_set(p, f, offset)
        PROVE  DriverInv'
    <3>1. offset + memaddr \in Nat /\ memaddr <= offset + memaddr /\ offset + memaddr <= End
      BY <2>0, <2>1, ClientAssumption, CardAssumption DEF bs_lseek_set, End
    <3>2. QED
      BY <1>0, <2>1, <3>1, SeekStep DEF bs_lseek_set
  <2>2. ASSUME NEW offset \in Offsets, bs_lseek_cur(p, f, offset)
        PROVE  DriverInv'
    <3>1. /\ f_pos[f] + offset \in Nat
          /\ memaddr <= f_pos[f] + offset /\ f_pos[f] + offset <= End
      BY <2>0, <2>2, ClientAssumption DEF bs_lseek_cur, Calls
    <3>2. f_pos' = [f_pos EXCEPT ![f] = f_pos[f] + offset]
      BY <2>2 DEF bs_lseek_cur
    <3>3. QED
      BY <1>0, <2>2, <3>1, <3>2, SeekStep DEF bs_lseek_cur
  <2>3. ASSUME NEW count \in Counts, bs_read(p, f, count)
        PROVE  DriverInv'
    <3>1. (CHOOSE byte \in Values : TRUE) \in Values
      BY CardAssumption
    <3>2. QED
      BY <1>0, <2>3, <3>1, BeginStep DEF bs_read
  <2>4. ASSUME NEW count \in Counts, NEW byte \in Values, bs_write(p, f, count, byte)
        PROVE  DriverInv'
    BY <1>0, <2>4, BeginStep DEF bs_write
  <2>5. ASSUME NEW newval \in Bytes, bs_ioctl(p, f, newval)
        PROVE  DriverInv'
    BY <1>0, <2>5, PortStep DEF bs_ioctl
  <2>6. QED
    BY <1>5, <2>1, <2>2, <2>3, <2>4, <2>5 DEF SysCall
<1>6. ASSUME NEW p \in Procs, bs_read_copied(p) \/ copy_from_user(p) \/ bs_write_copied(p)
      PROVE  DriverInv'
  BY <1>0, <1>6, ReadStep, WriteStep
<1>7. ASSUME NEW a \in Ports, NEW value \in Bytes, wp(a, value)
      PROVE  DriverInv'
  BY <1>0, <1>7, PortStep DEF wp
<1>8. CASE UNCHANGED vars
  BY <1>0, <1>8, PortStep DEF vars
<1>9. QED
  BY <1>1, <1>2, <1>3, <1>4, <1>5, <1>6, <1>7, <1>8 DEF Next

LEMMA DriverInvariant == Spec => []DriverInv
BY InitInv, DriverStep, PTL DEF Spec

\* The use count is the number of open files, so rmmod never takes the driver
\* away from one.
THEOREM UseCountCorrect == Spec => []UseCountMatches
<1>1. DriverInv => UseCountMatches
  BY DEF DriverInv
<1>2. QED
  BY <1>1, DriverInvariant, PTL

\* A transfer that sleeps in its copy still lies inside the card when it wakes.
THEOREM TransfersStayConfined == Spec => []TransfersConfined
<1>1. DriverInv => TransfersConfined
  BY DEF DriverInv
<1>2. QED
  BY <1>1, DriverInvariant, PTL

\* A file with one user never has its position outside the card.
THEOREM PositionStaysInWindow == Spec => []PosInWindow
<1>1. DriverInv => PosInWindow
  BY DEF DriverInv
<1>2. QED
  BY <1>1, DriverInvariant, PTL

\* The driver writes no memory but the card's.
THEOREM WritesStayInWindow == Spec => OnlyWindowWritten
<1>1. ASSUME DriverInv, [Next]_vars, NEW a \in Addrs, ram'[a] # ram[a]
      PROVE  a \in memaddr..(End - 1)
  <2>1. PICK p \in Procs : copy_from_user(p)
    BY <1>1 DEF Next, vars, init_module, cleanup_module, bs_open, bs_release, SysCall,
       bs_lseek_set, bs_lseek_cur, bs_read, bs_write, BeginTransfer, bs_ioctl,
       bs_read_copied, bs_write_copied, wp
  <2>2. /\ call[p].at \in Nat /\ call[p].count \in Nat /\ call[p].done \in Nat
        /\ call[p].done < call[p].count
        /\ memaddr <= call[p].at /\ call[p].at + call[p].count <= End
    BY <1>1, <2>1, BusyFacts DEF copy_from_user, Transfers
  <2>3. a = call[p].at + call[p].done
    BY <1>1, <2>1 DEF copy_from_user, DriverInv, TypeOK
  <2>4. QED
    BY <1>1, <2>2, <2>3, WindowIsNat DEF DriverInv
<1>2. DriverInv /\ [Next]_vars
        => [\A a \in Addrs : ram'[a] # ram[a] => a \in memaddr..(End - 1)]_vars
  BY <1>1
<1>3. QED
  BY <1>2, DriverInvariant, PTL DEF Spec, OnlyWindowWritten

=============================================================================
