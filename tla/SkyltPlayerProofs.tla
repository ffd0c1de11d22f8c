------------------------- MODULE SkyltPlayerProofs -------------------------
(***************************************************************************)
(* Proofs about the player of skyltsrv/SkyltController.cc, for every set   *)
(* of programmes, every frame size and number of banks, and children that  *)
(* are killed anywhere; and about fork.C of socket++, by which a process   *)
(* starts and ends its children, for any number of them.                   *)
(***************************************************************************)
EXTENDS SkyltPlayer, Fork, SequenceTheorems, FiniteSetTheorems, TLAPS

\* The bank a program draws in is a bank, and not the one it comes after.
LEMMA NextBankDiffers ==
  ASSUME NEW d \in Banks
  PROVE  NextBank(d) \in Banks /\ NextBank(d) # d
<1> USE BankAssumption DEF Banks
<1>1. CASE d + 1 = NBanks
  BY <1>1, SMTT(20) DEF NextBank
<1>2. CASE d + 1 < NBanks
  BY <1>2, SMTT(20) DEF NextBank
<1> QED
  BY <1>1, <1>2

\* The variable bank of Run is the bank on display, or the next one while that
\* is being drawn.
BankInv ==
  /\ pc \in {"setmode1", "read", "mode", "sleep"} => cur = bank
  /\ pc \in {"copy", "setbank"} => cur = NextBank(bank)

\* What has been drawn of the frame in the buffer.
CopyInv ==
  /\ pc = "copy" => \A c \in 0..(copied - 1) : ram[cur][c] = buffer
  /\ pc = "setbank" => ram[cur] = [c \in Cells |-> buffer]

PlayerInv == TypeOK /\ BankInv /\ CopyInv /\ ScreenIsLastFrame

----------------------------------------------------------------------------
\* The state in which the player starts is typed.
LEMMA InitType == Init => TypeOK
<1> SUFFICES ASSUME Init PROVE TypeOK
  OBVIOUS
<1>1. m_inp.cmds \in Seq(Frames \cup Commands)
  BY PlayerAssumption DEF Init
<1>2. 1 \in 1..(Len(m_inp.cmds) + 1)
  BY <1>1
<1>3. 1 \in Banks /\ 0 \in 0..Size
  BY BankAssumption, PlayerAssumption DEF Banks
<1>4. QED
  BY <1>2, <1>3 DEF Init, TypeOK

\* A command of the programme, and the position behind it.
LEMMA CommandFacts ==
  ASSUME TypeOK, ~AtEnd
  PROVE  Command \in Frames \cup Commands /\ pos + 1 \in 1..(Len(m_inp.cmds) + 1)
<1>1. m_inp.cmds \in Seq(Frames \cup Commands)
  BY PlayerAssumption DEF TypeOK
<1>2. pos \in 1..Len(m_inp.cmds) /\ Len(m_inp.cmds) \in Nat
  BY <1>1 DEF TypeOK, AtEnd
<1>3. QED
  BY <1>1, <1>2 DEF Command

\* Every step of the player and every kill of a child keeps the state typed.
LEMMA TypeStep == TypeOK /\ [Next]_vars => TypeOK'
<1> SUFFICES ASSUME TypeOK, [Next]_vars PROVE TypeOK'
  OBVIOUS
<1> USE DEF TypeOK
<1>1. CASE Start
  <2>1. m_inp'.cmds \in Seq(Frames \cup Commands)
    BY <1>1, PlayerAssumption DEF Start
  <2>2. pos' \in 1..(Len(m_inp'.cmds) + 1)
    BY <1>1, <2>1 DEF Start
  <2>3. QED
    BY <1>1, <2>2 DEF Start, board
<1>2. CASE Kill
  BY <1>2 DEF Kill, board
<1>3. CASE SetFirstBank
  BY <1>3, BankAssumption DEF SetFirstBank, ioctl_SETBANK, Banks
<1>4. CASE SetFirstMode
  BY <1>4 DEF SetFirstMode, ioctl_SETMODE, OneBit, Modes
<1>5. CASE ReadFrame
  <2>1. NextBank(cur) \in Banks /\ 0 \in 0..Size /\ 0 < Size
    BY NextBankDiffers, PlayerAssumption
  <2>2. QED
    BY <1>5, <2>1, CommandFacts DEF ReadFrame, board
<1>6. CASE ReadOther
  BY <1>6, CommandFacts DEF ReadOther, board
<1>7. CASE ReadEnd
  <2>1. 1 \in 1..(Len(m_inp.cmds) + 1)
    BY PlayerAssumption
  <2>2. QED
    BY <1>7, <2>1 DEF ReadEnd, board
<1>8. CASE Copy
  <2>1. copied \in Cells /\ copied + 1 \in 0..Size /\ (copied + 1 # Size => copied + 1 < Size)
    BY <1>8, PlayerAssumption DEF Copy
  <2>2. ram' \in [Banks -> [Cells -> Frames \cup {Old}]]
    BY <1>8, <2>1 DEF Copy, Poke
  <2>3. QED
    BY <1>8, <2>1, <2>2 DEF Copy, Poke
<1>9. CASE SetBank
  BY <1>9 DEF SetBank, ioctl_SETBANK
<1>10. CASE SetMode
  BY <1>10 DEF SetMode, ioctl_SETMODE
<1>11. CASE Sleep
  BY <1>11 DEF Sleep, board
<1>12. CASE UNCHANGED vars
  BY <1>12 DEF vars
<1>13. QED
  BY <1>1, <1>2, <1>3, <1>4, <1>5, <1>6, <1>7, <1>8, <1>9, <1>10, <1>11, <1>12 DEF Next, Run

\* Type correctness of the player.
THEOREM TypeCorrect == Spec => []TypeOK
BY InitType, TypeStep, PTL DEF Spec

----------------------------------------------------------------------------
\* Every step keeps the variable bank of Run at the bank on display or after it.
LEMMA BankStep == TypeOK /\ BankInv /\ [Next]_vars => BankInv'
<1> SUFFICES ASSUME TypeOK, BankInv, [Next]_vars PROVE BankInv'
  OBVIOUS
<1> USE DEF BankInv
<1>1. CASE Start \/ Kill
  BY <1>1 DEF Start, Kill, board
<1>2. CASE SetFirstBank \/ SetFirstMode
  BY <1>2 DEF SetFirstBank, SetFirstMode, ioctl_SETBANK, ioctl_SETMODE
<1>3. CASE ReadFrame \/ ReadOther \/ ReadEnd
  BY <1>3 DEF ReadFrame, ReadOther, ReadEnd, board
<1>4. CASE Copy
  BY <1>4 DEF Copy, Poke
<1>5. CASE SetBank \/ SetMode \/ Sleep
  BY <1>5 DEF SetBank, SetMode, Sleep, ioctl_SETBANK, ioctl_SETMODE, board
<1>6. CASE UNCHANGED vars
  BY <1>6 DEF vars
<1>7. QED
  BY <1>1, <1>2, <1>3, <1>4, <1>5, <1>6 DEF Next, Run

\* What the player knows of the banks, in every state.
LEMMA BankInvariant == Spec => [](TypeOK /\ BankInv)
<1>1. Init => BankInv
  BY DEF Init, BankInv
<1>2. QED
  BY <1>1, InitType, TypeStep, BankStep, PTL DEF Spec

\* The bank that is drawn is not the one on display.
LEMMA DrawsBeside ==
  ASSUME TypeOK, BankInv, pc \in {"copy", "setbank"}
  PROVE  cur # bank /\ cur \in Banks /\ bank \in Banks
BY NextBankDiffers DEF TypeOK, BankInv

\* No frame is drawn in the bank on display, whenever children are killed.
THEOREM NoTearEver == Spec => []NoTear
<1>1. TypeOK /\ BankInv => NoTear
  BY DrawsBeside DEF NoTear
<1>2. QED
  BY <1>1, BankInvariant, PTL

----------------------------------------------------------------------------
\* Every step keeps what has been drawn of the frame in the buffer.
LEMMA CopyStep == TypeOK /\ CopyInv /\ [Next]_vars => CopyInv'
<1> SUFFICES ASSUME TypeOK, CopyInv, [Next]_vars PROVE CopyInv'
  OBVIOUS
<1> USE DEF CopyInv
<1>1. CASE Start \/ Kill
  BY <1>1 DEF Start, Kill, board
<1>2. CASE SetFirstBank \/ SetFirstMode \/ SetBank \/ SetMode \/ Sleep
  BY <1>2 DEF SetFirstBank, SetFirstMode, SetBank, SetMode, Sleep
<1>3. CASE ReadFrame
  <2>1. 0..(0 - 1) = {}
    OBVIOUS
  <2>2. QED
    BY <1>3, <2>1 DEF ReadFrame
<1>4. CASE ReadOther \/ ReadEnd
  BY <1>4 DEF ReadOther, ReadEnd
<1>5. CASE Copy
  <2> DEFINE k == copied
  <2>1. /\ k \in 0..(Size - 1) /\ k \in Cells /\ cur \in Banks
        /\ cur' = cur /\ buffer' = buffer /\ buffer \in Frames
    BY <1>5, PlayerAssumption DEF Copy, TypeOK
  <2>2. ram'[cur] = [ram[cur] EXCEPT ![k] = buffer]
    BY <1>5, <2>1 DEF Copy, Poke, TypeOK
  <2>3. ram[cur] \in [Cells -> Frames \cup {Old}]
    BY <2>1 DEF TypeOK
  <2>4. \A c \in 0..k : ram'[cur][c] = buffer
    <3>1. \A c \in 0..k : c \in Cells /\ (c = k \/ c \in 0..(k - 1))
      BY <2>1, PlayerAssumption
    <3>2. \A c \in 0..(k - 1) : ram[cur][c] = buffer
      BY <1>5 DEF Copy
    <3>3. QED
      BY <2>2, <2>3, <3>1, <3>2
  <2>5. CASE k + 1 = Size
    <3>1. \A c \in Cells : ram'[cur][c] = buffer
      BY <2>1, <2>4, <2>5, PlayerAssumption
    <3>2. ram'[cur] = [c \in Cells |-> buffer]
      BY <2>2, <2>3, <3>1
    <3>3. QED
      BY <1>5, <2>1, <2>5, <3>2 DEF Copy
  <2>6. CASE k + 1 # Size
    <3>1. pc' = "copy" /\ copied' - 1 = k
      BY <1>5, <2>1, <2>6 DEF Copy
    <3>2. QED
      BY <2>1, <2>4, <3>1
  <2>7. QED
    BY <2>5, <2>6
<1>6. CASE UNCHANGED vars
  BY <1>6 DEF vars
<1>7. QED
  BY <1>1, <1>2, <1>3, <1>4, <1>5, <1>6 DEF Next, Run

\* Every step leaves the last whole frame on the sign.
LEMMA ScreenStep ==
  TypeOK /\ BankInv /\ CopyInv /\ ScreenIsLastFrame /\ [Next]_vars => ScreenIsLastFrame'
<1> SUFFICES ASSUME TypeOK, BankInv, CopyInv, ScreenIsLastFrame, [Next]_vars
             PROVE  ScreenIsLastFrame'
  OBVIOUS
<1> USE DEF ScreenIsLastFrame
<1>1. CASE Start \/ Kill \/ ReadFrame \/ ReadOther \/ ReadEnd \/ Sleep
  BY <1>1 DEF Start, Kill, ReadFrame, ReadOther, ReadEnd, Sleep, board, Screen
<1>2. CASE SetFirstBank
  BY <1>2 DEF SetFirstBank
<1>3. CASE SetFirstMode \/ SetMode
  BY <1>3 DEF SetFirstMode, SetMode, ioctl_SETMODE, Screen
<1>4. CASE Copy
  <2>1. cur # bank /\ cur \in Banks /\ bank \in Banks
    BY <1>4, DrawsBeside DEF Copy
  <2>2. Screen' = Screen /\ shown' = shown
    BY <1>4, <2>1 DEF Copy, Poke, Screen, TypeOK
  <2>3. QED
    BY <2>2
<1>5. CASE SetBank
  <2>1. Screen' = ram[cur] /\ ram[cur] = [c \in Cells |-> buffer] /\ shown' = buffer
    BY <1>5 DEF SetBank, ioctl_SETBANK, Screen, CopyInv
  <2>2. QED
    BY <2>1
<1>6. CASE UNCHANGED vars
  BY <1>6 DEF vars, Screen
<1>7. QED
  BY <1>1, <1>2, <1>3, <1>4, <1>5, <1>6 DEF Next, Run

\* From a child's first frame on the sign shows its last frame whole: no child
\* that is killed while it draws leaves a part of a frame on the sign.
THEOREM ScreenStaysWhole == Spec => []ScreenIsLastFrame
<1>1. Init => PlayerInv
  <2>1. Init => ScreenIsLastFrame
    BY DEF Init, ScreenIsLastFrame
  <2>2. Init => BankInv /\ CopyInv
    BY DEF Init, BankInv, CopyInv
  <2>3. QED
    BY <2>1, <2>2, InitType DEF PlayerInv
<1>2. PlayerInv /\ [Next]_vars => PlayerInv'
  BY TypeStep, BankStep, CopyStep, ScreenStep DEF PlayerInv
<1>3. PlayerInv => ScreenIsLastFrame
  BY DEF PlayerInv
<1>4. QED
  BY <1>1, <1>2, <1>3, PTL DEF Spec

----------------------------------------------------------------------------
(* Sets of natural numbers                                                 *)

\* A set of natural numbers has a least element.
LEMMA LeastNatural ==
  ASSUME NEW T \in SUBSET Nat, T # {}
  PROVE  \E m \in T : \A n \in T : m <= n
<1> DEFINE Below == {0..m : m \in T}
<1>1. Below \subseteq FiniteSubsetsOf(Nat) /\ Below # {}
  <2>1. ASSUME NEW m \in T PROVE 0..m \in SUBSET Nat /\ IsFiniteSet(0..m)
    BY FS_Interval
  <2>2. \A m \in T : 0..m \in FiniteSubsetsOf(Nat)
    BY <2>1 DEF FiniteSubsetsOf
  <2> QED
    BY <2>2
<1>2. PICK B \in Below : \A C \in Below : <<C, B>> \notin StrictSubsetOrdering(Nat)
  BY <1>1, WFMin, FS_StrictSubsetOrderingWellFounded, Zenon
<1>3. PICK m \in T : B = 0..m
  BY <1>2
<1>4. ASSUME NEW n \in T, n < m PROVE FALSE
  <2>1. 0..n \in Below /\ 0..n \subseteq 0..m /\ 0..n # 0..m /\ 0..m \in SUBSET Nat /\ 0..n \in SUBSET Nat
    BY <1>4
  <2> QED
    BY <1>2, <1>3, <2>1 DEF StrictSubsetOrdering
<1> QED
  BY <1>4

----------------------------------------------------------------------------
(* The children of a process that uses Fork *)

Working == at \in {"delete", "kill", "reap", "unlink"}
Live(c) == kid[c] \in {"runs", "doomed", "zombie"}
Forked(c) == kid[c] \notin {"none", "failed"}
Entering(c) == at \in {"forked", "linked"} /\ p = c

ForkType ==
  /\ at \in {"program", "forked", "linked", "killall", "delete", "kill", "reap", "unlink",
             "wait", "suicide", "gone", "undefined"}
  /\ why \in {"no", "exit", "suicide", "both"}
  /\ p \in 0..MaxForks /\ saved \in 0..MaxForks
  /\ kid \in [Kids -> {"none", "runs", "doomed", "zombie", "reaped", "failed"}]
  /\ chld \in BOOLEAN /\ term \in BOOLEAN /\ hit \in BOOLEAN /\ early \in BOOLEAN
  /\ list \in 0..MaxForks /\ next \in [Kids -> 0..MaxForks]
  /\ pid \in [Kids -> {"own", "minus1"}] /\ kill_child \in [Kids -> BOOLEAN]
  /\ freed \subseteq Kids /\ scope \subseteq Kids
  /\ Working \/ at \in {"forked", "linked"} => p # Null

\* Children are forked in order, and the list goes from the younger to the older.
Ordered ==
  /\ \A c, d \in Kids : c < d /\ kid[c] = "none" => kid[d] = "none"
  /\ \A c \in Kids : kid[c] = "none" => list < c
  /\ at \in {"forked", "linked"} => list < p /\ Forked(p) /\ \A d \in Kids : d > p => kid[d] = "none"
  /\ \A c \in Kids : next[c] < c

\* Pointers lead to children that have been forked.
Pointers ==
  /\ list # Null => Forked(list)
  /\ \A c \in Kids : next[c] # Null => Forked(next[c])
  /\ p # Null => Forked(p)
  /\ saved # Null => Forked(saved)

\* The object of a live child has its pid and has not been deleted.
Objects ==
  /\ \A c \in freed \cup scope : Forked(c)
  /\ \A c \in Kids : Live(c) => pid[c] = "own" /\ c \notin freed

\* No pointer, not even one of an object that has been deleted, leads past a live
\* child that is in the list.
NoneSkipped ==
  ~early => \A c \in Kids : Live(c) /\ ~Entering(c) =>
    /\ c <= list
    /\ \A d \in Kids : d > c /\ Forked(d) /\ ~(at = "forked" /\ p = d) => c <= next[d]

\* commit_suicide has the live children before it.
Ahead ==
  ~early =>
    /\ at = "suicide" => \A c \in Kids : Live(c) => c <= p
    /\ Working /\ why # "exit" => \A c \in Kids : Live(c) => c = p \/ c <= saved
    /\ at = "gone" => \A c \in Kids : ~Live(c)

Phases ==
  /\ at = "unlink" => kid[p] = "reaped"
  /\ at \in {"killall", "wait"} => why = "exit"
  /\ ~term => at # "suicide" /\ why \in {"no", "exit"} /\ (Working => why = "exit")

ListInv == ForkType /\ Ordered /\ Pointers /\ Objects /\ NoneSkipped /\ Ahead /\ Phases

\* Without SIGTERM a pid stands for a live child, unless the object is dead; and
\* the object of a child that is about to be killed is not.
PidInv ==
  ~early /\ ~term =>
    /\ \A c \in Kids : pid[c] = "own" =>
         Live(c) \/ (at = "unlink" /\ c = p) \/ c \in freed \/ at \in {"wait", "gone", "undefined"}
    /\ at = "kill" => pid[p] = "own" /\ p \notin freed
    /\ ~hit

IInv == ListInv /\ PidInv

\* A live child that is in the list is on every walk along it, unless a signal came early.
LEMMA InWalk ==
  ASSUME ListInv, ~early, NEW c \in Kids, Live(c), ~Entering(c)
  PROVE  c \in Walk
<1> USE DEF Kids, Null
<1>1. SUFFICES ASSUME NEW S \in SUBSET Kids, list \in S \cup {Null},
                      \A d \in S : next[d] \in S \cup {Null}
               PROVE  c \in S
  BY DEF Walk
<1> DEFINE T == {d \in S : Forked(d) /\ c <= d /\ d <= list}
<1>2. c <= list /\ list \in T
  BY <1>1 DEF ListInv, Pointers, NoneSkipped
<1> HIDE DEF T
<1>3. PICK m \in T : \A d \in T : m <= d
  <2>1. ASSUME NEW d \in T PROVE d \in Nat
    BY DEF T
  <2>2. T \in SUBSET Nat /\ T # {}
    BY <1>2, <2>1
  <2> QED
    BY <2>2, LeastNatural
<1>4. m \in S /\ m \in Kids /\ Forked(m) /\ c <= m /\ m <= list
  BY <1>3 DEF T
<1>5. CASE c < m
  <2>0. ~(at = "forked" /\ p = m)
    BY <1>4 DEF ListInv, ForkType, Ordered
  <2>1. c <= next[m]
    BY <1>4, <1>5, <2>0 DEF ListInv, NoneSkipped
  <2>2. next[m] \in S /\ next[m] < m /\ Forked(next[m])
    BY <1>1, <1>4, <2>1 DEF ListInv, Ordered, Pointers
  <2>3. next[m] \in T
    BY <1>4, <2>1, <2>2 DEF ListInv, ForkType, T
  <2>4. m <= next[m] /\ next[m] \in Int
    BY <1>3, <1>4, <2>3 DEF ListInv, ForkType
  <2> QED
    BY <1>4, <2>2, <2>4
<1> QED
  BY <1>4, <1>5


\* The constructor keeps the list while it puts the object in front.
LEMMA StepEnlist ==
  ASSUME IInv, Enlist
  PROVE  IInv'
<1> USE ForkAssumption DEF Enlist, world, heap, past
<1>1. ForkType'
  <2>1. p # Null /\ p \in Kids
    BY DEF IInv, ListInv, ForkType, Null, Kids
  <2>2. CASE at = "forked"
    <3>1. next' \in [Kids -> 0..MaxForks]
      BY <2>2 DEF IInv, ListInv, ForkType, Null, Kids
    <3> QED
      BY <2>1, <2>2, <3>1 DEF IInv, ListInv, ForkType, Null, Kids
  <2>3. CASE at = "linked"
    <3>1. scope' \subseteq Kids
      BY <2>1, <2>3 DEF IInv, ListInv, ForkType, Null, Kids
    <3> QED
      BY <2>1, <2>3, <3>1 DEF IInv, ListInv, ForkType, Working, Null, Kids
  <2> QED
    BY <2>2, <2>3
<1>2. Ordered'
  BY DEF IInv, ListInv, ForkType, Ordered, Ahead, PidInv, Forked, Null, Kids
<1>3. Pointers'
  BY DEF IInv, ListInv, ForkType, Pointers, Ahead, PidInv, Forked, Null, Kids
<1>4. Objects'
  BY DEF IInv, ListInv, Ordered, Objects, Ahead, PidInv, Live, Forked, Null, Kids
<1>5. NoneSkipped'
  BY DEF IInv, ListInv, ForkType, Ordered, NoneSkipped, Ahead, PidInv, Live, Forked, Entering, Null, Kids
<1>6. Ahead'
  BY DEF IInv, ListInv, Ahead, PidInv, Working, Null, Kids
<1>7. Phases'
  BY DEF IInv, ListInv, Ahead, Phases, PidInv, Working, Null, Kids
<1>8. PidInv'
  BY DEF IInv, ListInv, Ahead, PidInv, Live, Null, Kids
<1> QED
  BY <1>1, <1>2, <1>3, <1>4, <1>5, <1>6, <1>7, <1>8 DEF IInv, ListInv

\* The loop of killall in the destructor of ForkDaemon keeps the list.
LEMMA Stepkillall ==
  ASSUME IInv, killall
  PROVE  IInv'
<1> USE ForkAssumption DEF killall, world, heap, past
<1>1. ForkType'
  BY DEF IInv, ListInv, ForkType, Working, Null, Kids
<1>2. Ordered'
  BY DEF IInv, ListInv, Ordered, Ahead, PidInv, Null, Kids
<1>3. Pointers'
  BY DEF IInv, ListInv, ForkType, Pointers, Ahead, PidInv, Forked, Null, Kids
<1>4. Objects'
  BY DEF IInv, ListInv, Objects, Ahead, PidInv, Live, Forked, Null, Kids
<1>5. NoneSkipped'
  BY DEF IInv, ListInv, NoneSkipped, Ahead, PidInv, Live, Forked, Entering, Null, Kids
<1>6. Ahead'
  BY DEF IInv, ListInv, Ahead, Phases, PidInv, Null, Kids
<1>7. Phases'
  BY DEF IInv, ListInv, Ahead, Phases, PidInv, Null, Kids
<1>8. PidInv'
  BY DEF IInv, ListInv, Ahead, PidInv, Live, Null, Kids
<1> QED
  BY <1>1, <1>2, <1>3, <1>4, <1>5, <1>6, <1>7, <1>8 DEF IInv, ListInv

\* Deleting the object at the head keeps the list.
LEMMA StepDelete ==
  ASSUME IInv, Delete
  PROVE  IInv'
<1> USE ForkAssumption DEF Delete, Deleted, world, heap, past
<1>1. ForkType'
  <2>1. p # Null /\ p \in Kids
    BY DEF IInv, ListInv, ForkType, Working, Null, Kids
  <2>2. freed' \subseteq Kids
    BY <2>1 DEF IInv, ListInv, ForkType, Null, Kids
  <2>3. p' \in 0..MaxForks
    BY <2>1 DEF IInv, ListInv, ForkType, Null, Kids
  <2> QED
    BY <2>1, <2>2, <2>3 DEF IInv, ListInv, ForkType, Working, Null, Kids
<1>2. Ordered'
  BY DEF IInv, ListInv, Ordered, Ahead, PidInv, Null, Kids
<1>3. Pointers'
  BY DEF IInv, ListInv, ForkType, Pointers, Ahead, PidInv, Working, Forked, Null, Kids
<1>4. Objects'
  <2>1. scope' = scope /\ freed' \subseteq freed \cup {p} /\ Forked(p) /\ kid' = kid
    BY DEF IInv, ListInv, ForkType, Pointers, Null, Working, Kids
  <2>2. p \in freed' \ freed => ~Live(p)
    BY DEF IInv, ListInv, ForkType, Objects, Null, Working, Kids
  <2> QED
    BY <2>1, <2>2 DEF IInv, ListInv, Objects, Live, Forked, Null, Kids
<1>5. NoneSkipped'
  BY DEF IInv, ListInv, NoneSkipped, Ahead, PidInv, Live, Forked, Entering, Null, Kids
<1>6. Ahead'
  BY DEF IInv, ListInv, Objects, Ahead, PidInv, Working, Live, Null, Kids
<1>7. Phases'
  BY DEF IInv, ListInv, Ahead, Phases, PidInv, Working, Null, Kids
<1>8. PidInv'
  BY DEF IInv, ListInv, ForkType, Ahead, PidInv, Working, Live, Null, Kids
<1> QED
  BY <1>1, <1>2, <1>3, <1>4, <1>5, <1>6, <1>7, <1>8 DEF IInv, ListInv

\* The kill in a destructor is aimed at the own child, and keeps the list.
LEMMA StepKillChild ==
  ASSUME IInv, KillChild
  PROVE  IInv'
<1> USE ForkAssumption DEF KillChild, Signal, world, heap, past
<1>1. ForkType'
  BY DEF IInv, ListInv, ForkType, Working, Null, Kids
<1>2. Ordered'
  BY DEF IInv, ListInv, Ordered, Ahead, PidInv, Null, Kids
<1>3. Pointers'
  BY DEF IInv, ListInv, Pointers, Ahead, PidInv, Forked, Null, Kids
<1>4. Objects'
  BY DEF IInv, ListInv, Objects, Ahead, PidInv, Live, Forked, Null, Kids
<1>5. NoneSkipped'
  BY DEF IInv, ListInv, NoneSkipped, Ahead, PidInv, Live, Forked, Entering, Null, Kids
<1>6. Ahead'
  BY DEF IInv, ListInv, Ahead, PidInv, Working, Live, Null, Kids
<1>7. Phases'
  BY DEF IInv, ListInv, Ahead, Phases, PidInv, Working, Null, Kids
<1>8. PidInv'
  BY DEF IInv, ListInv, ForkType, Ahead, PidInv, Working, Live, Null, Kids
<1> QED
  BY <1>1, <1>2, <1>3, <1>4, <1>5, <1>6, <1>7, <1>8 DEF IInv, ListInv

\* The wait for the child that was killed keeps the list.
LEMMA Stepreap_child ==
  ASSUME IInv, reap_child
  PROVE  IInv'
<1> USE ForkAssumption DEF reap_child, world, heap, past
<1>1. ForkType'
  BY DEF IInv, ListInv, ForkType, Working, Null, Kids
<1>2. Ordered'
  BY DEF IInv, ListInv, Ordered, Ahead, PidInv, Null, Kids
<1>3. Pointers'
  BY DEF IInv, ListInv, Pointers, Ahead, PidInv, Forked, Null, Kids
<1>4. Objects'
  BY DEF IInv, ListInv, Objects, Ahead, PidInv, Live, Forked, Null, Kids
<1>5. NoneSkipped'
  BY DEF IInv, ListInv, NoneSkipped, Ahead, PidInv, Live, Forked, Entering, Null, Kids
<1>6. Ahead'
  BY DEF IInv, ListInv, Ahead, PidInv, Working, Live, Null, Kids
<1>7. Phases'
  BY DEF IInv, ListInv, ForkType, Ahead, Phases, PidInv, Working, Null, Kids
<1>8. PidInv'
  BY DEF IInv, ListInv, Ahead, PidInv, Live, Null, Kids
<1> QED
  BY <1>1, <1>2, <1>3, <1>4, <1>5, <1>6, <1>7, <1>8 DEF IInv, ListInv

\* Taking an object out of the list leads no pointer past a live child.
LEMMA StepUnlink ==
  ASSUME IInv, Unlink
  PROVE  IInv'
<1> USE ForkAssumption DEF Unlink, Deleted, world, heap, past
<1>1. ForkType'
  <2>1. p \in Kids /\ next[p] \in 0..MaxForks
    BY DEF IInv, ListInv, ForkType, Working, Null, Kids
  <2>2. next' \in [Kids -> 0..MaxForks] /\ list' \in 0..MaxForks
    <3>1. CASE list = p
      BY <2>1, <3>1 DEF IInv, ListInv, ForkType, Null, Kids
    <3>2. CASE list # p
      BY <2>1, <3>2 DEF IInv, ListInv, ForkType, Null, Kids
    <3> QED
      BY <3>1, <3>2
  <2>3. freed' \subseteq Kids
    BY <2>1 DEF IInv, ListInv, ForkType, Null, Kids
  <2>4. p' \in 0..MaxForks
    BY <2>1 DEF IInv, ListInv, ForkType, Null, Kids
  <2> QED
    BY <2>2, <2>3, <2>4 DEF IInv, ListInv, ForkType, Working, Null, Kids
<1>2. Ordered'
  <2>1. list' \in 0..MaxForks /\ next' \in [Kids -> 0..MaxForks]
    BY <1>1 DEF ForkType
  <2>2. p \in Kids /\ next[p] < p
    BY DEF IInv, ListInv, ForkType, Ordered, Null, Working, Kids
  <2>3. list' <= list
    BY <2>2 DEF IInv, ListInv, ForkType, Null, Kids
  <2>4. ASSUME NEW d \in Kids PROVE next'[d] \in {next[d], next[p]} /\ (next'[d] = next[d] \/ next[d] = p)
    BY <2>4 DEF IInv, ListInv, Null, Kids
  <2>5. \A d \in Kids : next'[d] < d
    BY <2>2, <2>4 DEF IInv, ListInv, ForkType, Ordered, Null, Kids
  <2> QED
    BY <2>1, <2>3, <2>5 DEF IInv, ListInv, ForkType, Ordered, Null, Kids
<1>3. Pointers'
  BY DEF IInv, ListInv, ForkType, Ordered, Pointers, Ahead, PidInv, Working, Forked, Null, Kids
<1>4. Objects'
  BY DEF IInv, ListInv, Objects, Ahead, Phases, PidInv, Live, Forked, Null, Kids
<1>5. NoneSkipped'
  <2>1. p \in Kids /\ kid[p] = "reaped" /\ ~Live(p) /\ Forked(p)
    BY DEF IInv, ListInv, ForkType, Live, Forked, Null, Phases, Working, Kids
  <2> SUFFICES ASSUME ~early', NEW c \in Kids, Live(c)'
               PROVE  (/\ c <= list
                       /\ \A d \in Kids : d > c /\ Forked(d) /\ ~(at = "forked" /\ p = d) => c <= next[d])'
    BY DEF NoneSkipped
  <2>2. ~early /\ Live(c) /\ ~Entering(c) /\ c # p
    BY <2>1 DEF IInv, ListInv, Live, Entering, Null, Kids
  <2>3. c <= list /\ \A d \in Kids : d > c /\ Forked(d) => c <= next[d]
    BY <2>2 DEF IInv, ListInv, NoneSkipped, Null, Kids
  <2>4. c <= list'
    BY <2>1, <2>2, <2>3 DEF IInv, ListInv, Null, Kids
  <2>5. ASSUME NEW d \in Kids, d > c, Forked(d)' PROVE c <= next'[d]
    <3>1. CASE next[d] = p
      <4>1. c < p /\ c <= next[p] /\ c <= next[d]
        BY <2>1, <2>2, <2>3, <2>5, <3>1 DEF IInv, ListInv, Live, Forked, Null, Kids
      <4>2. next'[d] \in {next[d], next[p]}
        OBVIOUS
      <4> QED
        BY <3>1, <4>1, <4>2
    <3>2. CASE next[d] # p
      BY <2>1, <2>2, <2>3, <2>5, <3>2 DEF IInv, ListInv, Forked, Null, Kids
    <3> QED
      BY <3>1, <3>2
  <2> QED
    BY <2>4, <2>5
<1>6. Ahead'
  BY DEF IInv, ListInv, Ahead, Phases, PidInv, Working, Live, Null, Kids
<1>7. Phases'
  BY DEF IInv, ListInv, Ahead, Phases, PidInv, Working, Null, Kids
<1>8. PidInv'
  BY DEF IInv, ListInv, Ahead, PidInv, Live, Null, Kids
<1> QED
  BY <1>1, <1>2, <1>3, <1>4, <1>5, <1>6, <1>7, <1>8 DEF IInv, ListInv

\* The last wait of the process keeps the list.
LEMMA Stepwait ==
  ASSUME IInv, wait
  PROVE  IInv'
<1> USE ForkAssumption DEF wait, world, heap, past
<1>1. ForkType'
  BY DEF IInv, ListInv, ForkType, Working, Null, Kids
<1>2. Ordered'
  BY DEF IInv, ListInv, ForkType, Ordered, Ahead, PidInv, Null, Kids
<1>3. Pointers'
  BY DEF IInv, ListInv, ForkType, Pointers, Ahead, PidInv, Forked, Null, Kids
<1>4. Objects'
  BY DEF IInv, ListInv, ForkType, Objects, Ahead, PidInv, Live, Forked, Null, Kids
<1>5. NoneSkipped'
  <2>1. \A c \in Kids : (Live(c)' => Live(c)) /\ (Forked(c)' => Forked(c))
    BY DEF IInv, ListInv, ForkType, Live, Forked, Null, Kids
  <2>2. at \notin {"forked", "linked"} /\ at' \notin {"forked", "linked"}
    OBVIOUS
  <2> QED
    BY <2>1, <2>2 DEF IInv, ListInv, NoneSkipped, Entering
<1>6. Ahead'
  BY DEF IInv, ListInv, NoneSkipped, Ahead, PidInv, Working, Live, Entering, Null, Kids
<1>7. Phases'
  BY DEF IInv, ListInv, Ahead, Phases, PidInv, Null, Kids
<1>8. PidInv'
  BY DEF IInv, ListInv, Ahead, PidInv, Null, Kids
<1> QED
  BY <1>1, <1>2, <1>3, <1>4, <1>5, <1>6, <1>7, <1>8 DEF IInv, ListInv

\* One turn of the loop of commit_suicide leaves no live child behind it.
LEMMA StepSuicideStep ==
  ASSUME IInv, SuicideStep
  PROVE  IInv'
<1> USE ForkAssumption DEF SuicideStep, Signal, world, heap, past
<1>1. ForkType'
  <2>1. kid' \in [Kids -> {"none", "runs", "doomed", "zombie", "reaped", "failed"}]
    BY DEF IInv, ListInv, ForkType, Null, Kids
  <2>2. hit' \in BOOLEAN
    BY DEF IInv, ListInv, ForkType, Null, Kids
  <2> QED
    BY <2>1, <2>2 DEF IInv, ListInv, ForkType, Working, Null, Kids
<1>2. Ordered'
  <2>1. UNCHANGED <<list, next>> /\ at' \notin {"forked", "linked"}
    OBVIOUS
  <2>2. \A c \in Kids : kid'[c] = "none" <=> kid[c] = "none"
    BY DEF IInv, ListInv, ForkType, Null, Kids
  <2>3. Ordered
    BY DEF IInv, ListInv
  <2> HIDE DEF SuicideStep, Signal
  <2> QED
    BY <2>1, <2>2, <2>3 DEF Ordered
<1>3. Pointers'
  <2>1. \A c \in Kids : Forked(c) => Forked(c)'
    BY DEF IInv, ListInv, ForkType, Forked, Null, Kids
  <2>2. p # Null => p \in Kids
    BY DEF IInv, ListInv, ForkType, Null, Kids
  <2>3. CASE p = Null
    <3>1. (p' = p \/ p' = list) /\ saved' = Null /\ UNCHANGED <<list, next>>
      BY <2>3
    <3> QED
      BY <2>1, <3>1 DEF IInv, ListInv, ForkType, Pointers, Null, Kids
  <2>4. CASE p # Null
    <3>1. p' = p /\ saved' = next[p] /\ UNCHANGED <<list, next>>
      BY <2>4
    <3> QED
      BY <2>1, <2>2, <2>4, <3>1 DEF IInv, ListInv, ForkType, Pointers, Null, Kids
  <2> QED
    BY <2>3, <2>4
<1>4. Objects'
  BY DEF IInv, ListInv, ForkType, Objects, Ahead, PidInv, Live, Forked, Null, Kids
<1>5. NoneSkipped'
  <2>1. \A c \in Kids : (Live(c)' => Live(c)) /\ (Forked(c)' => Forked(c))
    BY DEF IInv, ListInv, ForkType, Live, Forked, Null, Kids
  <2>2. at \notin {"forked", "linked"} /\ at' \notin {"forked", "linked"}
    OBVIOUS
  <2> QED
    BY <2>1, <2>2 DEF IInv, ListInv, NoneSkipped, Entering
<1>6. Ahead'
  BY DEF IInv, ListInv, ForkType, Pointers, NoneSkipped, Ahead, PidInv, Live, Entering, Null, Kids
<1>7. Phases'
  BY DEF IInv, ListInv, Ahead, Phases, PidInv, Null, Kids
<1>8. PidInv'
  BY DEF IInv, ListInv, Ahead, Phases, PidInv, Null, Kids
<1> QED
  BY <1>1, <1>2, <1>3, <1>4, <1>5, <1>6, <1>7, <1>8 DEF IInv, ListInv

\* SIGTERM finds the live children on the list.
LEMMA Stepcommit_suicide ==
  ASSUME IInv, commit_suicide
  PROVE  IInv'
<1> USE ForkAssumption DEF commit_suicide, Alive, world, heap, past
<1>1. ForkType'
  BY DEF IInv, ListInv, ForkType, Working, Null, Kids
<1>2. Ordered'
  BY DEF IInv, ListInv, Ordered, Ahead, PidInv, Null, Kids
<1>3. Pointers'
  BY DEF IInv, ListInv, Pointers, Ahead, PidInv, Forked, Null, Kids
<1>4. Objects'
  BY DEF IInv, ListInv, Objects, Ahead, PidInv, Live, Forked, Null, Kids
<1>5. NoneSkipped'
  <2> SUFFICES ASSUME ~early', NEW c \in Kids, Live(c)'
               PROVE  (/\ c <= list
                       /\ \A d \in Kids : d > c /\ Forked(d) /\ ~(at = "forked" /\ p = d) => c <= next[d])'
    BY DEF NoneSkipped
  <2>1. ~early /\ at # "forked" /\ at # "linked" /\ Live(c) /\ ~Entering(c)
    BY DEF IInv, ListInv, Live, Entering, Null, Kids
  <2> QED
    BY <2>1 DEF IInv, ListInv, NoneSkipped, Forked, Null, Kids
<1>6. Ahead'
  <2> SUFFICES ASSUME ~early', NEW c \in Kids, Live(c)'
               PROVE  c <= p'
    BY DEF Ahead, Working
  <2>1. ~early /\ Live(c) /\ ~Entering(c)
    BY DEF IInv, ListInv, Live, Entering, Null, Kids
  <2> QED
    BY <2>1 DEF IInv, ListInv, NoneSkipped, Null, Kids
<1>7. Phases'
  BY DEF IInv, ListInv, Ahead, Phases, PidInv, Null, Kids
<1>8. PidInv'
  BY DEF IInv, ListInv, Ahead, PidInv, Null, Kids
<1> QED
  BY <1>1, <1>2, <1>3, <1>4, <1>5, <1>6, <1>7, <1>8 DEF IInv, ListInv

\* The exit of the process finds the live children on the list.
LEMMA StepExit ==
  ASSUME IInv, Exit
  PROVE  IInv'
<1> USE ForkAssumption DEF Exit, world, heap, past
<1>1. ForkType'
  BY DEF IInv, ListInv, ForkType, Working, Null, Kids
<1>2. Ordered'
  BY DEF IInv, ListInv, Ordered, Ahead, PidInv, Null, Kids
<1>3. Pointers'
  BY DEF IInv, ListInv, Pointers, Ahead, PidInv, Forked, Null, Kids
<1>4. Objects'
  BY DEF IInv, ListInv, Objects, Ahead, PidInv, Live, Forked, Null, Kids
<1>5. NoneSkipped'
  BY DEF IInv, ListInv, NoneSkipped, Ahead, PidInv, Live, Forked, Entering, Null, Kids
<1>6. Ahead'
  BY DEF IInv, ListInv, Ahead, PidInv, Null, Kids
<1>7. Phases'
  BY DEF IInv, ListInv, Ahead, Phases, PidInv, Null, Kids
<1>8. PidInv'
  BY DEF IInv, ListInv, Ahead, PidInv, Live, Null, Kids
<1> QED
  BY <1>1, <1>2, <1>3, <1>4, <1>5, <1>6, <1>7, <1>8 DEF IInv, ListInv

\* A new child, or a fork that fails, changes no other object.
LEMMA StepForkProcess ==
  ASSUME IInv, NEW c \in Kids, NEW kill \in BOOLEAN, ForkProcess(c, kill)
  PROVE  IInv'
<1> USE ForkAssumption DEF ForkProcess, world, heap, past
<1>1. ForkType'
  <2>1. kid' \in [Kids -> {"none", "runs", "doomed", "zombie", "reaped", "failed"}]
    BY DEF IInv, ListInv, ForkType, Null, Kids
  <2>2. pid' \in [Kids -> {"own", "minus1"}] /\ kill_child' \in [Kids -> BOOLEAN]
    BY DEF IInv, ListInv, ForkType, Null, Kids
  <2> QED
    BY <2>1, <2>2 DEF IInv, ListInv, ForkType, Working, Null, Kids
<1>2. Ordered'
  <2>1. CASE at' = "forked"
    <3>1. kid' = [kid EXCEPT ![c] = "runs"] /\ p' = c
      BY <2>1
    <3> QED
      BY <2>1, <3>1 DEF IInv, ListInv, ForkType, Ordered, Forked, Null, Kids
  <2>2. CASE at' # "forked"
    <3>1. kid' = [kid EXCEPT ![c] = "failed"] /\ at' = at
      BY <2>2
    <3> QED
      BY <2>2, <3>1 DEF IInv, ListInv, Ordered, Null, Kids
  <2> QED
    BY <2>1, <2>2
<1>3. Pointers'
  <2>1. \A d \in Kids : d # c => (Forked(d) => Forked(d)')
    BY DEF IInv, ListInv, ForkType, Forked, Null, Kids
  <2>2. ~Forked(c) /\ c # Null
    BY DEF IInv, ListInv, Forked, Null, Kids
  <2>3. list # c /\ saved # c /\ \A d \in Kids : next[d] # c
    BY <2>2 DEF IInv, ListInv, Pointers
  <2>4. (p' = c /\ Forked(c)') \/ (p' = p /\ p # c)
    BY <2>2 DEF IInv, ListInv, ForkType, Pointers, Forked, Null, Kids
  <2>5. list' = list /\ next' = next /\ saved' = saved
    OBVIOUS
  <2>6. (list # Null => Forked(list)) /\ (saved # Null => Forked(saved))
        /\ \A d \in Kids : next[d] # Null => Forked(next[d])
    BY DEF IInv, ListInv, Pointers
  <2>7. list \in Kids \cup {Null} /\ saved \in Kids \cup {Null} /\ p \in Kids \cup {Null}
        /\ \A d \in Kids : next[d] \in Kids \cup {Null}
    BY DEF IInv, ListInv, ForkType, Null, Kids
  <2>8. p' # Null => Forked(p)'
    BY <2>1, <2>4, <2>7 DEF IInv, ListInv, Pointers
  <2>9. (list' # Null => Forked(list)') /\ (saved' # Null => Forked(saved)')
    BY <2>1, <2>3, <2>5, <2>6, <2>7
  <2>10. \A d \in Kids : next'[d] # Null => Forked(next[d])'
    BY <2>1, <2>3, <2>5, <2>6, <2>7
  <2> QED
    BY <2>8, <2>9, <2>10 DEF Pointers
<1>4. Objects'
  BY DEF IInv, ListInv, ForkType, Objects, Ahead, PidInv, Live, Forked, Null, Kids
<1>5. NoneSkipped'
  <2> SUFFICES ASSUME ~early', NEW e \in Kids, Live(e)', ~Entering(e)'
               PROVE  (/\ e <= list
                       /\ \A d \in Kids : d > e /\ Forked(d) /\ ~(at = "forked" /\ p = d) => e <= next[d])'
    BY DEF NoneSkipped
  <2>1. e # c /\ Live(e) /\ ~Entering(e) /\ at = "program" /\ ~early
    BY DEF IInv, ListInv, ForkType, Live, Entering, Null, Kids
  <2>2. e <= list /\ \A d \in Kids : d > e /\ Forked(d) => e <= next[d]
    BY <2>1 DEF IInv, ListInv, NoneSkipped
  <2>3. ASSUME NEW d \in Kids, Forked(d)', ~(at = "forked" /\ p = d)' PROVE Forked(d)
    BY <2>3 DEF IInv, ListInv, ForkType, Forked, Null, Kids
  <2> QED
    BY <2>2, <2>3
<1>6. Ahead'
  BY DEF IInv, ListInv, Ahead, PidInv, Working, Null, Kids
<1>7. Phases'
  BY DEF IInv, ListInv, Ahead, Phases, PidInv, Working, Null, Kids
<1>8. PidInv'
  BY DEF IInv, ListInv, ForkType, Ahead, PidInv, Live, Null, Kids
<1> QED
  BY <1>1, <1>2, <1>3, <1>4, <1>5, <1>6, <1>7, <1>8 DEF IInv, ListInv

\* A destructor at the end of a scope keeps the list.
LEMMA StepLeaveScope ==
  ASSUME IInv, NEW c \in Kids, LeaveScope(c)
  PROVE  IInv'
<1> USE ForkAssumption DEF LeaveScope, world, heap, past
<1>1. ForkType'
  <2>1. freed' \subseteq Kids /\ scope' \subseteq Kids
    BY DEF IInv, ListInv, ForkType, Null, Kids
  <2> QED
    BY <2>1 DEF IInv, ListInv, ForkType, Working, Null, Kids
<1>2. Ordered'
  BY DEF IInv, ListInv, Ordered, Ahead, PidInv, Null, Kids
<1>3. Pointers'
  BY DEF IInv, ListInv, Pointers, Ahead, PidInv, Forked, Null, Kids
<1>4. Objects'
  <2>1. scope' \subseteq scope /\ freed' \subseteq freed \cup {c} /\ c \in scope /\ kid' = kid
    OBVIOUS
  <2>2. c \in freed' \ freed => ~Live(c)
    BY DEF IInv, ListInv, Objects, Null, Kids
  <2> QED
    BY <2>1, <2>2 DEF IInv, ListInv, Objects, Live, Forked, Null, Kids
<1>5. NoneSkipped'
  BY DEF IInv, ListInv, NoneSkipped, Ahead, PidInv, Live, Forked, Entering, Null, Kids
<1>6. Ahead'
  BY DEF IInv, ListInv, Ahead, PidInv, Working, Null, Kids
<1>7. Phases'
  BY DEF IInv, ListInv, Ahead, Phases, PidInv, Working, Null, Kids
<1>8. PidInv'
  BY DEF IInv, ListInv, Ahead, PidInv, Live, Null, Kids
<1> QED
  BY <1>1, <1>2, <1>3, <1>4, <1>5, <1>6, <1>7, <1>8 DEF IInv, ListInv

\* A child that dies keeps its place in the list.
LEMMA StepDie ==
  ASSUME IInv, NEW c \in Kids, Die(c)
  PROVE  IInv'
<1> USE ForkAssumption DEF Die, Alive, world, heap, past
<1>1. ForkType'
  BY DEF IInv, ListInv, ForkType, Working, Null, Kids
<1>2. Ordered'
  BY DEF IInv, ListInv, Ordered, Ahead, PidInv, Forked, Null, Kids
<1>3. Pointers'
  BY DEF IInv, ListInv, Pointers, Ahead, PidInv, Forked, Null, Kids
<1>4. Objects'
  BY DEF IInv, ListInv, Objects, Ahead, PidInv, Live, Forked, Null, Kids
<1>5. NoneSkipped'
  BY DEF IInv, ListInv, NoneSkipped, Ahead, PidInv, Live, Forked, Entering, Null, Kids
<1>6. Ahead'
  BY DEF IInv, ListInv, Ahead, PidInv, Working, Live, Null, Kids
<1>7. Phases'
  BY DEF IInv, ListInv, Ahead, Phases, PidInv, Working, Null, Kids
<1>8. PidInv'
  BY DEF IInv, ListInv, Ahead, PidInv, Live, Null, Kids
<1> QED
  BY <1>1, <1>2, <1>3, <1>4, <1>5, <1>6, <1>7, <1>8 DEF IInv, ListInv

\* The handler of SIGCHLD takes the objects of dead children off the list, and no live
\* one.
LEMMA StepReap ==
  ASSUME IInv, NEW c \in Kids, kid[c] = "zombie", Reap(c), Alive,
         UNCHANGED <<why, p, saved, term, kill_child, scope, hit>>, chld' = FALSE
  PROVE  IInv'
<1> USE ForkAssumption DEF Reap, Alive, world, heap, past
<1>1. ForkType'
  <2>1. kid' \in [Kids -> {"none", "runs", "doomed", "zombie", "reaped", "failed"}]
    BY DEF IInv, ListInv, ForkType, Null, Kids
  <2>2. pid' \in [Kids -> {"own", "minus1"}]
    BY DEF IInv, ListInv, ForkType, Null, Kids
  <2>3. next' \in [Kids -> 0..MaxForks] /\ list' \in 0..MaxForks
    <3>1. next \in [Kids -> 0..MaxForks] /\ next[c] \in 0..MaxForks /\ list \in 0..MaxForks
      BY DEF IInv, ListInv, ForkType, Null, Kids
    <3>2. list' \in 0..MaxForks
      BY <3>1
    <3>3. CASE UNCHANGED next
      BY <3>1, <3>2, <3>3
    <3>4. CASE next' = [d \in Kids |-> IF d \in Walk /\ next[d] = c THEN next[c] ELSE next[d]]
      BY <3>1, <3>2, <3>4
    <3> QED
      BY <3>3, <3>4
  <2>4. freed' \subseteq Kids
    BY DEF IInv, ListInv, ForkType, Null, Kids
  <2>5. early' \in BOOLEAN
    BY DEF IInv, ListInv, Null, Kids
  <2> QED
    BY <2>1, <2>2, <2>3, <2>4, <2>5 DEF IInv, ListInv, ForkType, Working, Null, Kids
<1>2. Ordered'
  <2>1. kid' = [kid EXCEPT ![c] = "reaped"] /\ Forked(c)
    BY DEF IInv, ListInv, Forked, Null, Kids
  <2>2. list' <= list /\ \A d \in Kids : next'[d] <= next[d]
    BY DEF IInv, ListInv, ForkType, Ordered, Pointers, Null, Kids
  <2>3. list' \in 0..MaxForks /\ next' \in [Kids -> 0..MaxForks]
    BY <1>1 DEF ForkType
  <2> QED
    BY <2>1, <2>2, <2>3 DEF IInv, ListInv, ForkType, Ordered, Objects, Forked, Null, Kids
<1>3. Pointers'
  <2>1. \A d \in Kids : Forked(d) => Forked(d)'
    BY DEF IInv, ListInv, Forked
  <2>2. list' # Null => Forked(list')
    BY <2>1 DEF IInv, ListInv, Pointers, Null, Kids
  <2>3. \A d \in Kids : next'[d] # Null => Forked(next'[d])
    BY <2>1 DEF IInv, ListInv, Pointers, Null, Kids
  <2> QED
    BY <2>1, <2>2, <2>3 DEF IInv, ListInv, ForkType, Pointers, Null, Kids
<1>4. Objects'
  <2>1. Forked(c) /\ \A d \in Kids : Forked(d) => Forked(d)'
    BY DEF IInv, ListInv, Forked, Null, Kids
  <2>2. \A d \in Kids : Live(d)' => d # c /\ Live(d)
    BY DEF IInv, ListInv, ForkType, Live, Null, Kids
  <2>3. \A d \in Kids : Live(d)' => pid'[d] = "own" /\ d \notin freed'
    BY <2>2 DEF IInv, ListInv, ForkType, Objects, Null, Kids
  <2>4. freed' \subseteq freed \cup {c} /\ scope' = scope
    OBVIOUS
  <2> QED
    BY <2>1, <2>3, <2>4 DEF IInv, ListInv, ForkType, Objects, Null, Kids
<1>5. NoneSkipped'
  <2>1. Live(c) /\ Forked(c) /\ ~Live(c)' /\ \A d \in Kids : Forked(d)' => Forked(d)
    BY DEF IInv, ListInv, ForkType, Live, Forked, Null, Kids
  <2> SUFFICES ASSUME ~early', NEW e \in Kids, Live(e)', ~Entering(e)'
               PROVE  (/\ e <= list
                       /\ \A d \in Kids : d > e /\ Forked(d) /\ ~(at = "forked" /\ p = d) => e <= next[d])'
    BY DEF NoneSkipped
  <2>2. ~early /\ Live(e) /\ e # c
    BY <2>1 DEF IInv, ListInv, ForkType, Live, Null, Kids
  <2>9. at \in {"forked", "linked"} => p # c
    OBVIOUS
  <2>10. at' \in {"forked", "linked"} <=> at \in {"forked", "linked"}
    <3>1. c \notin freed
      BY <2>1 DEF IInv, ListInv, Objects
    <3> QED
      BY <3>1
  <2>11. ~Entering(e)
    BY <2>10 DEF Entering
  <2>3. e <= list /\ \A d \in Kids : d > e /\ Forked(d) /\ ~(at = "forked" /\ p = d) => e <= next[d]
    BY <2>2, <2>11 DEF IInv, ListInv, NoneSkipped, Null, Kids
  <2>4. e <= list'
    BY <2>1, <2>2, <2>3 DEF IInv, ListInv, Ordered, Null, Kids
  <2>5. ASSUME NEW d \in Kids, d > e, Forked(d)', ~(at = "forked" /\ p = d)' PROVE e <= next'[d]
    <3>1. CASE next[d] = c
      <4>1. e < c /\ e <= next[c] /\ e <= next[d]
        BY <2>1, <2>2, <2>3, <2>5, <2>9, <2>10, <3>1 DEF IInv, ListInv, Null, Kids
      <4>2. next'[d] \in {next[d], next[c]}
        OBVIOUS
      <4> QED
        BY <3>1, <4>1, <4>2
    <3>2. CASE next[d] # c
      <4>1. next'[d] = next[d]
        BY <3>2
      <4>2. e <= next[d]
        BY <2>1, <2>2, <2>3, <2>5, <2>10 DEF IInv, ListInv, Null, Kids
      <4> QED
        BY <4>1, <4>2
    <3> QED
      BY <3>1, <3>2
  <2> QED
    BY <2>4, <2>5
<1>6. Ahead'
  BY DEF IInv, ListInv, ForkType, Ahead, PidInv, Working, Live, Null, Kids
<1>7. Phases'
  BY DEF IInv, ListInv, Ahead, Phases, PidInv, Working, Null, Kids
<1>8. PidInv'
  <2> SUFFICES ASSUME ~early', ~term'
               PROVE  (/\ \A d \in Kids : pid[d] = "own" =>
                            \/ Live(d) \/ (at = "unlink" /\ d = p) \/ d \in freed
                            \/ at \in {"wait", "gone", "undefined"}
                       /\ at = "kill" => pid[p] = "own" /\ p \notin freed
                       /\ ~hit)'
    BY DEF PidInv
  <2>1. ~early /\ ~term /\ ~Entering(c) /\ Live(c) /\ pid[c] = "own"
    BY DEF IInv, ListInv, Objects, Live, Entering, Null, Kids
  <2>2. c \in Walk
    BY <2>1, InWalk DEF IInv
  <2>7. \A d \in Kids : pid[d] = "own" =>
          Live(d) \/ (at = "unlink" /\ d = p) \/ d \in freed \/ at \in {"wait", "gone", "undefined"}
    BY <2>1 DEF IInv, PidInv
  <2>3. pid' = [pid EXCEPT ![c] = "minus1"] /\ kid' = [kid EXCEPT ![c] = "reaped"] /\ freed' = freed \cup {c}
    BY <2>1, <2>2
  <2>4. ASSUME NEW d \in Kids, pid'[d] = "own"
        PROVE  Live(d)' \/ (at' = "unlink" /\ d = p') \/ d \in freed' \/ at' \in {"wait", "gone", "undefined"}
    <3>1. d # c /\ pid[d] = "own" /\ (Live(d)' <=> Live(d)) /\ (d \in freed => d \in freed')
      BY <2>3, <2>4 DEF IInv, ListInv, ForkType, Live, Null, Kids
    <3>2. Live(d) \/ (at = "unlink" /\ d = p) \/ d \in freed \/ at \in {"wait", "gone", "undefined"}
      BY <2>7, <3>1
    <3>3. at' = at \/ at' = "undefined"
      BY <2>1, <2>2
    <3>4. at' = "unlink" <=> at = "unlink"
      BY <2>1, <2>2 DEF IInv, ListInv, Objects
    <3>5. CASE at \in {"wait", "gone", "undefined"}
      BY <3>3, <3>5
    <3> QED
      BY <3>1, <3>2, <3>4, <3>5
  <2>5. at' = "kill" => pid'[p'] = "own" /\ p' \notin freed'
    BY <2>1, <2>2, <2>3 DEF IInv, ListInv, Null, PidInv, Kids
  <2>6. ~hit'
    BY <2>1 DEF IInv, PidInv
  <2> QED
    BY <2>4, <2>5, <2>6
<1> QED
  BY <1>1, <1>2, <1>3, <1>4, <1>5, <1>6, <1>7, <1>8 DEF IInv, ListInv

\* A step that changes nothing keeps the invariant.
LEMMA StepStutter ==
  ASSUME IInv, chld' \in BOOLEAN,
         UNCHANGED <<at, why, p, saved, kid, term, list, next, pid, kill_child, freed, scope, hit, early>>
  PROVE  IInv'
<1> USE ForkAssumption
<1>1. ForkType'
  BY DEF IInv, ListInv, ForkType, Working, Null, Kids
<1>2. Ordered'
  BY DEF IInv, ListInv, Ordered, Ahead, PidInv, Forked, Null, Kids
<1>3. Pointers'
  BY DEF IInv, ListInv, Pointers, Ahead, PidInv, Forked, Null, Kids
<1>4. Objects'
  BY DEF IInv, ListInv, Objects, Ahead, PidInv, Live, Forked, Null, Kids
<1>5. NoneSkipped'
  BY DEF IInv, ListInv, NoneSkipped, Ahead, PidInv, Live, Forked, Entering, Null, Kids
<1>6. Ahead'
  BY DEF IInv, ListInv, Ahead, PidInv, Working, Live, Null, Kids
<1>7. Phases'
  BY DEF IInv, ListInv, Ahead, Phases, PidInv, Working, Null, Kids
<1>8. PidInv'
  BY DEF IInv, ListInv, Ahead, PidInv, Live, Null, Kids
<1> QED
  BY <1>1, <1>2, <1>3, <1>4, <1>5, <1>6, <1>7, <1>8 DEF IInv, ListInv

\* The list of children of every process that uses Fork, for any number of forks and
\* any order of signals, deaths and destructors (fork.C).
THEOREM ForkInvariant == ForkSpec => []IInv
<1>1. ForkInit => IInv
  <2> SUFFICES ASSUME ForkInit PROVE IInv
    OBVIOUS
  <2> USE ForkAssumption DEF ForkInit, ForkStart, Kids, Null
  <2>1. ForkType
    <3>1. /\ kid \in [Kids -> {"none", "runs", "doomed", "zombie", "reaped", "failed"}]
          /\ next \in [Kids -> 0..MaxForks] /\ pid \in [Kids -> {"own", "minus1"}]
      OBVIOUS
    <3>2. kill_child \in [Kids -> BOOLEAN]
      OBVIOUS
    <3>3. list = Null /\ p = Null /\ saved = Null /\ at = "program" /\ why = "no"
      OBVIOUS
    <3>4. /\ freed = {} /\ scope = {} /\ ~chld /\ ~term /\ ~hit /\ ~early
          /\ chld \in BOOLEAN /\ term \in BOOLEAN /\ hit \in BOOLEAN /\ early \in BOOLEAN
      OBVIOUS
    <3> HIDE DEF ForkInit, ForkStart
    <3> QED
      BY <3>1, <3>2, <3>3, <3>4 DEF ForkType, Working
  <2>2. Ordered /\ Pointers /\ Phases
    BY DEF Ordered, Pointers, Phases, Working
  <2>3. Objects /\ NoneSkipped /\ Ahead /\ PidInv
    BY DEF Objects, NoneSkipped, Ahead, PidInv, Live, Working
  <2> QED
    BY <2>1, <2>2, <2>3 DEF IInv, ListInv
<1>2. IInv /\ [ForkNext]_forkvars => IInv'
  <2> SUFFICES ASSUME IInv, [ForkNext]_forkvars PROVE IInv'
    OBVIOUS
  <2>1. CASE ForkWork
    BY <2>1, StepEnlist, Stepkillall, StepDelete, StepKillChild, Stepreap_child, StepUnlink,
       Stepwait, StepSuicideStep DEF ForkWork
  <2>2. CASE reaper_nohang
    <3>1. CASE \E c \in Kids : kid[c] = "zombie"
      <4>1. PICK c \in Kids : kid[c] = "zombie" /\ Reap(c)
        BY <2>2, <3>1 DEF reaper_nohang
      <4> QED
        BY <2>2, <4>1, StepReap DEF reaper_nohang
    <3>2. CASE ~\E c \in Kids : kid[c] = "zombie"
      <4> QED
        BY <2>2, <3>2, StepStutter DEF reaper_nohang
    <3> QED
      BY <3>1, <3>2
  <2>3. CASE commit_suicide
    BY <2>3, Stepcommit_suicide
  <2>4. CASE Exit
    BY <2>4, StepExit
  <2>5. ASSUME NEW c \in Kids, NEW kill \in BOOLEAN, ForkProcess(c, kill) PROVE IInv'
    BY <2>5, StepForkProcess
  <2>6. ASSUME NEW c \in Kids, LeaveScope(c) PROVE IInv'
    BY <2>6, StepLeaveScope
  <2>7. ASSUME NEW c \in Kids, Die(c) PROVE IInv'
    BY <2>7, StepDie
  <2>8. CASE UNCHANGED forkvars
    BY <2>8, StepStutter DEF forkvars, IInv, ListInv, ForkType
  <2> QED
    BY <2>1, <2>2, <2>3, <2>4, <2>5, <2>6, <2>7, <2>8 DEF ForkNext
<1> QED
  BY <1>1, <1>2, PTL DEF ForkSpec

\* A process that is gone leaves no live child, unless a signal came while the
\* constructor was at work (ForkDaemon, commit_suicide): for any number of forks.
THEOREM NoneLeftInvariant == ForkSpec => []NoneLeft
<1>1. IInv => NoneLeft
  BY DEF IInv, ListInv, ForkType, Ahead, NoneLeft, Live
<1> QED
  BY <1>1, ForkInvariant, PTL

\* Until a SIGTERM, no kill is aimed at a pid that is not one of the own children
\* (~ForkProcess, kill_child), unless a signal came while the constructor was at work:
\* for
\* any number of forks.
THEOREM OwnOnlyInvariant == ForkSpec => []OwnOnly
<1>1. IInv => OwnOnly
  BY DEF IInv, PidInv, OwnOnly
<1> QED
  BY <1>1, ForkInvariant, PTL
=============================================================================
