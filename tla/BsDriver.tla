------------------------------ MODULE BsDriver ------------------------------
(***************************************************************************)
(* The kernel driver of the sign, driver/bs.c: a character device whose    *)
(* file position is a physical address inside the 2 KB of RAM on the card, *)
(* and whose ioctl drives the card's one-byte port register.               *)
(*                                                                         *)
(* A system call runs under the kernel lock, which is given up only while  *)
(* the call sleeps.  lseek, open, release and ioctl cannot sleep between   *)
(* two accesses to the state and are one action each.  bs_read and         *)
(* bs_write can: copy_to_user and copy_from_user sleep on a page fault.    *)
(* They are split there: what a call computed before the copy is kept in   *)
(* call[p], and any other process may run before the copy goes on.         *)
(*                                                                         *)
(* A byte of the port register is the set of its 1 bits, so that the C     *)
(* operators & and | are \cap and \cup.                                    *)
(***************************************************************************)
EXTENDS Integers, FiniteSets

CONSTANTS
  Files,      \* the open file objects of the kernel (struct file)
  Procs,      \* the processes
  Users,      \* Users[f]: the processes that hold a descriptor of file f
  Minors,     \* minor numbers of the device nodes that are opened
  MemSize,    \* BS_MEM_SIZE
  DefAddr,    \* DEF_BS_ADDR
  DefPort,    \* DEF_BS_PORT
  MemParams,  \* values of insmod's parameter mem=, 0 when it is absent
  IoParams,   \* values of insmod's parameter io=, 0 when it is absent
  Values,     \* bytes of the card's memory
  Offsets,    \* offsets the programs seek by: bank*512, never negative
  Counts,     \* byte counts the programs ask for
  Bytes       \* bytes handed to BSSETBANK or written to a port by wp

MemBase(mem) == IF mem = 0 THEN DefAddr ELSE mem
IoBase(io) == IF io = 0 THEN DefPort ELSE io
Ports == {IoBase(io) : io \in IoParams}
Addrs == UNION {MemBase(mem)..(MemBase(mem) + MemSize - 1) : mem \in MemParams}

ASSUME FilesAssumption ==
  /\ IsFiniteSet(Files)
  /\ Users \in [Files -> SUBSET Procs]

ASSUME CardAssumption ==
  /\ MemSize \in Nat \ {0}
  /\ DefAddr \in Nat /\ DefPort \in Nat
  /\ MemParams \subseteq Nat /\ IoParams \subseteq Nat
  /\ Values # {}

ASSUME ClientAssumption ==
  /\ Minors \subseteq Nat
  /\ Offsets \subseteq Nat /\ Counts \subseteq Nat
  /\ \A byte \in Bytes : byte \subseteq 0..7

VARIABLES
  loaded,    \* init_module has run, cleanup_module has not
  ioaddr,    \* the driver's variable of that name
  memaddr,   \* the driver's variable of that name
  useCount,  \* the module's use count
  open,      \* the files bs_open has opened and bs_release has not released
  f_pos,     \* f_pos[f]: struct file's f_pos
  call,      \* call[p]: the read or write process p is in the middle of
  ram,       \* the physical memory of the card
  port,      \* port[a]: the port register at I/O address a
  asked      \* history: the bank of the last BSSETBANK; NoBank before it, and after wp

vars == <<loaded, ioaddr, memaddr, useCount, open, f_pos, call, ram, port, asked>>

NoBank == {8}
BankBits == {0, 1}     \* the bits of the constant 3
Idle == [op |-> "idle"]
Transfers ==
  [op : {"read", "write"}, f : Files, at : Nat, count : Nat, done : Nat, byte : Values]
End == memaddr + MemSize
Busy(p) == call[p] # Idle

TypeOK ==
  /\ loaded \in BOOLEAN
  /\ ioaddr \in {0} \cup Ports
  /\ memaddr \in {0} \cup {MemBase(mem) : mem \in MemParams}
  /\ useCount \in Int
  /\ open \subseteq Files
  /\ f_pos \in [Files -> Nat]
  /\ call \in [Procs -> {Idle} \cup Transfers]
  /\ ram \in [Addrs -> Values]
  /\ port \in [Ports -> SUBSET (0..7)]
  /\ asked \in {NoBank} \cup SUBSET BankBits

Init ==
  /\ loaded = FALSE
  /\ ioaddr = 0 /\ memaddr = 0
  /\ useCount = 0
  /\ open = {}
  /\ f_pos = [f \in Files |-> 0]
  /\ call = [p \in Procs |-> Idle]
  /\ \E v \in Values : ram = [a \in Addrs |-> v]
  /\ port = [a \in Ports |-> {}]
  /\ asked = NoBank

----------------------------------------------------------------------------
(* Loading and unloading.  The kernel runs cleanup_module only while the   *)
(* use count is zero.                                                      *)

init_module(mem, io) ==
  /\ ~loaded
  /\ loaded' = TRUE
  /\ ioaddr' = IoBase(io)
  /\ memaddr' = MemBase(mem)
  /\ asked' = NoBank
  /\ UNCHANGED <<useCount, open, f_pos, call, ram, port>>

cleanup_module ==
  /\ loaded
  /\ useCount = 0
  /\ loaded' = FALSE
  /\ UNCHANGED <<ioaddr, memaddr, useCount, open, f_pos, call, ram, port, asked>>

----------------------------------------------------------------------------
(* Opening and releasing.  A node with minor > 0 is refused (-ENODEV) and  *)
(* nothing changes.                                                        *)

\* Mutant: MOD_INC_USE_COUNT before the minor number is looked at.
bs_open_countsRefused(f, minor) ==
  /\ loaded
  /\ f \notin open
  /\ useCount' = useCount + 1
  /\ open' = IF minor = 0 THEN open \cup {f} ELSE open
  /\ f_pos' = [f_pos EXCEPT ![f] = memaddr]
  /\ UNCHANGED <<loaded, ioaddr, memaddr, call, ram, port, asked>>

bs_open(f, minor) ==
  /\ loaded
  /\ f \notin open
  /\ minor = 0
  /\ useCount' = useCount + 1
  /\ open' = open \cup {f}
  /\ f_pos' = [f_pos EXCEPT ![f] = memaddr]
  /\ UNCHANGED <<loaded, ioaddr, memaddr, call, ram, port, asked>>

\* The last close of f; a process inside a call still holds the file.
bs_release(f) ==
  /\ f \in open
  /\ \A p \in Procs : Busy(p) => call[p].f # f
  /\ useCount' = useCount - 1
  /\ open' = open \ {f}
  /\ UNCHANGED <<loaded, ioaddr, memaddr, f_pos, call, ram, port, asked>>

----------------------------------------------------------------------------
(* System calls on an open file.  An operation that returns an error       *)
(* changes nothing and has no step.                                        *)

Calls(p, f) == f \in open /\ p \in Users[f] /\ ~Busy(p)

bs_lseek_set(p, f, offset) ==
  /\ Calls(p, f)
  /\ offset <= MemSize
  /\ f_pos' = [f_pos EXCEPT ![f] = offset + memaddr]
  /\ UNCHANGED <<loaded, ioaddr, memaddr, useCount, open, call, ram, port, asked>>

bs_lseek_cur(p, f, offset) ==
  /\ Calls(p, f)
  /\ f_pos[f] + offset <= End
  /\ f_pos' = [f_pos EXCEPT ![f] = @ + offset]
  /\ UNCHANGED <<loaded, ioaddr, memaddr, useCount, open, call, ram, port, asked>>

\* Mutant: the count of the caller as it is.
Clamped_not(pos, count) == count

\* The count a transfer from position pos is cut down to.
Clamped(pos, count) == IF count > End - pos THEN End - pos ELSE count

Transfer(op, f, count, byte) ==
  [op |-> op, f |-> f, at |-> f_pos[f], count |-> Clamped(f_pos[f], count),
   done |-> 0, byte |-> byte]

BeginTransfer(p, f, op, count, byte) ==
  /\ Calls(p, f)
  /\ f_pos[f] < End
  /\ call' = [call EXCEPT ![p] = Transfer(op, f, count, byte)]
  /\ UNCHANGED <<loaded, ioaddr, memaddr, useCount, open, f_pos, ram, port, asked>>

\* bs_read up to copy_to_user.  (A read stores nothing: its byte is unused.)
bs_read(p, f, count) ==
  BeginTransfer(p, f, "read", count, CHOOSE byte \in Values : TRUE)

\* bs_read after copy_to_user, whose result is never negative: the position
\* advances by the clamped count even when the copy stopped early.
bs_read_copied(p) ==
  /\ Busy(p) /\ call[p].op = "read"
  /\ f_pos' = [f_pos EXCEPT ![call[p].f] = @ + call[p].count]
  /\ call' = [call EXCEPT ![p] = Idle]
  /\ UNCHANGED <<loaded, ioaddr, memaddr, useCount, open, ram, port, asked>>

\* bs_write up to copy_from_user.
bs_write(p, f, count, byte) == BeginTransfer(p, f, "write", count, byte)

\* Mutant: one byte too many.
copy_from_user_oneMore(p) ==
  /\ Busy(p) /\ call[p].op = "write" /\ call[p].done <= call[p].count
  /\ ram' = [ram EXCEPT ![call[p].at + call[p].done] = call[p].byte]
  /\ call' = [call EXCEPT ![p].done = @ + 1]
  /\ UNCHANGED <<loaded, ioaddr, memaddr, useCount, open, f_pos, port, asked>>

\* copy_from_user stores one byte.
copy_from_user(p) ==
  /\ Busy(p) /\ call[p].op = "write" /\ call[p].done < call[p].count
  /\ ram' = [ram EXCEPT ![call[p].at + call[p].done] = call[p].byte]
  /\ call' = [call EXCEPT ![p].done = @ + 1]
  /\ UNCHANGED <<loaded, ioaddr, memaddr, useCount, open, f_pos, port, asked>>

\* copy_from_user has ended, after the last byte or at a page that cannot be
\* read; bs_write does not move the position.
bs_write_copied(p) ==
  /\ Busy(p) /\ call[p].op = "write"
  /\ call' = [call EXCEPT ![p] = Idle]
  /\ UNCHANGED <<loaded, ioaddr, memaddr, useCount, open, f_pos, ram, port, asked>>

\* BSSETBANK; BSRESET logs a line and every other command is -EINVAL.
bs_ioctl(p, f, newval) ==
  /\ Calls(p, f)
  /\ port' = [port EXCEPT ![ioaddr] = (newval \cap BankBits) \cup @]
  /\ asked' = newval \cap BankBits
  /\ UNCHANGED <<loaded, ioaddr, memaddr, useCount, open, f_pos, call, ram>>

\* wp.c: the superuser's tool that writes a byte to an I/O port directly.
wp(a, value) ==
  /\ port' = [port EXCEPT ![a] = value]
  /\ asked' = NoBank
  /\ UNCHANGED <<loaded, ioaddr, memaddr, useCount, open, f_pos, call, ram>>

----------------------------------------------------------------------------

SysCall(p, f) ==
  \/ \E offset \in Offsets : bs_lseek_set(p, f, offset) \/ bs_lseek_cur(p, f, offset)
  \/ \E count \in Counts :
       bs_read(p, f, count) \/ \E byte \in Values : bs_write(p, f, count, byte)
  \/ \E newval \in Bytes : bs_ioctl(p, f, newval)

Next ==
  \/ \E mem \in MemParams, io \in IoParams : init_module(mem, io)
  \/ cleanup_module
  \/ \E f \in Files, minor \in Minors : bs_open(f, minor)
  \/ \E f \in Files : bs_release(f)
  \/ \E p \in Procs, f \in Files : SysCall(p, f)
  \/ \E p \in Procs : bs_read_copied(p) \/ copy_from_user(p) \/ bs_write_copied(p)
  \/ \E a \in Ports, value \in Bytes : wp(a, value)

Spec == Init /\ [][Next]_vars

----------------------------------------------------------------------------
(* Safety properties *)

\* The module's use count is the number of open files, so the kernel cannot
\* unload the driver under one: bs_open counts only what it lets in, every
\* release undoes one open.
UseCountMatches ==
  /\ useCount = Cardinality(open)
  /\ open # {} => loaded

\* A read or write in flight stays inside the card's memory as it is mapped
\* now, whatever seeks, reads, releases and reloads happen while it sleeps in
\* the middle of its copy.
TransfersConfined ==
  \A p \in Procs : Busy(p) =>
    /\ loaded /\ call[p].f \in open
    /\ memaddr <= call[p].at
    /\ call[p].at + call[p].count <= End

\* The position of a file that a single process uses is an address of the
\* card or the address just behind it.  (Two processes that share a file can
\* break it: one seeks while the other's read sleeps before f_pos += read.)
PosInWindow ==
  \A f \in open :
    (\A p, q \in Users[f] : p = q) => f_pos[f] \in memaddr..End

\* Memory outside the window the module was loaded with is never written.
OnlyWindowWritten ==
  [][\A a \in Addrs : ram'[a] # ram[a] => a \in memaddr..(End - 1)]_vars

\* "set active memory page" (driver/bs.h:7): the page a BSSETBANK asked for is
\* the one in the register.  bs_ioctl ORs the page in and never clears a bit.
ActivePageSet ==
  asked # NoBank => port[ioaddr] \cap BankBits = asked

=============================================================================
