-------------------------------- MODULE Fork --------------------------------
(***************************************************************************)
(* Fork.C of socket++: a process that forks children, and its handlers of  *)
(* SIGCHLD, which reaps one child, and of SIGTERM, which it has installed  *)
(* with suicide_signal as echo.C does.  A handler may run between any two  *)
(* steps of the process, that of SIGCHLD also between two of the other.    *)
(*                                                                         *)
(* The ForkProcess of a child has the name of the child.  An object that   *)
(* has been deleted keeps what it holds, so a dangling pointer finds what  *)
(* was there last; one that is deleted twice is the end, "undefined".      *)
(* The handler of SIGCHLD, and taking an object out of the list, are one   *)
(* step each.  What a child does with its own copy of the list is not      *)
(* modelled.                                                               *)
(***************************************************************************)
EXTENDS Integers, FiniteSets

CONSTANT MaxForks    \* bound: the children are 1..MaxForks, forked in this order

ASSUME ForkAssumption == MaxForks \in Nat

Kids == 1..MaxForks
Null == 0

VARIABLES
  at,          \* what the process does next; "gone", "undefined"
  why,         \* "no", or what made it end: "exit", "suicide"; "both" for a SIGTERM
               \* while it exits
  p,           \* the object it works on: this, cur or p
  saved,       \* next in commit_suicide
  kid,         \* the state of each child: "none", "runs", "doomed" by a signal, "zombie",
               \* "reaped", or "failed" for a fork that did
  chld,        \* is SIGCHLD pending
  term,        \* has SIGTERM been sent, which is once at most
  list, next,  \* the list of ForkProcesses
  pid,         \* "own", that of the child; "minus1"
  kill_child,
  freed,       \* the objects that have been deleted
  scope,       \* the Forks that the program still has
  hit,         \* history: has a signal been sent to a process that is none of the children
  early        \* history: has a signal come between a fork and the entry in the list

forkvars == <<at, why, p, saved, kid, chld, term, list, next, pid, kill_child, freed, scope, hit,
              early>>
world == <<kid, chld, term>>
heap == <<list, next, pid, kill_child, freed, scope>>
past == <<hit, early>>

ForkStart(a) ==
  /\ at = a /\ why = "no" /\ p = Null /\ saved = Null
  /\ kid = [c \in Kids |-> "none"] /\ chld = FALSE /\ term = FALSE
  /\ list = Null /\ next = [c \in Kids |-> Null] /\ pid = [c \in Kids |-> "minus1"]
  /\ kill_child = [c \in Kids |-> FALSE] /\ freed = {} /\ scope = {}
  /\ hit = FALSE /\ early = FALSE

ForkInit == ForkStart("program")

\* The objects that a walk along the list comes to: they are in every set that the
\* list does not lead out of.
Walk == {c \in Kids : \A S \in SUBSET Kids :
          list \in S \cup {Null} /\ (\A d \in S : next[d] \in S \cup {Null}) => c \in S}

----------------------------------------------------------------------------
(* The program forks, and leaves the scopes of its Forks *)

\* The constructor up to the fork, which may fail: then nothing points to the object
\* but its Fork, whose destructor deletes it.
ForkProcess(c, kill) ==
  /\ at = "program" /\ kid[c] = "none" /\ \A d \in 1..(c - 1) : kid[d] # "none"
  /\ \/ /\ kid' = [kid EXCEPT ![c] = "runs"] /\ pid' = [pid EXCEPT ![c] = "own"]
        /\ kill_child' = [kill_child EXCEPT ![c] = kill]
        /\ p' = c /\ at' = "forked"
     \/ /\ kid' = [kid EXCEPT ![c] = "failed"]
        /\ UNCHANGED <<pid, kill_child, p, at>>
  /\ UNCHANGED <<why, saved, chld, term, list, next, freed, scope, past>>

\* next = list, and then list = this.
Enlist ==
  /\ \/ at = "forked" /\ at' = "linked" /\ next' = [next EXCEPT ![p] = list]
        /\ UNCHANGED <<list, scope>>
        /\ UNCHANGED p
     \/ at = "linked" /\ at' = "program" /\ list' = p /\ scope' = scope \cup {p}
        /\ p' = Null /\ UNCHANGED next
  /\ UNCHANGED <<why, saved, world, pid, kill_child, freed, past>>

\* ~Fork.
LeaveScope(c) ==
  /\ at = "program" /\ c \in scope
  /\ scope' = scope \ {c}
  /\ IF pid[c] = "minus1"
     THEN freed' = freed \cup {c} /\ at' = IF c \in freed THEN "undefined" ELSE at
     ELSE UNCHANGED <<freed, at>>
  /\ UNCHANGED <<why, p, saved, world, list, next, pid, kill_child, past>>

\* The program ends: the destructor of killall begins its loop.
Exit ==
  /\ at = "program" /\ at' = "killall" /\ why' = "exit" /\ p' = list
  /\ UNCHANGED <<saved, world, heap, past>>

----------------------------------------------------------------------------
(* The end of the process *)

\* A signal to the process that p->pid names, which may be every process.
Signal ==
  /\ kid' = IF pid[p] = "own" /\ kid[p] = "runs" THEN [kid EXCEPT ![p] = "doomed"] ELSE kid
  /\ hit' = (hit \/ pid[p] = "minus1" \/ kid[p] = "reaped")

\* The loop of ~KillForks.
killall ==
  /\ at = "killall"
  /\ IF p = Null THEN at' = "wait" /\ UNCHANGED p
     ELSE IF kill_child[p] THEN at' = "delete" /\ UNCHANGED p
     ELSE p' = next[p] /\ UNCHANGED at
  /\ UNCHANGED <<why, saved, world, heap, past>>

\* Back from the destructor; ~KillForks reads next only now.
Deleted ==
  /\ freed' = freed \cup {p}
  /\ IF why = "exit" THEN at' = "killall" /\ p' = next[p] ELSE at' = "suicide" /\ p' = saved

\* ~ForkProcess up to the kill.
Delete ==
  /\ at = "delete"
  /\ IF p \in freed THEN at' = "undefined" /\ UNCHANGED <<p, freed>>
     ELSE IF pid[p] = "minus1" THEN Deleted
     ELSE at' = (IF kill_child[p] THEN "kill" ELSE "reap") /\ UNCHANGED <<p, freed>>
  /\ UNCHANGED <<why, saved, world, list, next, pid, kill_child, scope, past>>

\* Mutant: no signal.
KillChild_none ==
  /\ at = "kill" /\ at' = "reap"
  /\ UNCHANGED <<why, p, saved, world, heap, past>>

KillChild ==
  /\ at = "kill" /\ at' = "reap"
  /\ Signal
  /\ UNCHANGED <<why, p, saved, chld, term, heap, early>>

\* reap_child waits for the child; one that has been reaped is an error at once.
reap_child ==
  /\ at = "reap" /\ kid[p] \in {"zombie", "reaped"}
  /\ kid' = [kid EXCEPT ![p] = "reaped"]
  /\ at' = "unlink"
  /\ UNCHANGED <<why, p, saved, chld, term, heap, past>>

Unlink ==
  /\ at = "unlink"
  /\ IF list = p THEN list' = next[p] /\ UNCHANGED next
     ELSE /\ next' = [c \in Kids |-> IF c \in Walk /\ next[c] = p THEN next[p] ELSE next[c]]
          /\ UNCHANGED list
  /\ Deleted
  /\ UNCHANGED <<why, saved, world, pid, kill_child, scope, past>>

\* Mutant: waits for one child.
wait_one ==
  /\ at = "wait"
  /\ \/ /\ list # Null /\ \E c \in Kids : kid[c] = "zombie" /\ kid' = [kid EXCEPT ![c] = "reaped"]
        /\ at' = "gone"
     \/ /\ list = Null \/ \A c \in Kids : kid[c] \notin {"runs", "doomed", "zombie"}
        /\ at' = "gone" /\ UNCHANGED kid
  /\ UNCHANGED <<why, p, saved, chld, term, heap, past>>

\* The second loop of ~KillForks: until the list is empty or there is no child.
wait ==
  /\ at = "wait"
  /\ \/ /\ list # Null /\ \E c \in Kids : kid[c] = "zombie" /\ kid' = [kid EXCEPT ![c] = "reaped"]
        /\ UNCHANGED at
     \/ /\ list = Null \/ \A c \in Kids : kid[c] \notin {"runs", "doomed", "zombie"}
        /\ at' = "gone" /\ UNCHANGED kid
  /\ UNCHANGED <<why, p, saved, chld, term, heap, past>>

----------------------------------------------------------------------------
(* Signals *)

Alive == at \notin {"gone", "undefined"}

\* A child ends: by itself, or by a signal.  What becomes of the children when the
\* process is no more is not followed.
Die(c) ==
  /\ Alive /\ kid[c] \in {"runs", "doomed"}
  /\ kid' = [kid EXCEPT ![c] = "zombie"]
  /\ chld' = TRUE
  /\ UNCHANGED <<at, why, p, saved, term, heap, past>>

\* Mutant: what has been reaped stays in the list.
Reap_listed(c) ==
  /\ kid' = [kid EXCEPT ![c] = "reaped"]
  /\ early' = (early \/ (at \in {"forked", "linked"} /\ c = p))
  /\ UNCHANGED <<at, list, next, pid, freed>>

\* The handler has reaped c: if c is in the list it goes out and is deleted, which
\* is once too often if that has been done or is being done.
Reap(c) ==
  /\ kid' = [kid EXCEPT ![c] = "reaped"]
  /\ early' = (early \/ (at \in {"forked", "linked"} /\ c = p))
  /\ IF c \in Walk /\ pid[c] = "own"
     THEN /\ pid' = [pid EXCEPT ![c] = "minus1"]
          /\ IF list = c THEN list' = next[c] /\ UNCHANGED next
             ELSE /\ next' = [d \in Kids |-> IF d \in Walk /\ next[d] = c THEN next[c] ELSE next[d]]
                  /\ UNCHANGED list
          /\ freed' = freed \cup {c}
          /\ at' = IF c \in freed \/ (at \in {"kill", "reap"} /\ c = p) THEN "undefined" ELSE at
     ELSE UNCHANGED <<at, list, next, pid, freed>>

\* However many children have died, the signal comes once and one is reaped.
reaper_nohang ==
  /\ chld /\ Alive
  /\ chld' = FALSE
  /\ IF \E c \in Kids : kid[c] = "zombie"
     THEN \E c \in Kids : kid[c] = "zombie" /\ Reap(c)
     ELSE UNCHANGED <<at, kid, list, next, pid, freed, early>>
  /\ UNCHANGED <<why, p, saved, term, kill_child, scope, hit>>

\* SIGTERM: what the process was doing is never finished.
commit_suicide ==
  /\ ~term /\ Alive
  /\ term' = TRUE /\ at' = "suicide" /\ p' = list
  /\ why' = IF why = "exit" THEN "both" ELSE "suicide"
  /\ early' = (early \/ at \in {"forked", "linked"})
  /\ UNCHANGED <<saved, kid, chld, heap, hit>>

\* A turn of its loop; then exit, which runs ~KillForks unless that has begun.
SuicideStep ==
  /\ at = "suicide"
  /\ IF p = Null
     THEN /\ IF why = "both" THEN at' = "gone" /\ UNCHANGED <<p, why>>
             ELSE at' = "killall" /\ p' = list /\ why' = "exit"
          /\ saved' = Null /\ UNCHANGED <<kid, hit>>
     ELSE /\ saved' = next[p] /\ at' = "delete" /\ UNCHANGED <<p, why>>
          /\ IF kill_child[p] THEN UNCHANGED <<kid, hit>> ELSE Signal
  /\ UNCHANGED <<chld, term, heap, early>>

ForkWork ==
  \/ Enlist \/ killall \/ Delete \/ KillChild \/ reap_child \/ Unlink \/ wait \/ SuicideStep

ForkNext ==
  \/ ForkWork \/ reaper_nohang \/ commit_suicide \/ Exit
  \/ \E c \in Kids : (\E kill \in BOOLEAN : ForkProcess(c, kill)) \/ LeaveScope(c) \/ Die(c)

ForkSpec == ForkInit /\ [][ForkNext]_forkvars

----------------------------------------------------------------------------
(* Properties *)

\* When the process has gone, by its end or by SIGTERM, no child of it is left,
\* running or as a zombie, however the deaths and the signals fell; but for a child
\* that was not yet in the list when a signal came.
NoneLeft ==
  at = "gone" /\ ~early => \A c \in Kids : kid[c] \in {"none", "failed", "reaped"}

\* No process but a child is ever sent a signal, unless a child has been reaped before it
\* was in the list, or the process has been sent SIGTERM.
OwnOnly == hit => early \/ term

\* A process that ends does end; it waits for no child but those that it was
\* not to kill.
Exits ==
  at # "program" /\ why # "no" ~>
    \/ at \in {"gone", "undefined"}
    \/ at = "wait" /\ \E c \in Kids : kid[c] = "runs" /\ ~kill_child[c]
=============================================================================
