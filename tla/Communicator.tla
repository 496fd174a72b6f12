---------------------------- MODULE Communicator ----------------------------
(***************************************************************************)
(* The communicators of a group of processes: creation from a unique id,   *)
(* splitting, destruction of one and of all of them.                       *)
(*                                                                         *)
(* The application is one program that all processes run: each process     *)
(* makes the calls that concern it in program order, at its own speed, and *)
(* every call is a sequence of collectives among the members of one        *)
(* communicator.  A process holds comm_mu during each of these calls, so   *)
(* it waits in one collective at a time.  Every process keeps a            *)
(* communicator_map; on each host the first member of a communicator keeps *)
(* a temporary directory for it, named after the id of the communicator    *)
(* and the pid of that member.                                             *)
(*                                                                         *)
(* The id is chosen in one step at each member, as LeastFreeIdChoice says; *)
(* IdNegotiation shows that the negotiation loop does that.  Collectives   *)
(* with no local effect between them are one.                              *)
(***************************************************************************)
EXTENDS Integers, Sequences, FiniteSetsExt

CONSTANTS
  Process,   \* the processes, in the order of their ranks (naturals)
  HostOf,    \* HostOf[p]: the host p runs on
  Groups,    \* the sets of processes communicators are created for, none empty
  Color,     \* the colors of a split: naturals, 0 among them
  NoColor,   \* WHOLEGRAPH_SPLIT_NOCOLOR: the process joins no group
  MaxOps     \* bound on the length of the program

ASSUME ProcessAssumption == Process \subseteq Nat /\ Groups \subseteq (SUBSET Process) \ {{}}
ASSUME ColorAssumption   == Color \subseteq Nat /\ 0 \in Color /\ NoColor \notin Color
ASSUME MaxOpsAssumption  == MaxOps \in Nat

\* A communicator is known by the call that created it and its color there.
Comm   == (1 .. MaxOps) \X Color
NoComm == <<0, 0>>

VARIABLES
  program,   \* the calls made so far by the process furthest ahead
  live,      \* the communicators program has created and not destroyed
  done,      \* done[p]: the call of program p has completed last
  pc,        \* what p does: "idle" between calls, "joining" inside
             \*   ncclCommInitRank or ncclCommSplit, "negotiating" its id,
             \*   "settling" once it has the id, "destroying", or "aborted"
  comm,      \* comm[p]: the communicator p works on
  sent,      \* sent[c][p]: the collectives of c that p has entered
  comm_id,   \* comm_id[c][p]: the id p holds c under
  communicator_map, \* communicator_map[p]: from ids to communicators
  dirs       \* the temporary directories that exist

vars == <<program, live, done, pc, comm, sent, comm_id, communicator_map, dirs>>

-----------------------------------------------------------------------------
\* The calls an application makes.
Create(group)       == [op |-> "create", group |-> group]
Split(parent, plan) == [op |-> "split", parent |-> parent, plan |-> plan]
Destroy(c)          == [op |-> "destroy", comm |-> c]
DestroyAll          == [op |-> "destroy_all"]

\* The processes in communicator c, and the communicators call k creates.
Members(c) ==
  LET call == program[c[1]]
  IN  IF call.op = "create" THEN call.group
      ELSE {p \in DOMAIN call.plan : call.plan[p] = c[2]}

Created(k, call) ==
  CASE call.op = "create" -> {<<k, 0>>}
    [] call.op = "split"  -> {<<k, call.plan[p]>> : p \in {q \in DOMAIN call.plan :
                                                            call.plan[q] # NoColor}}
    [] OTHER              -> {}

\* The processes that make a call, and the calls p has still to make.
Party(call) ==
  CASE call.op = "create"      -> call.group
    [] call.op = "split"       -> DOMAIN call.plan
    [] call.op = "destroy"     -> Members(call.comm)
    [] call.op = "destroy_all" -> Process

Pending(p) == {k \in done[p] + 1 .. Len(program) : p \in Party(program[k])}
NextCall(p) == program[Min(Pending(p))]

-----------------------------------------------------------------------------
IsIntraNode(c) == \A p, q \in Members(c) : HostOf[p] = HostOf[q]

\* The member that stands for c on the host of p: intra_node_rank 0.
FirstOnHost(c, p) == Min({q \in Members(c) : HostOf[q] = HostOf[p]})

\* Mutant of DirName: the pid is left out of the name.
DirNameWithoutPid(c, p, n) == <<HostOf[p], n, 0>>

\* The names of c, under id n, on the host of p: its temporary directory and the
\* prefix of its shared memory segments.
DirName(c, p, n) == <<HostOf[p], n, FirstOnHost(c, p)>>

\* p creates the temporary directory of c and removes it.
KeepsDir(c, p) == IsIntraNode(c) /\ FirstOnHost(c, p) = p

\* Mutant of FreeId: the members' maps are not consulted.
FreeIdOfProcess(c, p) ==
  Min({n \in 0 .. MaxOps : n \notin DOMAIN communicator_map[p]})

\* The smallest id that is free at all members.  One that has already entered c
\* in its map under this id does not make it unavailable.
FreeId(c, p) ==
  Min({n \in 0 .. MaxOps :
         \A q \in Members(c) : n \in DOMAIN communicator_map[q]
                                 => communicator_map[q][n] = c})

\* p enters a collective of c.
Enter(c, p, what) == sent' = [sent EXCEPT ![c][p] = Append(@, what)]

\* The collective of comm[p] that p is in has been entered by all members, who
\* mean the same one (WG_COMM_CHECK_ALL_SAME).
AllEntered(p) ==
  \A q \in Members(comm[p]) : Len(sent[comm[p]][q]) >= Len(sent[comm[p]][p])

AllSame(p) ==
  LET n == Len(sent[comm[p]][p])
  IN  \A q \in Members(comm[p]) : sent[comm[p]][q][n] = sent[comm[p]][p][n]

\* WHOLEGRAPH_CHECK and WHOLEGRAPH_FATAL end the process.
Abort(p) ==
  /\ pc' = [pc EXCEPT ![p] = "aborted"]
  /\ UNCHANGED <<program, live, done, comm, sent, comm_id, communicator_map, dirs>>

\* WG_COMM_CHECK_ALL_SAME found that the members mean different collectives.
Disagreement(p) ==
  /\ pc[p] \in {"joining", "negotiating", "settling", "destroying"}
  /\ AllEntered(p) /\ ~ AllSame(p)

\* p returns from the call it is in.
Return(p) ==
  /\ done' = [done EXCEPT ![p] = Min(Pending(p))]
  /\ pc'   = [pc EXCEPT ![p] = "idle"]
  /\ comm' = [comm EXCEPT ![p] = NoComm]

-----------------------------------------------------------------------------
\* The first process to make the next call of the application decides what it
\* is; it may only name communicators that exist at that point of the program.
Issue(call) ==
  /\ Len(program) < MaxOps
  /\ \E p \in Party(call) : pc[p] = "idle" /\ Pending(p) = {}
  /\ program' = Append(program, call)
  /\ live' = CASE call.op = "destroy"     -> live \ {call.comm}
               [] call.op = "destroy_all" -> {}
               [] OTHER                   -> live \cup Created(Len(program) + 1, call)
  /\ UNCHANGED <<done, pc, comm, sent, comm_id, communicator_map, dirs>>

\* create_communicator and split_communicator: p enters ncclCommInitRank of the
\* new communicator, or ncclCommSplit of the parent.
Join(p) ==
  /\ pc[p] = "idle" /\ Pending(p) # {}
  /\ NextCall(p).op \in {"create", "split"}
  /\ LET c == IF NextCall(p).op = "create" THEN <<Min(Pending(p)), 0>> ELSE NextCall(p).parent
     IN  /\ comm' = [comm EXCEPT ![p] = c]
         /\ Enter(c, p, NextCall(p).op)
  /\ pc' = [pc EXCEPT ![p] = "joining"]
  /\ UNCHANGED <<program, live, done, comm_id, communicator_map, dirs>>

\* NCCL returns the new communicator, or none to a process without a color.
\* The former enters the negotiation of the id.
Joined(p) ==
  /\ pc[p] = "joining" /\ AllEntered(p)
  /\ LET color == IF NextCall(p).op = "create" THEN 0 ELSE NextCall(p).plan[p]
         c     == <<Min(Pending(p)), color>>
     IN  IF color = NoColor
         THEN Return(p) /\ UNCHANGED sent
         ELSE /\ comm' = [comm EXCEPT ![p] = c]
              /\ Enter(c, p, "exchange_id")
              /\ pc' = [pc EXCEPT ![p] = "negotiating"]
              /\ UNCHANGED done
  /\ UNCHANGED <<program, live, comm_id, communicator_map, dirs>>

\* insert() of the C++ map: an occupied key keeps its value.
Insert(map, n, c) ==
  [m \in DOMAIN map \cup {n} |-> IF m \in DOMAIN map THEN map[m] ELSE c]

\* p has the id, inserts the communicator in its map, creates the temporary
\* directory if that is its task, which must not exist, and enters the
\* collectives that end the call: the one that announces the directory and the
\* exchange of the allocation granularity.
Negotiated(p) ==
  /\ pc[p] = "negotiating" /\ AllEntered(p)
  /\ LET c   == comm[p]
         n   == FreeId(c, p)
         dir == DirName(c, p, n)
     IN  /\ comm_id' = [comm_id EXCEPT ![c][p] = n]
         /\ communicator_map' = [communicator_map EXCEPT ![p] = Insert(@, n, c)]
         /\ IF KeepsDir(c, p)
            THEN /\ dirs' = dirs \cup {dir}
                 /\ pc'   = [pc EXCEPT ![p] = IF dir \in dirs THEN "aborted" ELSE "settling"]
            ELSE /\ pc'   = [pc EXCEPT ![p] = "settling"]
                 /\ UNCHANGED dirs
         /\ Enter(c, p, "granularity")
  /\ UNCHANGED <<program, live, done, comm>>

Settled(p) ==
  /\ pc[p] = "settling" /\ AllEntered(p)
  /\ Return(p)
  /\ UNCHANGED <<program, live, sent, comm_id, communicator_map, dirs>>

\* destroy_communicator_locked of c: a communicator that is not in the map is
\* refused, for another one p enters the collectives before its destruction.
StartDestroy(p, c) ==
  IF comm_id[c][p] \notin DOMAIN communicator_map[p]
  THEN /\ Return(p)
       /\ UNCHANGED <<program, live, sent, comm_id, communicator_map, dirs>>
  ELSE /\ comm' = [comm EXCEPT ![p] = c]
       /\ pc'   = [pc EXCEPT ![p] = "destroying"]
       /\ Enter(c, p, "destroy_comm")
       /\ UNCHANGED <<program, live, done, comm_id, communicator_map, dirs>>

DestroyOne(p) ==
  /\ pc[p] = "idle" /\ Pending(p) # {}
  /\ NextCall(p).op = "destroy"
  /\ StartDestroy(p, NextCall(p).comm)

\* Mutant of NextToDestroy: an order that differs between processes.
NextToDestroyOwnOrder(p) ==
  LET ids == DOMAIN communicator_map[p]
  IN  IF p = Min(Process) THEN Min(ids) ELSE Max(ids)

\* communicator_map.begin()
NextToDestroy(p) == Min(DOMAIN communicator_map[p])

\* destroy_all_communicators: the communicators of p, one after the other.
DestroyNext(p) ==
  /\ pc[p] = "idle" /\ Pending(p) # {}
  /\ NextCall(p).op = "destroy_all"
  /\ IF DOMAIN communicator_map[p] = {}
     THEN /\ Return(p)
          /\ UNCHANGED <<program, live, sent, comm_id, communicator_map, dirs>>
     ELSE StartDestroy(p, communicator_map[p][NextToDestroy(p)])

\* Mutant of DirsWithout: the directory stays.
DirsKept(dir) == dirs

\* rmdir of a temporary directory.
DirsWithout(dir) == dirs \ {dir}

\* The members agree to destroy the communicator: p forgets it, and the process
\* that created the temporary directory removes it, which must exist.
Destroyed(p) ==
  /\ pc[p] = "destroying" /\ AllEntered(p)
  /\ LET c   == comm[p]
         map == communicator_map[p]
         dir == DirName(c, p, comm_id[c][p])
     IN  /\ communicator_map' =
              [communicator_map EXCEPT
                 ![p] = [n \in DOMAIN map \ {comm_id[c][p]} |-> map[n]]]
         /\ IF KeepsDir(c, p) /\ dir \notin dirs
            THEN /\ pc' = [pc EXCEPT ![p] = "aborted"]
                 /\ UNCHANGED <<done, comm, dirs>>
            ELSE /\ dirs' = IF KeepsDir(c, p) THEN DirsWithout(dir) ELSE dirs
                 /\ IF NextCall(p).op = "destroy" THEN Return(p)
                    ELSE /\ pc'   = [pc EXCEPT ![p] = "idle"]
                         /\ comm' = [comm EXCEPT ![p] = NoComm]
                         /\ UNCHANGED done
  /\ UNCHANGED <<program, live, sent, comm_id>>

Init ==
  /\ program = << >>
  /\ live    = {}
  /\ done    = [p \in Process |-> 0]
  /\ pc      = [p \in Process |-> "idle"]
  /\ comm    = [p \in Process |-> NoComm]
  /\ sent    = [c \in Comm |-> [p \in Process |-> << >>]]
  /\ comm_id = [c \in Comm |-> [p \in Process |-> 0]]
  /\ communicator_map = [p \in Process |-> << >>]
  /\ dirs    = {}

\* The program has ended and every process has run it.
Finished ==
  /\ Len(program) = MaxOps
  /\ \A p \in Process : pc[p] = "idle" /\ Pending(p) = {}
  /\ UNCHANGED vars

Step(p) ==
  IF Disagreement(p) THEN Abort(p)
  ELSE \/ Join(p) \/ Joined(p) \/ Negotiated(p) \/ Settled(p)
       \/ DestroyOne(p) \/ DestroyNext(p) \/ Destroyed(p)

Next ==
  \/ \E group \in Groups : Issue(Create(group))
  \/ \E c \in live : \E plan \in [Members(c) -> Color \cup {NoColor}] : Issue(Split(c, plan))
  \/ \E c \in live : Issue(Destroy(c))
  \/ Issue(DestroyAll)
  \/ \E p \in Process : Step(p)
  \/ Finished

Spec == Init /\ [][Next]_vars

\* Processes keep running: a call that can go on does so.
FairSpec == Spec /\ \A p \in Process : WF_vars(Step(p))

-----------------------------------------------------------------------------
Holds(p, c) == \E n \in DOMAIN communicator_map[p] : communicator_map[p][n] = c

\* Every communicator a process holds is in its map under the id all members
\* know it by, and two of them never share an id, although each call and each
\* member sees other maps: destroy_communicator finds what it is given.
MapsAgree ==
  \A p \in Process, c \in Comm :
    /\ \A n \in DOMAIN communicator_map[p] :
         communicator_map[p][n] = c =>
           /\ p \in Members(c)
           /\ \A q \in Members(c) : Holds(q, c) => comm_id[c][q] = n
    /\ comm[p] = c /\ pc[p] \in {"settling", "destroying"} => Holds(p, c)

\* No check fails: the directory of a new communicator does not exist yet, that
\* of a destroyed one still does, and processes that meet in a collective of a
\* communicator mean the same one.
NoAbort == \A p \in Process : pc[p] # "aborted"

\* When no call is under way, the directories are those of the communicators
\* that exist: none is leaked and none is missing.
DirsMatch ==
  (\A p \in Process : pc[p] = "idle" /\ Pending(p) = {}) =>
    dirs = {DirName(d[1], d[2], comm_id[d[1]][d[2]]) :
              d \in {e \in live \X Process : e[2] \in Members(e[1]) /\ IsIntraNode(e[1])}}

\* Every call returns: no process waits forever for one that waits for it in
\* another communicator, also while all of them destroy all they have.
CallsReturn == \A p \in Process : []<>(pc[p] = "idle" /\ Pending(p) = {})
=============================================================================
