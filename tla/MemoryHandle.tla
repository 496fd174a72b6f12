---------------------------- MODULE MemoryHandle ----------------------------
(***************************************************************************)
(* The WholeGraph handles of one communicator whose ranks share a host:    *)
(* memory that the ranks allocate together, map into each other and free   *)
(* together, and the objects of the operating system this takes.           *)
(*                                                                         *)
(* As in Communicator, the ranks run one program, each at its own speed,   *)
(* and meet in collectives.  Host memory is a shared segment, found by a   *)
(* System V key or by a POSIX name; device memory is passed as file        *)
(* descriptors over sockets in the communicator's temporary directory;     *)
(* distributed memory is private.  Every handle takes its names from its   *)
(* id, which is reused once it is free, and the socket names are the same  *)
(* for all handles.                                                        *)
(***************************************************************************)
EXTENDS Integers, Sequences, FiniteSetsExt

CONSTANTS
  WorldSize,  \* number of ranks
  Pages,      \* number of pages of device memory
  Kind,       \* the kinds of memory, of "sysv", "posix", "device", "distributed"
  MaxOps      \* bound on the length of the program

ASSUME WorldSizeAssumption == WorldSize \in Nat \ {0}
ASSUME PagesAssumption     == Pages \in Nat \ {0}
ASSUME KindAssumption      == Kind \subseteq {"sysv", "posix", "device", "distributed"}
ASSUME MaxOpsAssumption    == MaxOps \in Nat

Rank == 0 .. WorldSize - 1
Op   == 1 .. MaxOps       \* a handle is known by the call that created it
None == 0

VARIABLES
  program,   \* the calls made so far by the rank furthest ahead
  live,      \* the handles program has created and not destroyed
  done,      \* done[r]: the call r has completed last
  pc,        \* what r does: "idle", the collective it waits in, or "aborted"
  current,   \* current[r]: the handle r creates or destroys
  sent,      \* sent[r]: the collectives r has entered, and what with
  wholegraph_map, \* wholegraph_map[r]: from handle ids to handles
  handle_id, \* handle_id[h][r]: the id r holds h under
  files,     \* the ids whose file for ftok exists
  shmKey,    \* System V segments: from the id behind the key to the handle
  shmName,   \* POSIX segments: from the id in the name to the handle
  opened,    \* opened[r]: the segment r has a descriptor of
  mapped,    \* mapped[h][r]: the segment r has mapped for h
  sockets,   \* sockets bound in the temporary directory: <<from, to>>
  inbox,     \* inbox[<<from, to>>]: the handles whose descriptors were sent
  local_alloc, \* local_alloc[h]: the ranks that hold their own part of h
  imported   \* imported[h][r]: the ranks whose part of h is mapped at r

program_vars == <<program, live, done>>
host_vars    == <<files, shmKey, shmName, opened, mapped>>
device_vars  == <<sockets, inbox, local_alloc, imported>>
vars == <<program, live, done, pc, current, sent, wholegraph_map, handle_id,
          files, shmKey, shmName, opened, mapped,
          sockets, inbox, local_alloc, imported>>

-----------------------------------------------------------------------------
Create(kind) == [op |-> "create", kind |-> kind]
Destroy(h)   == [op |-> "destroy", handle |-> h]
Close        == [op |-> "close"]    \* destroy_communicator

KindOf(h) == program[h].kind

Behind(r)   == done[r] < Len(program)
NextCall(r) == program[done[r] + 1]

\* Functions with a finite domain as maps.
Put(map, n, x) == [m \in DOMAIN map \cup {n} |-> IF m = n THEN x ELSE map[m]]
Drop(map, n)   == [m \in DOMAIN map \ {n} |-> map[m]]

\* Rank r enters the collective what, with something all ranks must agree on.
Enter(r, what, with) ==
  /\ pc'   = [pc EXCEPT ![r] = what]
  /\ sent' = [sent EXCEPT ![r] = Append(@, <<what, with>>)]

\* The collective r waits in has been entered by all ranks, and all of them mean
\* the same one.
AllEntered(r) == \A q \in Rank : Len(sent[q]) >= Len(sent[r])
AllSame(r)    == \A q \in Rank : sent[q][Len(sent[r])] = sent[r][Len(sent[r])]
Through(r, what) == pc[r] = what /\ AllEntered(r)

\* A failed WHOLEGRAPH_CHECK or WHOLEGRAPH_FATAL.
Abort(r) ==
  /\ pc' = [pc EXCEPT ![r] = "aborted"]
  /\ UNCHANGED <<program_vars, current, sent, wholegraph_map, handle_id, host_vars, device_vars>>

\* WG_COMM_CHECK_ALL_SAME found that the ranks mean different collectives.
Disagreement(r) ==
  pc[r] \notin {"idle", "closing", "aborted"} /\ AllEntered(r) /\ ~ AllSame(r)

\* The end of a call; of the destruction of one handle while all are destroyed.
Return(r) ==
  /\ pc'      = [pc EXCEPT ![r] = "idle"]
  /\ done'    = [done EXCEPT ![r] = @ + 1]
  /\ current' = [current EXCEPT ![r] = None]
  /\ UNCHANGED <<program, live, sent>>

HandleGone(r) ==
  IF NextCall(r).op = "destroy" THEN Return(r)
  ELSE /\ pc'      = [pc EXCEPT ![r] = "closing"]
       /\ current' = [current EXCEPT ![r] = None]
       /\ UNCHANGED <<program_vars, sent>>

\* The new handle is inserted and returned.
HandleMade(r) ==
  /\ wholegraph_map' =
       [wholegraph_map EXCEPT ![r] = Put(@, handle_id[current[r]][r], current[r])]
  /\ Return(r)

-----------------------------------------------------------------------------
\* The first rank to make the next call of the application decides what it is.
Issue(call) ==
  /\ Len(program) < MaxOps
  /\ \A k \in 1 .. Len(program) : program[k] # Close
  /\ \E r \in Rank : pc[r] = "idle" /\ ~ Behind(r)
  /\ program' = Append(program, call)
  /\ live' = CASE call.op = "create"  -> live \cup {Len(program) + 1}
               [] call.op = "destroy" -> live \ {call.handle}
               [] call.op = "close"   -> {}
  /\ UNCHANGED <<done, pc, current, sent, wholegraph_map, handle_id, host_vars, device_vars>>

\* create_wholegraph enters the negotiation of the handle id and the checks that
\* all ranks create the same memory.
StartCreate(r) ==
  /\ pc[r] = "idle" /\ Behind(r) /\ NextCall(r).op = "create"
  /\ current' = [current EXCEPT ![r] = done[r] + 1]
  /\ Enter(r, "create", NextCall(r).kind)
  /\ UNCHANGED <<program_vars, wholegraph_map, handle_id, host_vars, device_vars>>

\* The smallest id that is free at all ranks; see IdNegotiation.
FreeId(h) ==
  Min({n \in 0 .. MaxOps :
         \A q \in Rank : n \in DOMAIN wholegraph_map[q] => wholegraph_map[q][n] = h})

\* Every rank creates or truncates the file for ftok, and rank 0 the segment
\* (IPC_EXCL: it must not exist).
CreateSysV(r, h, id) ==
  /\ files' = files \cup {id}
  /\ IF r = 0
     THEN IF id \in DOMAIN shmKey
          THEN /\ pc' = [pc EXCEPT ![r] = "aborted"]
               /\ UNCHANGED <<sent, shmKey, opened>>
          ELSE /\ shmKey' = Put(shmKey, id, h)
               /\ opened' = [opened EXCEPT ![r] = h]
               /\ Enter(r, "created", None)
     ELSE /\ Enter(r, "created", None)
          /\ UNCHANGED <<shmKey, opened>>
  /\ UNCHANGED <<shmName, mapped, device_vars>>

\* Rank 0 creates the segment or opens the one that has the name (no O_EXCL).
CreatePosix(r, id, h) ==
  /\ IF r = 0
     THEN /\ shmName' = IF id \in DOMAIN shmName THEN shmName ELSE Put(shmName, id, h)
          /\ opened'  = [opened EXCEPT ![r] = shmName'[id]]
     ELSE UNCHANGED <<shmName, opened>>
  /\ Enter(r, "created", None)
  /\ UNCHANGED <<files, shmKey, mapped, device_vars>>

\* The ranks that get a page of device memory, which may be fewer than all.
FirstPage(r) == (r * Pages) \div WorldSize
Contributor  == {r \in Rank : FirstPage(r) < FirstPage(r + 1)}

\* Every rank allocates its pages, if any, and waits to open the sockets.
CreateDevice(r, h) ==
  /\ local_alloc' = [local_alloc EXCEPT ![h] = @ \cup (Contributor \cap {r})]
  /\ Enter(r, "sockets", None)
  /\ UNCHANGED <<host_vars, sockets, inbox, imported>>

\* The id is known; the memory is created by its kind.
Negotiated(r) ==
  /\ Through(r, "create")
  /\ LET h  == current[r]
         id == FreeId(h)
     IN  /\ handle_id' = [handle_id EXCEPT ![h][r] = id]
         /\ \/ /\ KindOf(h) = "sysv"
               /\ CreateSysV(r, h, id)
               /\ UNCHANGED <<program_vars, current, wholegraph_map>>
            \/ /\ KindOf(h) = "posix"
               /\ CreatePosix(r, id, h)
               /\ UNCHANGED <<program_vars, current, wholegraph_map>>
            \/ /\ KindOf(h) = "device"
               /\ CreateDevice(r, h)
               /\ UNCHANGED <<program_vars, current, wholegraph_map>>
            \/ /\ KindOf(h) = "distributed"
               /\ local_alloc' = [local_alloc EXCEPT ![h] = @ \cup {r}]
               /\ wholegraph_map' = [wholegraph_map EXCEPT ![r] = Put(@, id, h)]
               /\ Return(r)
               /\ UNCHANGED <<host_vars, sockets, inbox, imported>>

\* The other ranks look the segment up, by key or by name.
OpenSegment(r) ==
  /\ Through(r, "created")
  /\ LET h      == current[r]
         id     == handle_id[h][r]
         lookup == IF KindOf(h) = "sysv" THEN shmKey ELSE shmName
     IN  IF r # 0 /\ id \notin DOMAIN lookup
         THEN Abort(r)
         ELSE /\ opened' = [opened EXCEPT ![r] = IF r = 0 THEN @ ELSE lookup[id]]
              /\ Enter(r, "opened", None)
              /\ UNCHANGED <<program_vars, current, wholegraph_map, handle_id, files, shmKey,
                             shmName, mapped, device_vars>>

\* Mutant of MapSegment: nobody unlinks the POSIX name.
MapSegmentKeepsName(r) ==
  /\ Through(r, "opened")
  /\ mapped' = [mapped EXCEPT ![current[r]][r] = opened[r]]
  /\ opened' = [opened EXCEPT ![r] = None]
  /\ HandleMade(r)
  /\ UNCHANGED <<handle_id, files, shmKey, shmName, device_vars>>

\* All have it: rank 0 unlinks the POSIX name, and the segment is mapped.
MapSegment(r) ==
  /\ Through(r, "opened")
  /\ LET h  == current[r]
         id == handle_id[h][r]
     IN  /\ mapped'  = [mapped EXCEPT ![h][r] = opened[r]]
         /\ opened'  = [opened EXCEPT ![r] = None]
         /\ shmName' = IF KindOf(h) = "posix" /\ r = 0 THEN Drop(shmName, id) ELSE shmName
         /\ HandleMade(r)
  /\ UNCHANGED <<handle_id, files, shmKey, device_vars>>

-----------------------------------------------------------------------------
\* open_unix_domain_sockets: no rank binds before all are here.
OwnSockets(r) == {<<q, r>> : q \in Rank}

OpenSockets(r) ==
  /\ Through(r, "sockets")
  /\ IF OwnSockets(r) \cap sockets # {}
     THEN Abort(r)
     ELSE /\ sockets' = sockets \cup OwnSockets(r)
          /\ inbox'   = [s \in Rank \X Rank |-> IF s \in OwnSockets(r) THEN << >> ELSE inbox[s]]
          /\ Enter(r, "bound", None)
          /\ UNCHANGED <<program_vars, current, wholegraph_map, handle_id, host_vars,
                         local_alloc, imported>>

\* Mutant of SendHandles: a rank sends nothing to itself.
SendHandlesToOthers(r) ==
  /\ Through(r, "bound")
  /\ inbox' = [s \in Rank \X Rank |->
                 IF s[1] = r /\ r \in Contributor /\ s[2] # r THEN Append(inbox[s], current[r])
                 ELSE inbox[s]]
  /\ Enter(r, "sent", None)
  /\ UNCHANGED <<program_vars, current, wholegraph_map, handle_id, host_vars,
                 sockets, local_alloc, imported>>

\* exchange_driver_device_memory_handles: a rank with pages sends a descriptor to
\* every rank, which must have bound its socket; then each receives one from them.
SendHandles(r) ==
  /\ Through(r, "bound")
  /\ IF r \in Contributor /\ \E q \in Rank : <<r, q>> \notin sockets
     THEN Abort(r)
     ELSE /\ inbox' = [s \in Rank \X Rank |->
                         IF s[1] = r /\ r \in Contributor THEN Append(inbox[s], current[r])
                         ELSE inbox[s]]
          /\ Enter(r, "sent", None)
          /\ UNCHANGED <<program_vars, current, wholegraph_map, handle_id, host_vars,
                         sockets, local_alloc, imported>>

\* A receive blocks while the socket is empty; what comes is taken to be the
\* memory of the sender for the handle r creates.
ReceiveHandles(r) ==
  /\ Through(r, "sent")
  /\ \A q \in Contributor : inbox[<<q, r>>] # << >>
  /\ inbox' = [s \in Rank \X Rank |-> IF s[1] \in Contributor /\ s[2] = r THEN Tail(inbox[s])
                                      ELSE inbox[s]]
  /\ imported' = [imported EXCEPT ![current[r]][r] =
                    {q \in Contributor : Head(inbox[<<q, r>>]) = current[r]}]
  /\ Enter(r, "received", None)
  /\ UNCHANGED <<program_vars, current, wholegraph_map, handle_id, host_vars, sockets, local_alloc>>

\* close_unix_domain_sockets, between barriers, and the mapping of the memory.
CloseSockets(r) ==
  /\ Through(r, "received")
  /\ IF ~ OwnSockets(r) \subseteq sockets
     THEN Abort(r)
     ELSE /\ sockets' = sockets \ OwnSockets(r)
          /\ Enter(r, "closed", None)
          /\ UNCHANGED <<program_vars, current, wholegraph_map, handle_id, host_vars,
                         inbox, local_alloc, imported>>

DeviceMemoryReady(r) ==
  /\ Through(r, "closed")
  /\ HandleMade(r)
  /\ UNCHANGED <<handle_id, host_vars, device_vars>>

-----------------------------------------------------------------------------
\* destroy_wholegraph_with_comm_locked: a handle that is not in the map is
\* refused; for another one r enters the checks that all ranks destroy it.
StartDestroy(r, h) ==
  IF handle_id[h][r] \notin DOMAIN wholegraph_map[r]
  THEN Return(r)
  ELSE /\ current' = [current EXCEPT ![r] = h]
       /\ Enter(r, "destroy", handle_id[h][r])
       /\ UNCHANGED program_vars

DestroyOne(r) ==
  /\ pc[r] = "idle" /\ Behind(r) /\ NextCall(r).op = "destroy"
  /\ StartDestroy(r, NextCall(r).handle)
  /\ UNCHANGED <<wholegraph_map, handle_id, host_vars, device_vars>>

\* The handle leaves the map and its memory is given up by its kind.  Host memory
\* is unmapped, for which a System V segment must still be found by its key.
Erase(r) ==
  /\ Through(r, "destroy")
  /\ LET h  == current[r]
         id == handle_id[h][r]
     IN  /\ wholegraph_map' = [wholegraph_map EXCEPT ![r] = Drop(@, id)]
         /\ \/ /\ KindOf(h) \in {"sysv", "posix"}
               /\ IF KindOf(h) = "sysv" /\ ~ (id \in files /\ id \in DOMAIN shmKey)
                  THEN pc' = [pc EXCEPT ![r] = "aborted"] /\ UNCHANGED <<sent, mapped>>
                  ELSE mapped' = [mapped EXCEPT ![h][r] = None] /\ Enter(r, "unmapped", None)
               /\ UNCHANGED <<program_vars, current, device_vars>>
            \/ /\ KindOf(h) = "device"
               /\ Enter(r, "erased", None)
               /\ UNCHANGED <<program_vars, current, mapped, device_vars>>
            \/ /\ KindOf(h) = "distributed"
               /\ local_alloc' = [local_alloc EXCEPT ![h] = @ \ {r}]
               /\ HandleGone(r)
               /\ UNCHANGED <<mapped, sockets, inbox, imported>>
  /\ UNCHANGED <<handle_id, files, shmKey, shmName, opened>>

\* Mutant of RemoveSegment: nobody removes the System V segment and its file.
RemoveSegmentForgotten(r) ==
  /\ Through(r, "unmapped")
  /\ Enter(r, "removed", None)
  /\ UNCHANGED <<program_vars, current, wholegraph_map, handle_id, host_vars, device_vars>>

\* All ranks have unmapped the host memory: rank 0 removes the System V segment
\* and its file.
RemoveSegment(r) ==
  /\ Through(r, "unmapped")
  /\ LET id == handle_id[current[r]][r]
     IN  IF r = 0 /\ KindOf(current[r]) = "sysv"
         THEN shmKey' = Drop(shmKey, id) /\ files' = files \ {id}
         ELSE UNCHANGED <<shmKey, files>>
  /\ Enter(r, "removed", None)
  /\ UNCHANGED <<program_vars, current, wholegraph_map, handle_id, shmName, opened, mapped,
                 device_vars>>

\* Device memory: the parts of all ranks are unmapped, then the own one released.
UnmapDevice(r) ==
  /\ Through(r, "erased")
  /\ imported' = [imported EXCEPT ![current[r]][r] = {}]
  /\ Enter(r, "unimported", None)
  /\ UNCHANGED <<program_vars, current, wholegraph_map, handle_id, host_vars, sockets, inbox,
                 local_alloc>>

\* Mutant of ReleaseDevice: without the barrier after unmapping.
ReleaseDeviceAtOnce(r) ==
  /\ pc[r] = "unimported"
  /\ local_alloc' = [local_alloc EXCEPT ![current[r]] = @ \ {r}]
  /\ Enter(r, "removed", None)
  /\ UNCHANGED <<program_vars, current, wholegraph_map, handle_id, host_vars, sockets, inbox,
                 imported>>

ReleaseDevice(r) ==
  /\ Through(r, "unimported")
  /\ local_alloc' = [local_alloc EXCEPT ![current[r]] = @ \ {r}]
  /\ Enter(r, "removed", None)
  /\ UNCHANGED <<program_vars, current, wholegraph_map, handle_id, host_vars, sockets, inbox,
                 imported>>

FinishDestroy(r) ==
  /\ Through(r, "removed")
  /\ HandleGone(r)
  /\ UNCHANGED <<wholegraph_map, handle_id, host_vars, device_vars>>

-----------------------------------------------------------------------------
\* destroy_communicator: all ranks check that they have the same number of
\* handles and destroy them, each in the order of the ids; see Communicator for
\* what it does besides.
StartClose(r) ==
  /\ pc[r] = "idle" /\ Behind(r) /\ NextCall(r).op = "close"
  /\ Enter(r, "destroy_all", Cardinality(DOMAIN wholegraph_map[r]))
  /\ UNCHANGED <<program_vars, current, wholegraph_map, handle_id, host_vars, device_vars>>

Closing(r) == pc[r] = "closing" \/ Through(r, "destroy_all")

CloseNext(r) ==
  /\ Closing(r) /\ DOMAIN wholegraph_map[r] # {}
  /\ StartDestroy(r, wholegraph_map[r][Min(DOMAIN wholegraph_map[r])])
  /\ UNCHANGED <<wholegraph_map, handle_id, host_vars, device_vars>>

CloseEmpty(r) ==
  /\ Closing(r) /\ DOMAIN wholegraph_map[r] = {}
  /\ Enter(r, "destroy_comm", None)
  /\ UNCHANGED <<program_vars, current, wholegraph_map, handle_id, host_vars, device_vars>>

\* Rank 0 removes the temporary directory, which must be empty.
Closed(r) ==
  /\ Through(r, "destroy_comm")
  /\ IF r = 0 /\ sockets # {}
     THEN Abort(r)
     ELSE Return(r) /\ UNCHANGED <<wholegraph_map, handle_id, host_vars, device_vars>>

Init ==
  /\ program = << >> /\ live = {} /\ done = [r \in Rank |-> 0]
  /\ pc      = [r \in Rank |-> "idle"]
  /\ current = [r \in Rank |-> None]
  /\ sent    = [r \in Rank |-> << >>]
  /\ wholegraph_map = [r \in Rank |-> << >>]
  /\ handle_id = [h \in Op |-> [r \in Rank |-> 0]]
  /\ files = {} /\ shmKey = << >> /\ shmName = << >>
  /\ opened  = [r \in Rank |-> None]
  /\ mapped  = [h \in Op |-> [r \in Rank |-> None]]
  /\ sockets = {} /\ inbox = [s \in Rank \X Rank |-> << >>]
  /\ local_alloc = [h \in Op |-> {}]
  /\ imported    = [h \in Op |-> [r \in Rank |-> {}]]

AllDone == \A r \in Rank : pc[r] = "idle" /\ ~ Behind(r)

\* The program has ended and every rank has run it.
Finished ==
  /\ Len(program) = MaxOps \/ \E k \in 1 .. Len(program) : program[k] = Close
  /\ AllDone
  /\ UNCHANGED vars

Step(r) ==
  IF Disagreement(r) THEN Abort(r)
  ELSE \/ StartCreate(r)    \/ Negotiated(r)    \/ OpenSegment(r)  \/ MapSegment(r)
       \/ OpenSockets(r)    \/ SendHandles(r)   \/ ReceiveHandles(r) \/ CloseSockets(r)
       \/ DeviceMemoryReady(r)
       \/ DestroyOne(r)     \/ Erase(r)         \/ RemoveSegment(r)
       \/ UnmapDevice(r)    \/ ReleaseDevice(r) \/ FinishDestroy(r)
       \/ StartClose(r)     \/ CloseNext(r)     \/ CloseEmpty(r)   \/ Closed(r)

Next ==
  \/ \E kind \in Kind : Issue(Create(kind))
  \/ \E h \in live : Issue(Destroy(h))
  \/ Issue(Close)
  \/ \E r \in Rank : Step(r)
  \/ Finished

Spec == Init /\ [][Next]_vars

\* Ranks keep running: one that can go on does so.
FairSpec == Spec /\ \A r \in Rank : WF_vars(Step(r))

-----------------------------------------------------------------------------
\* No check of the code fails: a new segment has a new key, the other ranks and
\* the destruction find it, sockets are bound before anything is sent to them and
\* removed before they are bound again and before the directory is, and ranks
\* that meet in a collective mean the same one.
NoAbort == \A r \in Rank : pc[r] # "aborted"

\* A handle that create_wholegraph returned at a rank can be used there until that
\* rank destroys it, however far the other ranks are in creating or destroying it
\* or others: it maps its own memory and none of an earlier handle of that id.
UsableWhileHeld ==
  \A r \in Rank : \A n \in DOMAIN wholegraph_map[r] :
    LET h == wholegraph_map[r][n]
    IN  current[r] # h =>
          CASE KindOf(h) = "sysv"        -> mapped[h][r] = h /\ n \in files /\ shmKey[n] = h
            [] KindOf(h) = "posix"       -> mapped[h][r] = h
            [] KindOf(h) = "device"      -> imported[h][r] = Contributor
                                             /\ local_alloc[h] = Contributor
            [] KindOf(h) = "distributed" -> r \in local_alloc[h]

\* Memory is given back only after every rank has unmapped it: the barriers of
\* the destruction are where they are needed.
ReleasedLast ==
  \A h \in Op, r \in Rank :
    /\ imported[h][r] \subseteq local_alloc[h]
    /\ mapped[h][r] # None /\ KindOf(h) = "sysv" =>
         handle_id[h][r] \in DOMAIN shmKey /\ shmKey[handle_id[h][r]] = h

\* When no call is under way, the ranks hold the same handles under the same ids,
\* and the files, segments, sockets and allocations that exist are those of these
\* handles: nothing is leaked and no POSIX name outlives the creation.
NothingLeft ==
  AllDone =>
    LET ids(kind) == {handle_id[h][0] : h \in {g \in live : KindOf(g) = kind}}
    IN  /\ \A r \in Rank :
             /\ {wholegraph_map[r][n] : n \in DOMAIN wholegraph_map[r]} = live
             /\ \A h \in live : handle_id[h][r] = handle_id[h][0]
                               /\ wholegraph_map[r][handle_id[h][r]] = h
        /\ files = ids("sysv") /\ DOMAIN shmKey = ids("sysv") /\ DOMAIN shmName = {}
        /\ sockets = {} /\ \A s \in Rank \X Rank : inbox[s] = << >>
        /\ \A h \in Op, r \in Rank :
             /\ mapped[h][r] # None => h \in live /\ KindOf(h) \in {"sysv", "posix"}
             /\ local_alloc[h] # {} => h \in live /\ KindOf(h) \in {"device", "distributed"}

\* Every call returns at every rank: no rank waits in a barrier another one does
\* not come to, nor for a descriptor nobody sends.
CallsReturn == []<>AllDone
=============================================================================
