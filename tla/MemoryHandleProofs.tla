-------------------------- MODULE MemoryHandleProofs --------------------------
(***************************************************************************)
(* Proofs about the handles of a communicator, for any number of ranks,    *)
(* pages, kinds of memory and calls: no check of the code fails, a handle  *)
(* is usable while a rank holds it, memory is given back only when nobody  *)
(* maps it, and nothing is left over between calls.                        *)
(*                                                                         *)
(* The ranks run one program and meet in collectives, so that each is at   *)
(* most one collective ahead of any other.  InStep says so: where a rank   *)
(* is decides where the others can be.  All else follows from what each    *)
(* rank has done by itself: which objects of the operating system exist is *)
(* a function of where the rank is that creates and removes them.          *)
(*                                                                         *)
(* And about temporary memory, for any threads, operations and size        *)
(* classes: a kernel finds in a block what the kernel before it in its     *)
(* operation wrote, although the operation may have given the block back.  *)
(* Each block is with one operation or result, in one queue, or CUDA's     *)
(* again; kernels that share a block are on one stream or, when it is      *)
(* pinned, have run before the call that launched them gives it back.      *)
(***************************************************************************)
EXTENDS MemoryHandle, TempMemory, NaturalLemmas, FiniteSetTheorems

-----------------------------------------------------------------------------
\* The collectives in which the new handle has its id but is in no map yet, those in
\* which the old one has left the map, and all collectives.
Creating == {"created", "opened", "sockets", "bound", "sent", "received", "closed"}
Dropping == {"unmapped", "erased", "unimported", "removed"}
Ending   == {"destroy_all", "destroy_comm"}
Waiting  == Creating \cup Dropping \cup Ending \cup {"create", "destroy"}

HostKind == {"sysv", "posix"}

\* Where a rank is: all that decides what it does next.
Place(d, p, h, m) == [done |-> d, pc |-> p, current |-> h, map |-> m]
At(r) == Place(done[r], pc[r], current[r], wholegraph_map[r])

FreeIn(map)  == Min({n \in 0 .. MaxOps : n \notin DOMAIN map})
IdIn(map, h) == CHOOSE n \in DOMAIN map : map[n] = h

\* The last collective of a call of program p, or of the destruction of one handle.
Final(p, c) ==
  \/ c.pc \in {"opened", "closed", "removed", "destroy_comm"}
  \/ c.pc \in {"create", "destroy"} /\ p[c.current].kind = "distributed"

\* Where a rank is after such a collective, ...
Left(p, d, m) ==
  IF p[d + 1].op = "destroy" THEN Place(d + 1, "idle", None, m) ELSE Place(d, "closing", None, m)

Pass(p, c) ==
  CASE c.pc \in {"create", "opened", "closed"} ->
         Place(c.done + 1, "idle", None, Put(c.map, FreeIn(c.map), c.current))
    [] c.pc = "destroy"      -> Left(p, c.done, Drop(c.map, IdIn(c.map, c.current)))
    [] c.pc = "removed"      -> Left(p, c.done, c.map)
    [] c.pc = "destroy_comm" -> Place(c.done + 1, "idle", None, c.map)

\* ... when it enters the next one from outside of all, ...
CloseFrom(d, m) ==
  IF DOMAIN m = {} THEN Place(d, "destroy_comm", None, m)
  ELSE Place(d, "destroy", m[Min(DOMAIN m)], m)

Begin(p, c) ==
  IF c.pc = "idle"
  THEN LET call == p[c.done + 1]
       IN  CASE call.op = "create"  -> Place(c.done, "create", c.done + 1, c.map)
             [] call.op = "destroy" -> Place(c.done, "destroy", call.handle, c.map)
             [] OTHER               -> Place(c.done, "destroy_all", None, c.map)
  ELSE CloseFrom(c.done, c.map)

\* ... and when it enters the next one from this one.
Stage(p, host) ==
  CASE p = "create"     -> IF host THEN "created" ELSE "sockets"
    [] p = "created"    -> "opened"
    [] p = "sockets"    -> "bound"
    [] p = "bound"      -> "sent"
    [] p = "sent"       -> "received"
    [] p = "received"   -> "closed"
    [] p = "destroy"    -> IF host THEN "unmapped" ELSE "erased"
    [] p = "unmapped"   -> "removed"
    [] p = "erased"     -> "unimported"
    [] p = "unimported" -> "removed"

Go(p, c) ==
  IF Final(p, c) THEN Begin(p, Pass(p, c))
  ELSE IF c.pc = "destroy_all" THEN CloseFrom(c.done, c.map)
  ELSE Place(c.done, Stage(c.pc, p[c.current].kind \in HostKind), c.current,
             IF c.pc = "destroy" THEN Drop(c.map, IdIn(c.map, c.current)) ELSE c.map)

-----------------------------------------------------------------------------
Waits(r) == pc[r] \in Waiting
Count(r) == Len(sent[r])

\* How the places of two ranks are related that have entered as many collectives, or
\* q one more; no rank is further ahead.
Level(r, q) ==
  \/ (Waits(r) <=> Waits(q)) /\ At(q) = At(r)
  \/ Waits(r) /\ ~ Waits(q) /\ Final(program, At(r)) /\ At(q) = Pass(program, At(r))
  \/ Waits(q) /\ ~ Waits(r) /\ Final(program, At(q)) /\ At(r) = Pass(program, At(q))

Ahead(r, q) ==
  /\ Count(q) = Count(r) + 1 /\ Waits(q)
  /\ At(q) = IF Waits(r) THEN Go(program, At(r)) ELSE Begin(program, At(r))

InStep ==
  \A r, q \in Rank :
    /\ Count(q) = Count(r) => Level(r, q)
    /\ Count(q) > Count(r) => Ahead(r, q)

\* What a rank enters a collective with.
Token(p, c) ==
  <<c.pc, CASE c.pc = "create"      -> p[c.current].kind
            [] c.pc = "destroy"     -> IdIn(c.map, c.current)
            [] c.pc = "destroy_all" -> Cardinality(DOMAIN c.map)
            [] OTHER                -> None>>

\* Ranks mean the same collectives, and a rank the one it waits in.
SameSent ==
  /\ sent \in [Rank -> Seq(Waiting \X (Kind \cup Nat))]
  /\ \A r \in Rank :
       /\ Waits(r) => Count(r) > 0 /\ sent[r][Count(r)] = Token(program, At(r))
       /\ \A q \in Rank : \A i \in 1 .. Count(r) : i <= Count(q) => sent[q][i] = sent[r][i]

-----------------------------------------------------------------------------
\* The handles that the first k calls of program p leave.
LiveAt(p, k) ==
  {h \in 1 .. k : /\ p[h].op = "create"
                  /\ \A j \in 1 .. k : /\ p[j].op # "close"
                                       /\ p[j].op = "destroy" => p[j].handle # h}

ValidCall(p, k) ==
  \/ p[k].op = "create"  /\ p[k].kind \in Kind
  \/ p[k].op = "destroy" /\ p[k].handle \in LiveAt(p, k - 1)
  \/ p[k].op = "close"   /\ k = Len(p)

Calls == {Create(kind) : kind \in Kind} \cup {Destroy(h) : h \in Op} \cup {Close}

Valid(p) ==
  p \in Seq(Calls) /\ Len(p) \in 0 .. MaxOps /\ \A k \in 1 .. Len(p) : ValidCall(p, k)

ValidProgram == Valid(program) /\ live = LiveAt(program, Len(program))

\* Maps from ids to handles.
Maps    == UNION {[N -> Op] : N \in SUBSET (0 .. MaxOps)}
Held(m) == {m[n] : n \in DOMAIN m}

\* The call of the program a rank is in goes with the collective it waits in.
InCall(p, c) ==
  LET call == p[c.done + 1]
      kind == p[c.current].kind
  IN  /\ c.pc # "idle" => c.done < Len(p)
      /\ c.pc \in Creating \cup {"create"} => call.op = "create" /\ c.current = c.done + 1
      /\ c.pc \in Dropping \cup {"destroy"} =>
           /\ call.op \in {"destroy", "close"} /\ c.current \in LiveAt(p, c.done)
           /\ call.op = "destroy" => c.current = call.handle
      /\ c.pc \in {"created", "opened", "unmapped"} => kind \in HostKind
      /\ c.pc \in {"sockets", "bound", "sent", "received", "closed", "erased", "unimported"} =>
           kind = "device"
      /\ c.pc = "removed" => kind # "distributed"
      /\ c.pc \in Ending \cup {"closing"} => call.op = "close"
      /\ c.pc \in Ending \cup {"closing", "idle"} => c.current = None

\* The handles in the map of a rank are those that exist at this point of the program,
\* less those it has destroyed in the call it is in.
HoldsLive(p, c) ==
  LET out == IF c.pc \in Dropping THEN {c.current} ELSE {}
  IN  /\ Held(c.map) \subseteq LiveAt(p, c.done) \ out
      /\ c.pc = "idle" \/ p[c.done + 1].op # "close" => LiveAt(p, c.done) \subseteq Held(c.map) \cup out
      /\ c.pc = "destroy" => c.current \in Held(c.map)
      /\ c.pc = "destroy_comm" => Held(c.map) = {}

InPlace(p, c) ==
  /\ c.done \in 0 .. Len(p) /\ c.pc \in Waiting \cup {"idle", "closing"}
  /\ c.current \in Op \cup {None}
  /\ c.map \in Maps /\ \A n, k \in DOMAIN c.map : c.map[n] = c.map[k] => n = k
  /\ InCall(p, c) /\ HoldsLive(p, c)

Control ==
  /\ done    \in [Rank -> Nat]
  /\ pc      \in [Rank -> Waiting \cup {"idle", "closing"}]
  /\ current \in [Rank -> Op \cup {None}]
  /\ wholegraph_map \in [Rank -> Maps]
  /\ \A r \in Rank : InPlace(program, At(r))

-----------------------------------------------------------------------------
\* Handles are in the maps under their ids, which ranks agree on; the id of a handle
\* that is in no map of its rank is free there.
Named(r, h) == h <= done[r] \/ (h = done[r] + 1 /\ pc[r] \in Creating)

Ids ==
  /\ handle_id \in [Op -> [Rank -> Nat]]
  /\ \A r \in Rank :
       /\ \A n \in DOMAIN wholegraph_map[r] : handle_id[wholegraph_map[r][n]][r] = n
       /\ pc[r] \in Creating => handle_id[current[r]][r] = FreeIn(wholegraph_map[r])
       /\ pc[r] \in Dropping => handle_id[current[r]][r] \notin DOMAIN wholegraph_map[r]

SameIds ==
  \A h \in Op, r, q \in Rank :
    Named(r, h) /\ Named(q, h) /\ program[h].op = "create" => handle_id[h][r] = handle_id[h][q]

-----------------------------------------------------------------------------
\* Host memory.  Rank 0 keeps the System V segment of h.
KeepsKey(h) ==
  \/ h \in Held(wholegraph_map[0]) /\ KindOf(h) = "sysv"
  \/ h = current[0] /\ pc[0] \in {"created", "opened", "unmapped"} /\ KindOf(h) = "sysv"

Keys ==
  /\ \A h \in Op : KeepsKey(h) => /\ handle_id[h][0] \in DOMAIN shmKey
                                  /\ shmKey[handle_id[h][0]] = h
  /\ \A n \in DOMAIN shmKey : \E h \in Op : KeepsKey(h) /\ handle_id[h][0] = n

\* Whoever is first to create a segment creates its file.
Files ==
  files = DOMAIN shmKey \cup
          {handle_id[current[r]][r] : r \in {q \in Rank : /\ pc[q] = "created"
                                                          /\ KindOf(current[q]) = "sysv"}}

Names ==
  IF pc[0] \in {"created", "opened"} /\ KindOf(current[0]) = "posix"
  THEN LET n == handle_id[current[0]][0]
       IN  DOMAIN shmName = {n} /\ shmName[n] = current[0]
  ELSE DOMAIN shmName = {}

Opened(r) ==
  opened[r] = IF pc[r] = "opened" \/ (r = 0 /\ pc[r] = "created") THEN current[r] ELSE None

Mapped(r) ==
  \A h \in Op : mapped[h][r] = IF h \in Held(wholegraph_map[r]) /\ KindOf(h) \in HostKind THEN h ELSE None

HostMemory ==
  /\ opened \in [Rank -> Op \cup {None}]
  /\ mapped \in [Op -> [Rank -> Op \cup {None}]]
  /\ Keys /\ Files /\ Names
  /\ \A r \in Rank : Opened(r) /\ Mapped(r)

-----------------------------------------------------------------------------
\* Device and distributed memory.
HasPart(r, h) ==
  \/ h \in Held(wholegraph_map[r]) /\ KindOf(h) = "distributed"
  \/ h \in Held(wholegraph_map[r]) /\ KindOf(h) = "device" /\ r \in Contributor
  \/ /\ h = current[r] /\ r \in Contributor
     /\ pc[r] \in {"sockets", "bound", "sent", "received", "closed", "erased", "unimported"}

Imports(r, h) ==
  \/ h \in Held(wholegraph_map[r]) /\ KindOf(h) = "device"
  \/ h = current[r] /\ pc[r] \in {"received", "closed", "erased"}

DeviceMemory ==
  /\ local_alloc \in [Op -> SUBSET Rank]
  /\ imported \in [Op -> [Rank -> SUBSET Rank]]
  /\ \A r \in Rank, h \in Op :
       /\ r \in local_alloc[h] <=> HasPart(r, h)
       /\ imported[h][r] = IF Imports(r, h) THEN Contributor ELSE {}

\* A socket is bound while its rank is between the barriers, and what is in it was
\* sent for the handle that is created now.
Sockets ==
  /\ sockets = {s \in Rank \X Rank : pc[s[2]] \in {"bound", "sent", "received"}}
  /\ inbox \in [Rank \X Rank -> Seq(Op)]
  /\ \A q, r \in Rank :
       inbox[<<q, r>>] = IF /\ q \in Contributor
                            /\ pc[r] \in {"bound", "sent"} /\ pc[q] \in {"sent", "received"}
                         THEN <<current[r]>> ELSE << >>

\* What is said of the ranks' places, and of the objects that exist.
Places == ValidProgram /\ Control /\ SameSent /\ InStep /\ Ids /\ SameIds

IInv == Places /\ HostMemory /\ DeviceMemory /\ Sockets

-----------------------------------------------------------------------------
\* A step of a rank as far as places go.
SetAt(r, c) ==
  /\ c = Place(c.done, c.pc, c.current, c.map)
  /\ done'    = [done EXCEPT ![r] = c.done]
  /\ pc'      = [pc EXCEPT ![r] = c.pc]
  /\ current' = [current EXCEPT ![r] = c.current]
  /\ wholegraph_map' = [wholegraph_map EXCEPT ![r] = c.map]

EnterAt(r, c) == SetAt(r, c) /\ sent' = [sent EXCEPT ![r] = Append(@, Token(program, c))]

Moves(r) ==
  /\ UNCHANGED <<program, live>>
  /\ handle_id' = IF pc[r] = "create"
                  THEN [handle_id EXCEPT ![current[r]][r] = FreeIn(wholegraph_map[r])]
                  ELSE handle_id
  /\ \/ Waits(r) /\ AllEntered(r) /\ ~ Final(program, At(r)) /\ EnterAt(r, Go(program, At(r)))
     \/ Waits(r) /\ AllEntered(r) /\ Final(program, At(r)) /\ SetAt(r, Pass(program, At(r))) /\ UNCHANGED sent
     \/ ~ Waits(r) /\ Behind(r) /\ EnterAt(r, Begin(program, At(r)))

-----------------------------------------------------------------------------
LEMMA PutInMap ==
  ASSUME NEW m \in Maps, NEW n \in 0 .. MaxOps, NEW h \in Op
  PROVE  /\ Put(m, n, h) \in Maps /\ DOMAIN Put(m, n, h) = DOMAIN m \cup {n}
         /\ Put(m, n, h)[n] = h /\ \A k \in DOMAIN m \ {n} : Put(m, n, h)[k] = m[k]
<1>1. PICK N \in SUBSET (0 .. MaxOps) : m \in [N -> Op]
  BY DEF Maps
<1>2. Put(m, n, h) \in [N \cup {n} -> Op]
  BY <1>1 DEF Put
<1>3. QED
  BY <1>1, <1>2 DEF Put, Maps

LEMMA DropFromMap ==
  ASSUME NEW m \in Maps, NEW n
  PROVE  /\ Drop(m, n) \in Maps /\ DOMAIN Drop(m, n) = DOMAIN m \ {n}
         /\ \A k \in DOMAIN m \ {n} : Drop(m, n)[k] = m[k]
<1>1. PICK N \in SUBSET (0 .. MaxOps) : m \in [N -> Op]
  BY DEF Maps
<1>2. Drop(m, n) \in [N \ {n} -> Op]
  BY <1>1 DEF Drop
<1>3. QED
  BY <1>1, <1>2 DEF Drop, Maps

LEMMA MapType ==
  ASSUME NEW m \in Maps
  PROVE  DOMAIN m \subseteq 0 .. MaxOps /\ \A n \in DOMAIN m : m[n] \in Op
BY DEF Maps

\* There are fewer handles than ids, so that some id is free.
LEMMA SomeIdFree ==
  ASSUME NEW m \in Maps, \A n, k \in DOMAIN m : m[n] = m[k] => n = k
  PROVE  FreeIn(m) \in 0 .. MaxOps /\ FreeIn(m) \notin DOMAIN m
<1> DEFINE F == {n \in 0 .. MaxOps : n \notin DOMAIN m}
<1>1. F # {}
  <2>1. SUFFICES ASSUME F = {} PROVE FALSE
    OBVIOUS
  <2>2. PICK N \in SUBSET (0 .. MaxOps) : m \in [N -> Op]
    BY DEF Maps
  <2>3. N = 0 .. MaxOps
    BY <2>1, <2>2
  <2>4. m \in Injection(0 .. MaxOps, Op)
    BY <2>2, <2>3 DEF Injection, IsInjective
  <2>5. IsFiniteSet(Op) /\ Cardinality(Op) = MaxOps /\ Cardinality(0 .. MaxOps) = MaxOps + 1
    BY FS_Interval, MaxOpsAssumption DEF Op
  <2>6. Cardinality(0 .. MaxOps) <= Cardinality(Op)
    BY <2>4, <2>5, FS_Injection
  <2>7. QED
    BY <2>5, <2>6, MaxOpsAssumption
<1>2. PICK n \in F : \A k \in F : n <= k
  <2>1. F \in SUBSET Nat
    OBVIOUS
  <2>2. QED
    BY <1>1, <2>1, LeastElement
<1>3. Min(F) \in F
  BY <1>2 DEF Min
<1>4. QED
  BY <1>3 DEF FreeIn

LEMMA Appended ==
  ASSUME NEW S, NEW s \in Seq(S), NEW e
  PROVE  /\ Len(s) \in Nat /\ Len(Append(s, e)) = Len(s) + 1
         /\ Append(s, e)[Len(s) + 1] = e
         /\ \A i \in 1 .. Len(s) : Append(s, e)[i] = s[i]
OBVIOUS

LEMMA GoFinal ==
  ASSUME NEW p, NEW c, Final(p, c)
  PROVE  Go(p, c) = Begin(p, Pass(p, c))
BY DEF Go

-----------------------------------------------------------------------------
\* Nothing but the place of r changes.
LEMMA PlacesAfter ==
  ASSUME Control, SameSent, Ids, NEW r \in Rank, Moves(r)
  PROVE  /\ \A q \in Rank \ {r} : /\ At(q)' = At(q) /\ sent'[q] = sent[q]
                                 /\ Count(q)' = Count(q) /\ (Waits(q)' <=> Waits(q))
         /\ Waits(r)' <=> At(r)'.pc \in Waiting
         /\ \/ /\ Waits(r) /\ AllEntered(r) /\ ~ Final(program, At(r))
               /\ At(r)' = Go(program, At(r))
               /\ sent'[r] = Append(sent[r], Token(program, At(r)'))
            \/ /\ Waits(r) /\ AllEntered(r) /\ Final(program, At(r))
               /\ At(r)' = Pass(program, At(r)) /\ sent'[r] = sent[r]
            \/ /\ ~ Waits(r) /\ Behind(r) /\ At(r)' = Begin(program, At(r))
               /\ sent'[r] = Append(sent[r], Token(program, At(r)'))
<1>1. ASSUME NEW c, SetAt(r, c)
      PROVE  At(r)' = c /\ \A q \in Rank \ {r} : At(q)' = At(q)
  BY <1>1 DEF SetAt, At, Control
<1>2. ASSUME NEW c, EnterAt(r, c)
      PROVE  sent'[r] = Append(sent[r], Token(program, c)) /\ \A q \in Rank \ {r} : sent'[q] = sent[q]
  BY <1>2 DEF EnterAt, SameSent
<1>3. \A q \in Rank : (Waits(q)' <=> At(q)'.pc \in Waiting) /\ (Waits(q) <=> At(q).pc \in Waiting)
  BY DEF Waits, At, Place
<1>4. \A q \in Rank \ {r} : At(q)' = At(q) /\ sent'[q] = sent[q]
  BY <1>1, <1>2 DEF Moves, EnterAt
<1>5. QED
  BY <1>1, <1>2, <1>3, <1>4 DEF Moves, EnterAt, Count

\* A rank that enters a collective waits in it; one that leaves the last of a call
\* does not.
LEMMA PlaceKinds ==
  ASSUME ValidProgram, Control, NEW r \in Rank
  PROVE  /\ Waits(r) /\ ~ Final(program, At(r)) => Go(program, At(r)).pc \in Waiting
         /\ ~ Waits(r) /\ Behind(r) => Begin(program, At(r)).pc \in Waiting
         /\ Waits(r) /\ Final(program, At(r)) => Pass(program, At(r)).pc \notin Waiting
<1> USE DEF At, Place
<1>1. \A d, m : CloseFrom(d, m).pc \in {"destroy_comm", "destroy"}
  BY DEF CloseFrom
<1>2. \A d, m : Left(program, d, m).pc \in {"idle", "closing"}
  BY DEF Left
<1>3. ASSUME Waits(r), ~ Final(program, At(r)) PROVE Go(program, At(r)).pc \in Waiting
  <2>1. CASE pc[r] = "destroy_all"
    BY <1>1, <1>3, <2>1 DEF Go, Waiting, Ending
  <2>2. CASE pc[r] # "destroy_all"
    <3>1. Go(program, At(r)).pc = Stage(pc[r], KindOf(current[r]) \in HostKind)
      BY <1>3, <2>2 DEF Go, KindOf
    <3>2. pc[r] \in {"create", "created", "sockets", "bound", "sent", "received", "destroy",
                     "unmapped", "erased", "unimported"}
      BY <1>3, <2>2 DEF Waits, Waiting, Creating, Dropping, Ending, Final
    <3>3. QED
      BY <3>1, <3>2 DEF Stage, Waiting, Creating, Dropping
  <2>3. QED
    BY <2>1, <2>2
<1>4. ASSUME ~ Waits(r), Behind(r) PROVE Begin(program, At(r)).pc \in Waiting
  <2>1. CASE pc[r] = "idle"
    <3>1. done[r] + 1 \in 1 .. Len(program)
      BY <1>4 DEF Behind, Control, ValidProgram, Valid
    <3>2. program[done[r] + 1].op \in {"create", "destroy", "close"}
      BY <3>1 DEF ValidProgram, Valid, ValidCall
    <3>3. QED
      BY <2>1, <3>2 DEF Begin, Waiting, Ending
  <2>2. CASE pc[r] # "idle"
    BY <1>1, <2>2 DEF Begin, Waiting, Ending
  <2>3. QED
    BY <2>1, <2>2
<1>5. ASSUME Waits(r), Final(program, At(r)) PROVE Pass(program, At(r)).pc \notin Waiting
  <2>1. pc[r] \in {"opened", "closed", "removed", "destroy_comm", "create", "destroy"}
    BY <1>5 DEF Final
  <2>2. Pass(program, At(r)).pc \in {"idle", "closing"}
    BY <1>2, <2>1 DEF Pass
  <2>3. QED
    BY <2>2 DEF Waiting, Creating, Dropping, Ending
<1>6. QED
  BY <1>3, <1>4, <1>5

\* However a rank moves, the ranks stay within a collective of each other.
LEMMA MovesInStep ==
  ASSUME ValidProgram, Control, SameSent, Ids, InStep, NEW r \in Rank, Moves(r)
  PROVE  InStep'
<1>1. program' = program
  BY DEF Moves
<1>2. \A q \in Rank : Count(q) \in Nat /\ sent[q] \in Seq(Waiting \X (Kind \cup Nat))
  BY DEF Count, SameSent
<1>3. ASSUME NEW q \in Rank \ {r}
      PROVE  /\ Count(q)' = Count(r)' => Level(r, q)' /\ Level(q, r)'
             /\ Count(q)' > Count(r)' => Ahead(r, q)'
             /\ Count(r)' > Count(q)' => Ahead(q, r)'
  <2>1. /\ At(q)' = At(q) /\ Count(q)' = Count(q) /\ (Waits(q)' <=> Waits(q))
    BY PlacesAfter
  <2>2. /\ Count(q) = Count(r) => Level(r, q)
        /\ Count(q) > Count(r) => Ahead(r, q)
        /\ Count(r) > Count(q) => Ahead(q, r)
    BY DEF InStep
  <2>3. CASE /\ Waits(r) /\ AllEntered(r) /\ ~ Final(program, At(r))
             /\ At(r)' = Go(program, At(r))
             /\ sent'[r] = Append(sent[r], Token(program, At(r)'))
    <3>1. Count(r)' = Count(r) + 1 /\ Waits(r)' /\ Count(q) >= Count(r)
      BY <1>2, <2>3, PlacesAfter, PlaceKinds, Appended DEF Count, AllEntered
    <3>2. QED
      BY <1>1, <1>2, <2>1, <2>2, <2>3, <3>1 DEF Level, Ahead
  <2>4. CASE /\ Waits(r) /\ AllEntered(r) /\ Final(program, At(r))
             /\ At(r)' = Pass(program, At(r)) /\ sent'[r] = sent[r]
    <3>1. Count(r)' = Count(r) /\ ~ Waits(r)' /\ Count(q) >= Count(r)
      BY <1>2, <2>4, PlacesAfter, PlaceKinds DEF Count, AllEntered
    <3>2. QED
      BY <1>1, <1>2, <2>1, <2>2, <2>4, <3>1, GoFinal DEF Level, Ahead
  <2>5. CASE /\ ~ Waits(r) /\ Behind(r) /\ At(r)' = Begin(program, At(r))
             /\ sent'[r] = Append(sent[r], Token(program, At(r)'))
    <3>1. Count(r)' = Count(r) + 1 /\ Waits(r)' /\ Count(q) >= Count(r)
      BY <1>2, <2>2, <2>5, PlacesAfter, PlaceKinds, Appended DEF Count, Ahead
    <3>2. QED
      BY <1>1, <1>2, <2>1, <2>2, <2>5, <3>1, GoFinal DEF Level, Ahead
  <2>6. QED
    BY <2>3, <2>4, <2>5, PlacesAfter
<1>4. Count(r)' \in Nat /\ Level(r, r)'
  <2>1. Level(r, r)'
    BY DEF Level
  <2>2. Count(r)' = Count(r) \/ Count(r)' = Count(r) + 1
    BY <1>2, PlacesAfter DEF Count
  <2>3. QED
    BY <1>2, <2>1, <2>2
<1>5. Rank' = Rank
  BY DEF Rank
<1>6. ASSUME NEW q \in Rank \ {r}, NEW u \in Rank \ {r}
      PROVE  /\ Count(u)' = Count(q)' => Level(q, u)'
             /\ Count(u)' > Count(q)' => Ahead(q, u)'
  <2>1. /\ At(q)' = At(q) /\ Count(q)' = Count(q) /\ (Waits(q)' <=> Waits(q))
        /\ At(u)' = At(u) /\ Count(u)' = Count(u) /\ (Waits(u)' <=> Waits(u))
    BY PlacesAfter
  <2>2. /\ Count(u) = Count(q) => Level(q, u)
        /\ Count(u) > Count(q) => Ahead(q, u)
    BY DEF InStep
  <2>3. QED
    BY <1>1, <2>1, <2>2 DEF Level, Ahead
<1>7. SUFFICES ASSUME NEW q \in Rank, NEW u \in Rank
               PROVE  /\ Count(u)' = Count(q)' => Level(q, u)'
                      /\ Count(u)' > Count(q)' => Ahead(q, u)'
  BY <1>5 DEF InStep
<1>8. CASE q = r /\ u = r
  BY <1>4, <1>8
<1>9. CASE q = r /\ u # r
  BY <1>3, <1>9
<1>10. CASE q # r /\ u = r
  BY <1>3, <1>10
<1>11. QED
  BY <1>6, <1>8, <1>9, <1>10

-----------------------------------------------------------------------------
\* The handles that exist after a number of calls.
LEMMA LiveOnes ==
  ASSUME NEW p, Valid(p), NEW k \in 0 .. Len(p), NEW h \in LiveAt(p, k)
  PROVE  /\ h \in Op /\ h \in 1 .. Len(p) /\ h <= k
         /\ p[h].op = "create" /\ p[h].kind \in Kind
<1>1. h \in 1 .. k /\ p[h].op = "create" /\ Len(p) \in 0 .. MaxOps
  BY DEF LiveAt, Valid
<1>2. h \in 1 .. Len(p)
  BY <1>1, MaxOpsAssumption
<1>3. ValidCall(p, h)
  BY <1>2 DEF Valid
<1>4. QED
  BY <1>1, <1>2, <1>3, MaxOpsAssumption DEF ValidCall, Op

\* How each call changes them.
LEMMA LiveStep ==
  ASSUME NEW p, Valid(p), NEW k \in 1 .. Len(p)
  PROVE  /\ p[k].op = "create"  => LiveAt(p, k) = LiveAt(p, k - 1) \cup {k}
         /\ p[k].op = "destroy" => LiveAt(p, k) = LiveAt(p, k - 1) \ {p[k].handle}
         /\ p[k].op = "close"   => LiveAt(p, k) = {}
<1>1. Len(p) \in Nat /\ k \in Nat /\ k >= 1 /\ k <= Len(p)
  BY MaxOpsAssumption DEF Valid
<1>2. ASSUME NEW j \in 1 .. k - 1
      PROVE  p[j].op # "close" /\ (p[j].op = "destroy" => p[j].handle # k)
  <2>1. j \in 1 .. Len(p) /\ j < k /\ j - 1 \in 0 .. Len(p)
    BY <1>1
  <2>2. ValidCall(p, j)
    BY <2>1 DEF Valid
  <2>3. \A h \in LiveAt(p, j - 1) : h <= j - 1
    BY <2>1, LiveOnes
  <2>4. QED
    BY <1>1, <2>1, <2>2, <2>3 DEF ValidCall
<1>3. 1 .. k = (1 .. k - 1) \cup {k}
  BY <1>1
<1>4. QED
  BY <1>1, <1>2, <1>3 DEF LiveAt

\* What a map holds when a handle is put into it or dropped from it.
LEMMA HeldPut ==
  ASSUME NEW m \in Maps, \A n, k \in DOMAIN m : m[n] = m[k] => n = k,
         NEW i \in 0 .. MaxOps, i \notin DOMAIN m, NEW h \in Op, h \notin Held(m)
  PROVE  /\ Held(Put(m, i, h)) = Held(m) \cup {h}
         /\ \A n, k \in DOMAIN Put(m, i, h) : Put(m, i, h)[n] = Put(m, i, h)[k] => n = k
<1> DEFINE new == Put(m, i, h)
<1>1. /\ DOMAIN new = DOMAIN m \cup {i} /\ new[i] = h
      /\ \A k \in DOMAIN m : new[k] = m[k] /\ new[k] # h
  <2>1. DOMAIN new = DOMAIN m \cup {i} /\ new[i] = h /\ \A k \in DOMAIN m \ {i} : new[k] = m[k]
    BY PutInMap
  <2> HIDE DEF new
  <2>2. \A k \in DOMAIN m : k # i /\ m[k] # h
    BY DEF Held
  <2>3. QED
    BY <2>1, <2>2
<1> HIDE DEF new
<1>2. \A x : x \in Held(new) <=> x \in Held(m) \cup {h}
  BY <1>1 DEF Held
<1>3. Held(new) = Held(m) \cup {h}
  BY <1>2
<1>4. \A n, k \in DOMAIN new : new[n] = new[k] => n = k
  BY <1>1
<1>5. QED
  BY <1>3, <1>4 DEF new

LEMMA HeldDrop ==
  ASSUME NEW m \in Maps, \A n, k \in DOMAIN m : m[n] = m[k] => n = k, NEW h \in Held(m)
  PROVE  LET new == Drop(m, IdIn(m, h))
         IN  /\ IdIn(m, h) \in DOMAIN m /\ m[IdIn(m, h)] = h
             /\ new \in Maps /\ Held(new) = Held(m) \ {h}
             /\ \A n, k \in DOMAIN new : new[n] = new[k] => n = k
<1> DEFINE new == Drop(m, IdIn(m, h))
<1>1. IdIn(m, h) \in DOMAIN m /\ m[IdIn(m, h)] = h
  BY DEF Held, IdIn
<1>2. /\ new \in Maps /\ DOMAIN new = DOMAIN m \ {IdIn(m, h)}
      /\ \A k \in DOMAIN new : new[k] = m[k]
  <2>1. \A n : /\ Drop(m, n) \in Maps /\ DOMAIN Drop(m, n) = DOMAIN m \ {n}
               /\ \A k \in DOMAIN m \ {n} : Drop(m, n)[k] = m[k]
    BY DropFromMap
  <2>2. QED
    BY <2>1
<1> HIDE DEF new
<1>3. \A x : x \in Held(new) <=> x \in Held(m) \ {h}
  BY <1>1, <1>2 DEF Held
<1>4. Held(new) = Held(m) \ {h}
  BY <1>3
<1>5. \A n, k \in DOMAIN new : new[n] = new[k] => n = k
  BY <1>2
<1>6. QED
  BY <1>1, <1>2, <1>4, <1>5 DEF new

\* The next handle to destroy, if there is one, is in the map.
LEMMA FirstHandle ==
  ASSUME NEW m \in Maps, DOMAIN m # {}
  PROVE  Min(DOMAIN m) \in DOMAIN m /\ m[Min(DOMAIN m)] \in Held(m)
<1>1. DOMAIN m \in SUBSET Nat
  BY MapType, MaxOpsAssumption
<1>2. PICK n \in DOMAIN m : \A k \in DOMAIN m : n <= k
  BY <1>1, LeastElement
<1>3. QED
  BY <1>2 DEF Min, Held

-----------------------------------------------------------------------------
\* Where a rank goes from where it can be, it can be too.
LEMMA CloseFromInPlace ==
  ASSUME NEW p, Valid(p), NEW d \in 0 .. Len(p), d < Len(p), p[d + 1].op = "close",
         NEW m \in Maps, \A n, k \in DOMAIN m : m[n] = m[k] => n = k, Held(m) \subseteq LiveAt(p, d)
  PROVE  InPlace(p, CloseFrom(d, m))
<1> USE DEF Place
<1>1. CASE DOMAIN m = {}
  BY <1>1 DEF InPlace, CloseFrom, InCall, HoldsLive, Held, Waiting, Creating, Dropping, Ending
<1>2. CASE DOMAIN m # {}
  <2>1. m[Min(DOMAIN m)] \in Held(m)
    BY <1>2, FirstHandle
  <2>2. m[Min(DOMAIN m)] \in Op
    BY <2>1, LiveOnes
  <2>3. QED
    BY <1>2, <2>1, <2>2
    DEF InPlace, CloseFrom, InCall, HoldsLive, Waiting, Creating, Dropping, Ending
<1>3. QED
  BY <1>1, <1>2

LEMMA LeftInPlace ==
  ASSUME NEW p, Valid(p), NEW d \in 0 .. Len(p), d < Len(p), p[d + 1].op \in {"destroy", "close"},
         NEW m \in Maps, \A n, k \in DOMAIN m : m[n] = m[k] => n = k, NEW h,
         p[d + 1].op = "destroy" => h = p[d + 1].handle /\ LiveAt(p, d) \subseteq Held(m) \cup {h},
         Held(m) \subseteq LiveAt(p, d) \ {h}
  PROVE  InPlace(p, Left(p, d, m))
<1> USE DEF Place
<1>1. Len(p) \in Nat /\ d + 1 \in 1 .. Len(p) /\ (d + 1) - 1 = d
  BY MaxOpsAssumption DEF Valid
<1>2. CASE p[d + 1].op = "destroy"
  <2>1. LiveAt(p, d + 1) = LiveAt(p, d) \ {h}
    BY <1>1, <1>2, LiveStep
  <2>2. QED
    BY <1>1, <1>2, <2>1 DEF InPlace, Left, InCall, HoldsLive, Waiting, Creating, Dropping, Ending
<1>3. CASE p[d + 1].op = "close"
  BY <1>1, <1>3 DEF InPlace, Left, InCall, HoldsLive, Waiting, Creating, Dropping, Ending
<1>4. QED
  BY <1>2, <1>3

LEMMA PassInPlace ==
  ASSUME NEW p, Valid(p), NEW c, InPlace(p, c), c.pc \in Waiting, Final(p, c)
  PROVE  InPlace(p, Pass(p, c))
<1> USE DEF Place
<1>1. /\ Len(p) \in Nat /\ c.done \in 0 .. Len(p) /\ c.map \in Maps
      /\ \A n, k \in DOMAIN c.map : c.map[n] = c.map[k] => n = k
      /\ InCall(p, c) /\ HoldsLive(p, c) /\ c.current \in Op \cup {None}
  BY MaxOpsAssumption DEF Valid, InPlace
<1>2. c.done < Len(p) /\ c.done + 1 \in 1 .. Len(p) /\ (c.done + 1) - 1 = c.done
  BY <1>1 DEF InCall, Waiting, Creating, Dropping, Ending
<1>3. CASE c.pc \in {"create", "opened", "closed"}
  <2> DEFINE id == FreeIn(c.map)
  <2>1. c.current = c.done + 1 /\ p[c.done + 1].op = "create" /\ c.current \in Op
    BY <1>1, <1>2, <1>3, MaxOpsAssumption DEF InCall, Creating, Op, Valid
  <2>2. Held(c.map) = LiveAt(p, c.done)
    <3>1. c.pc \notin Dropping /\ p[c.done + 1].op # "close"
      BY <1>3, <2>1 DEF Dropping
    <3>2. QED
      BY <1>1, <3>1 DEF HoldsLive
  <2>3. c.current \notin Held(c.map)
    BY <1>1, <2>1, <2>2, LiveOnes
  <2>4. id \in 0 .. MaxOps /\ id \notin DOMAIN c.map
    BY <1>1, SomeIdFree
  <2>5. LiveAt(p, c.done + 1) = LiveAt(p, c.done) \cup {c.current}
    BY <1>2, <2>1, LiveStep
  <2> HIDE DEF id
  <2>6. /\ Held(Put(c.map, id, c.current)) = LiveAt(p, c.done + 1)
        /\ \A n, k \in DOMAIN Put(c.map, id, c.current) :
             Put(c.map, id, c.current)[n] = Put(c.map, id, c.current)[k] => n = k
    BY <1>1, <2>1, <2>2, <2>3, <2>4, <2>5, HeldPut, ZenonT(30)
  <2>7. Put(c.map, id, c.current) \in Maps
    BY <1>1, <2>1, <2>4, PutInMap
  <2>8. Pass(p, c) = Place(c.done + 1, "idle", None, Put(c.map, id, c.current))
    BY <1>3 DEF Pass, id
  <2>9. QED
    BY <1>2, <2>6, <2>7, <2>8
    DEF InPlace, InCall, HoldsLive, Waiting, Creating, Dropping, Ending
<1>4. CASE c.pc \in {"destroy", "removed"}
  <2>1. /\ p[c.done + 1].op \in {"destroy", "close"}
        /\ p[c.done + 1].op = "destroy" => c.current = p[c.done + 1].handle
    BY <1>1, <1>4 DEF InCall, Dropping
  <2>2. CASE c.pc = "destroy"
    <3> DEFINE m == Drop(c.map, IdIn(c.map, c.current))
    <3>1. /\ Held(c.map) \subseteq LiveAt(p, c.done) /\ c.current \in Held(c.map)
          /\ p[c.done + 1].op = "destroy" => LiveAt(p, c.done) \subseteq Held(c.map)
      BY <1>1, <2>2 DEF HoldsLive, Dropping
    <3>2. /\ Held(m) = Held(c.map) \ {c.current} /\ m \in Maps
          /\ \A n, k \in DOMAIN m : m[n] = m[k] => n = k
      BY <1>1, <3>1, HeldDrop
    <3> HIDE DEF m
    <3>3. InPlace(p, Left(p, c.done, m))
      BY <1>1, <1>2, <2>1, <3>1, <3>2, LeftInPlace
    <3>4. QED
      BY <2>2, <3>3 DEF Pass, m
  <2>3. CASE c.pc = "removed"
    <3>1. /\ Held(c.map) \subseteq LiveAt(p, c.done) \ {c.current}
          /\ p[c.done + 1].op = "destroy" => LiveAt(p, c.done) \subseteq Held(c.map) \cup {c.current}
      BY <1>1, <2>3 DEF HoldsLive, Dropping
    <3>2. InPlace(p, Left(p, c.done, c.map))
      BY <1>1, <1>2, <2>1, <3>1, LeftInPlace
    <3>3. QED
      BY <2>3, <3>2 DEF Pass
  <2>4. QED
    BY <1>4, <2>2, <2>3
<1>5. CASE c.pc = "destroy_comm"
  <2>1. p[c.done + 1].op = "close" /\ Held(c.map) = {}
    BY <1>1, <1>5 DEF InCall, HoldsLive, Ending
  <2>2. LiveAt(p, c.done + 1) = {}
    BY <1>2, <2>1, LiveStep
  <2>3. Pass(p, c) = Place(c.done + 1, "idle", None, c.map)
    BY <1>5 DEF Pass
  <2>4. QED
    BY <1>1, <1>2, <2>1, <2>2, <2>3
    DEF InPlace, InCall, HoldsLive, Waiting, Creating, Dropping, Ending
<1>6. QED
  BY <1>3, <1>4, <1>5 DEF Final

LEMMA BeginInPlace ==
  ASSUME NEW p, Valid(p), NEW c, InPlace(p, c), c.pc \notin Waiting, c.done < Len(p)
  PROVE  InPlace(p, Begin(p, c))
<1> USE DEF Place
<1>1. /\ Len(p) \in 0 .. MaxOps /\ c.done \in 0 .. Len(p) /\ c.map \in Maps
      /\ \A n, k \in DOMAIN c.map : c.map[n] = c.map[k] => n = k
      /\ InCall(p, c) /\ HoldsLive(p, c) /\ c.pc \in {"idle", "closing"}
      /\ c.pc \notin Dropping \cup {"destroy", "destroy_comm"}
  BY DEF Valid, InPlace, Waiting, Ending
<1>2. c.done + 1 \in 1 .. Len(p) /\ (c.done + 1) - 1 = c.done /\ c.done + 1 \in Op
  BY <1>1, MaxOpsAssumption DEF Op
<1>3. Held(c.map) \subseteq LiveAt(p, c.done)
  BY <1>1 DEF HoldsLive
<1>4. CASE c.pc = "closing"
  <2>1. p[c.done + 1].op = "close"
    BY <1>1, <1>4 DEF InCall
  <2>2. QED
    BY <1>1, <1>3, <1>4, <2>1, CloseFromInPlace DEF Begin
<1>5. CASE c.pc = "idle"
  <2>1. ValidCall(p, c.done + 1) /\ Held(c.map) = LiveAt(p, c.done)
    BY <1>1, <1>2, <1>5 DEF Valid, HoldsLive
  <2>2. CASE p[c.done + 1].op = "create"
    BY <1>1, <1>2, <1>5, <2>1, <2>2
    DEF Begin, InPlace, InCall, HoldsLive, Waiting, Creating, Dropping, Ending
  <2>3. CASE p[c.done + 1].op = "destroy"
    <3>1. p[c.done + 1].handle \in LiveAt(p, c.done)
      BY <1>2, <2>1, <2>3 DEF ValidCall
    <3>2. p[c.done + 1].handle \in Op
      BY <1>1, <3>1, LiveOnes
    <3>3. QED
      BY <1>1, <1>2, <1>5, <2>1, <2>3, <3>1, <3>2
      DEF Begin, InPlace, InCall, HoldsLive, Waiting, Creating, Dropping, Ending
  <2>4. CASE p[c.done + 1].op = "close"
    BY <1>1, <1>2, <1>5, <2>1, <2>4
    DEF Begin, InPlace, InCall, HoldsLive, Waiting, Creating, Dropping, Ending
  <2>5. QED
    BY <2>1, <2>2, <2>3, <2>4 DEF ValidCall
<1>6. QED
  BY <1>1, <1>4, <1>5

LEMMA GoInPlace ==
  ASSUME NEW p, Valid(p), NEW c, InPlace(p, c), c.pc \in Waiting, ~ Final(p, c)
  PROVE  InPlace(p, Go(p, c))
<1> USE DEF Place
<1>1. /\ Len(p) \in 0 .. MaxOps /\ c.done \in 0 .. Len(p) /\ c.map \in Maps
      /\ \A n, k \in DOMAIN c.map : c.map[n] = c.map[k] => n = k
      /\ InCall(p, c) /\ HoldsLive(p, c) /\ c.current \in Op \cup {None}
  BY DEF Valid, InPlace
<1>2. c.done < Len(p) /\ c.done + 1 \in 1 .. Len(p) /\ (c.done + 1) - 1 = c.done
  BY <1>1, MaxOpsAssumption DEF InCall, Waiting, Creating, Dropping, Ending
<1> DEFINE host == p[c.current].kind \in HostKind
<1>3. CASE c.pc = "destroy_all"
  <2>1. p[c.done + 1].op = "close" /\ Held(c.map) \subseteq LiveAt(p, c.done)
    BY <1>1, <1>3 DEF InCall, HoldsLive, Ending, Dropping
  <2>2. QED
    BY <1>1, <1>2, <1>3, <2>1, CloseFromInPlace DEF Go, Final
<1>4. CASE c.pc = "create"
  <2>1. p[c.current].kind \in Kind /\ c.current = c.done + 1 /\ p[c.done + 1].op = "create"
    BY <1>1, <1>2, <1>4 DEF InCall, Valid, ValidCall
  <2>2. Go(p, c) = Place(c.done, Stage("create", host), c.current, c.map)
    BY <1>4 DEF Go
  <2>3. host \/ p[c.current].kind = "device"
    BY <1>4, <2>1, KindAssumption DEF Final, HostKind
  <2>4. QED
    BY <1>1, <1>2, <1>4, <2>1, <2>2, <2>3
    DEF InPlace, InCall, HoldsLive, Waiting, Creating, Dropping, Ending, Stage, HostKind
<1>5. CASE c.pc \in {"created", "sockets", "bound", "sent", "received"}
  <2>1. Go(p, c) = Place(c.done, Stage(c.pc, host), c.current, c.map)
    BY <1>5 DEF Go, Final
  <2>2. QED
    BY <1>1, <1>2, <1>5, <2>1
    DEF InPlace, InCall, HoldsLive, Waiting, Creating, Dropping, Ending, Stage, HostKind
<1>6. CASE c.pc = "destroy"
  <2> DEFINE m == Drop(c.map, IdIn(c.map, c.current))
  <2>1. /\ Held(c.map) \subseteq LiveAt(p, c.done) /\ c.current \in Held(c.map)
        /\ p[c.done + 1].op # "close" => LiveAt(p, c.done) \subseteq Held(c.map)
        /\ c.current \in LiveAt(p, c.done) /\ p[c.done + 1].op \in {"destroy", "close"}
        /\ p[c.done + 1].op = "destroy" => c.current = p[c.done + 1].handle
    BY <1>1, <1>6 DEF HoldsLive, InCall, Dropping
  <2>2. /\ Held(m) = Held(c.map) \ {c.current} /\ m \in Maps
        /\ \A n, k \in DOMAIN m : m[n] = m[k] => n = k
    BY <1>1, <2>1, HeldDrop
  <2>3. host \/ p[c.current].kind = "device"
    BY <1>1, <1>6, <2>1, LiveOnes, KindAssumption DEF Final, HostKind
  <2>4. Go(p, c) = Place(c.done, Stage("destroy", host), c.current, m)
    BY <1>6 DEF Go
  <2> HIDE DEF m
  <2>5. QED
    BY <1>1, <1>2, <2>1, <2>2, <2>3, <2>4
    DEF InPlace, InCall, HoldsLive, Waiting, Creating, Dropping, Ending, Stage, HostKind
<1>7. CASE c.pc \in {"unmapped", "erased", "unimported"}
  <2>1. Go(p, c) = Place(c.done, Stage(c.pc, host), c.current, c.map)
    BY <1>7 DEF Go, Final
  <2>2. QED
    BY <1>1, <1>2, <1>7, <2>1
    DEF InPlace, InCall, HoldsLive, Waiting, Creating, Dropping, Ending, Stage, HostKind
<1>8. QED
  BY <1>3, <1>4, <1>5, <1>6, <1>7 DEF Final, Waiting, Creating, Dropping, Ending

-----------------------------------------------------------------------------
LEMMA MovesControl ==
  ASSUME ValidProgram, Control, SameSent, Ids, NEW r \in Rank, Moves(r)
  PROVE  ValidProgram' /\ Control' /\ InPlace(program, At(r)')
<1>1. program' = program /\ live' = live /\ ValidProgram'
  BY DEF Moves, ValidProgram
<1>2. InPlace(program, At(r)) /\ Valid(program)
  BY DEF Control, ValidProgram
<1>3. (Waits(r) <=> At(r).pc \in Waiting) /\ (Behind(r) <=> At(r).done < Len(program))
  BY DEF Waits, At, Place, Behind
<1>4. InPlace(program, At(r)')
  <2>1. CASE Waits(r) /\ ~ Final(program, At(r)) /\ At(r)' = Go(program, At(r))
    BY <1>2, <1>3, <2>1, GoInPlace
  <2>2. CASE Waits(r) /\ Final(program, At(r)) /\ At(r)' = Pass(program, At(r))
    BY <1>2, <1>3, <2>2, PassInPlace
  <2>3. CASE ~ Waits(r) /\ Behind(r) /\ At(r)' = Begin(program, At(r))
    BY <1>2, <1>3, <2>3, BeginInPlace
  <2>4. QED
    BY <2>1, <2>2, <2>3, PlacesAfter
<1>5. \A q \in Rank : InPlace(program', At(q)')
  BY <1>1, <1>4, PlacesAfter DEF Control
<1>6. /\ At(r)'.done \in Nat /\ At(r)'.pc \in Waiting \cup {"idle", "closing"}
      /\ At(r)'.current \in Op \cup {None} /\ At(r)'.map \in Maps
  BY <1>2, <1>4, MaxOpsAssumption DEF InPlace, Valid
<1>7. PICK c : SetAt(r, c)
  BY DEF Moves, EnterAt
<1>8. At(r)' = c
  BY <1>7 DEF SetAt, At, Control
<1>9. /\ done' \in [Rank -> Nat] /\ pc' \in [Rank -> Waiting \cup {"idle", "closing"}]
      /\ current' \in [Rank -> Op \cup {None}] /\ wholegraph_map' \in [Rank -> Maps]
  BY <1>6, <1>7, <1>8 DEF SetAt, Control
<1>10. (Rank = Rank') /\ (Op = Op') /\ (Maps = Maps')
  BY DEF Rank, Op, Maps
<1>11. QED
  BY <1>1, <1>4, <1>5, <1>9, <1>10 DEF Control

\* What is in a map, and under which id.
LEMMA HeldOnes ==
  ASSUME ValidProgram, Control, Ids, NEW r \in Rank, NEW h \in Held(wholegraph_map[r])
  PROVE  /\ h \in LiveAt(program, done[r]) /\ h \in Op /\ h <= done[r]
         /\ program[h].op = "create" /\ KindOf(h) \in Kind
         /\ handle_id[h][r] \in DOMAIN wholegraph_map[r]
         /\ wholegraph_map[r][handle_id[h][r]] = h
         /\ IdIn(wholegraph_map[r], h) = handle_id[h][r]
<1>1. InPlace(program, At(r)) /\ Valid(program) /\ wholegraph_map[r] \in Maps
  BY DEF Control, ValidProgram
<1>2. h \in LiveAt(program, done[r]) /\ done[r] \in 0 .. Len(program)
  BY <1>1 DEF InPlace, HoldsLive, At, Place
<1>3. PICK n \in DOMAIN wholegraph_map[r] : wholegraph_map[r][n] = h
  BY DEF Held
<1>4. handle_id[h][r] = n
  BY <1>3 DEF Ids
<1>5. IdIn(wholegraph_map[r], h) \in DOMAIN wholegraph_map[r]
      /\ wholegraph_map[r][IdIn(wholegraph_map[r], h)] = h
  BY <1>3 DEF IdIn
<1>6. IdIn(wholegraph_map[r], h) = handle_id[h][r]
  BY <1>5 DEF Ids
<1>7. QED
  BY <1>1, <1>2, <1>3, <1>4, <1>6, LiveOnes DEF KindOf

\* The handle a rank creates is not in its map, and some id is free for it.
LEMMA NewOnes ==
  ASSUME ValidProgram, Control, Ids, NEW r \in Rank, pc[r] \in Creating \cup {"create"}
  PROVE  /\ current[r] = done[r] + 1 /\ current[r] \in Op /\ current[r] \notin Held(wholegraph_map[r])
         /\ current[r] \in 1 .. Len(program) /\ program[current[r]].op = "create"
         /\ KindOf(current[r]) \in Kind
         /\ FreeIn(wholegraph_map[r]) \in 0 .. MaxOps
         /\ FreeIn(wholegraph_map[r]) \notin DOMAIN wholegraph_map[r]
<1>1. InPlace(program, At(r)) /\ Valid(program) /\ Len(program) \in 0 .. MaxOps
  BY DEF Control, ValidProgram, Valid
<1>2. /\ wholegraph_map[r] \in Maps /\ InCall(program, At(r))
      /\ \A n, k \in DOMAIN wholegraph_map[r] : wholegraph_map[r][n] = wholegraph_map[r][k] => n = k
  BY <1>1 DEF InPlace, At, Place
<1>3. done[r] \in Nat /\ done[r] < Len(program) /\ current[r] = done[r] + 1
      /\ program[current[r]].op = "create"
  BY <1>1, <1>2 DEF InPlace, InCall, At, Place, Creating
<1>4. current[r] \in 1 .. Len(program) /\ current[r] \in Op
  BY <1>1, <1>3, MaxOpsAssumption DEF Op
<1>5. KindOf(current[r]) \in Kind
  BY <1>1, <1>3, <1>4 DEF Valid, ValidCall, KindOf
<1>6. QED
  BY <1>2, <1>3, <1>4, <1>5, HeldOnes, SomeIdFree

LEMMA NewMap ==
  ASSUME ValidProgram, Control, Ids, NEW r \in Rank, pc[r] \in Creating \cup {"create"}
  PROVE  LET m   == wholegraph_map[r]
             id  == FreeIn(m)
             new == Put(m, id, current[r])
         IN  /\ new \in Maps /\ DOMAIN new = DOMAIN m \cup {id} /\ new[id] = current[r]
             /\ \A n \in DOMAIN m : new[n] = m[n]
             /\ Held(new) = Held(m) \cup {current[r]}
<1> DEFINE m   == wholegraph_map[r]
           id  == FreeIn(m)
           new == Put(m, id, current[r])
<1>1. m \in Maps /\ id \in 0 .. MaxOps /\ id \notin DOMAIN m /\ current[r] \in Op
      /\ current[r] \notin Held(m) /\ \A n, k \in DOMAIN m : m[n] = m[k] => n = k
  BY NewOnes DEF Control, InPlace, At, Place
<1> HIDE DEF m, id
<1>2. /\ new \in Maps /\ DOMAIN new = DOMAIN m \cup {id} /\ new[id] = current[r]
      /\ \A n \in DOMAIN m \ {id} : new[n] = m[n]
  <2>1. PICK h \in Op : h = current[r]
    BY <1>1
  <2>2. m \in Maps /\ id \in 0 .. MaxOps
    BY <1>1
  <2>3. /\ Put(m, id, h) \in Maps /\ DOMAIN Put(m, id, h) = DOMAIN m \cup {id}
        /\ Put(m, id, h)[id] = h /\ \A n \in DOMAIN m \ {id} : Put(m, id, h)[n] = m[n]
    BY <2>2, PutInMap
  <2>4. new = Put(m, id, h)
    BY <2>1
  <2> HIDE DEF new
  <2>5. QED
    BY <2>1, <2>3, <2>4
<1>3. Held(new) = Held(m) \cup {current[r]}
  BY <1>1, HeldPut
<1> HIDE DEF new
<1>4. \A n \in DOMAIN m : new[n] = m[n]
  BY <1>1, <1>2
<1>5. QED
  BY <1>2, <1>3, <1>4 DEF new, m, id

\* The handle a rank destroys is in its map until it is erased, and has a kind.
LEMMA OldOnes ==
  ASSUME ValidProgram, Control, Ids, NEW r \in Rank, pc[r] \in Dropping \cup {"destroy"}
  PROVE  /\ current[r] \in LiveAt(program, done[r]) /\ current[r] \in Op /\ current[r] <= done[r]
         /\ current[r] \in 1 .. Len(program) /\ program[current[r]].op = "create"
         /\ KindOf(current[r]) \in Kind
         /\ IF pc[r] = "destroy" THEN current[r] \in Held(wholegraph_map[r])
            ELSE current[r] \notin Held(wholegraph_map[r])
<1>1. InPlace(program, At(r)) /\ Valid(program)
  BY DEF Control, ValidProgram
<1>2. InCall(program, At(r)) /\ HoldsLive(program, At(r)) /\ done[r] \in 0 .. Len(program)
  BY <1>1 DEF InPlace, At, Place
<1>3. current[r] \in LiveAt(program, done[r])
  BY <1>2 DEF InCall, At, Place
<1>4. IF pc[r] = "destroy" THEN current[r] \in Held(wholegraph_map[r])
      ELSE current[r] \notin Held(wholegraph_map[r])
  BY <1>2 DEF HoldsLive, At, Place
<1>5. QED
  BY <1>1, <1>2, <1>3, <1>4, LiveOnes DEF KindOf

-----------------------------------------------------------------------------
\* What a step does to the map of its rank.
LEMMA MovesMap ==
  ASSUME ValidProgram, Control, SameSent, Ids, NEW r \in Rank, Moves(r)
  PROVE  LET m == wholegraph_map[r]
         IN  /\ pc[r] = "create" /\ KindOf(current[r]) = "distributed" =>
                  wholegraph_map'[r] = Put(m, FreeIn(m), current[r])
                  /\ pc'[r] = "idle" /\ done'[r] = done[r] + 1
             /\ pc[r] = "create" /\ KindOf(current[r]) # "distributed" =>
                  wholegraph_map'[r] = m /\ pc'[r] \in {"created", "sockets"}
                  /\ current'[r] = current[r] /\ done'[r] = done[r]
             /\ pc[r] \in {"opened", "closed"} =>
                  wholegraph_map'[r] = Put(m, FreeIn(m), current[r]) /\ pc'[r] = "idle"
                  /\ done'[r] = done[r] + 1
             /\ pc[r] \in Creating \ {"opened", "closed"} =>
                  wholegraph_map'[r] = m /\ pc'[r] \in Creating /\ current'[r] = current[r]
                  /\ done'[r] = done[r]
             /\ pc[r] = "destroy" =>
                  wholegraph_map'[r] = Drop(m, handle_id[current[r]][r])
                  /\ pc'[r] \in Dropping \cup {"idle", "closing"}
                  /\ (pc'[r] \in Dropping => current'[r] = current[r])
             /\ pc[r] \in Dropping =>
                  wholegraph_map'[r] = m /\ pc'[r] \in Dropping \cup {"idle", "closing"}
                  /\ (pc'[r] \in Dropping => current'[r] = current[r])
             /\ pc[r] \in Ending \cup {"idle", "closing"} =>
                  wholegraph_map'[r] = m /\ pc'[r] \notin Creating \cup Dropping
             /\ \/ done'[r] = done[r]
                \/ /\ done'[r] = done[r] + 1
                   /\ pc[r] \in {"create", "opened", "closed"} \/ program[done[r] + 1].op # "create"
<1> USE DEF At, Place
<1> DEFINE m == wholegraph_map[r]
<1>1. /\ pc[r] \in Waiting \cup {"idle", "closing"} /\ done[r] \in Nat
      /\ At(r)' = [done |-> done'[r], pc |-> pc'[r], current |-> current'[r], map |-> wholegraph_map'[r]]
  BY DEF Control
<1>2. CASE Waits(r) /\ ~ Final(program, At(r)) /\ At(r)' = Go(program, At(r))
  <2>1. CASE pc[r] = "destroy_all"
    BY <1>1, <1>2, <2>1 DEF Go, CloseFrom, Creating, Dropping, Ending
  <2>2. CASE pc[r] = "create"
    <3>1. KindOf(current[r]) # "distributed"
      BY <1>2, <2>2 DEF Final, KindOf
    <3>2. At(r)' = Place(done[r], Stage("create", KindOf(current[r]) \in HostKind), current[r], m)
      BY <1>2, <2>2 DEF Go, KindOf
    <3>3. QED
      BY <1>1, <2>2, <3>1, <3>2 DEF Stage, Creating, Dropping, Ending
  <2>3. CASE pc[r] \in Creating
    <3>1. pc[r] \in {"created", "sockets", "bound", "sent", "received"}
      BY <1>2, <2>3 DEF Final, Creating
    <3>2. At(r)' = Place(done[r], Stage(pc[r], KindOf(current[r]) \in HostKind), current[r], m)
      BY <1>2, <3>1 DEF Go, KindOf
    <3>3. QED
      BY <1>1, <3>1, <3>2 DEF Stage, Creating, Dropping, Ending
  <2>4. CASE pc[r] = "destroy"
    <3>1. IdIn(m, current[r]) = handle_id[current[r]][r]
      BY <2>4, OldOnes, HeldOnes
    <3>2. At(r)' = Place(done[r], Stage("destroy", KindOf(current[r]) \in HostKind), current[r],
                         Drop(m, IdIn(m, current[r])))
      BY <1>2, <2>4 DEF Go, KindOf
    <3>3. QED
      BY <1>1, <2>4, <3>1, <3>2 DEF Stage, Creating, Dropping, Ending
  <2>5. CASE pc[r] \in Dropping
    <3>1. pc[r] \in {"unmapped", "erased", "unimported"}
      BY <1>2, <2>5 DEF Final, Dropping
    <3>2. At(r)' = Place(done[r], Stage(pc[r], KindOf(current[r]) \in HostKind), current[r], m)
      BY <1>2, <3>1 DEF Go, KindOf
    <3>3. QED
      BY <1>1, <3>1, <3>2 DEF Stage, Creating, Dropping, Ending
  <2>6. QED
    BY <1>2, <2>1, <2>2, <2>3, <2>4, <2>5 DEF Waits, Waiting, Ending, Final
<1>3. CASE Waits(r) /\ Final(program, At(r)) /\ At(r)' = Pass(program, At(r))
  <2>1. CASE pc[r] \in {"create", "opened", "closed"}
    <3>1. At(r)' = Place(done[r] + 1, "idle", None, Put(m, FreeIn(m), current[r]))
      BY <1>3, <2>1 DEF Pass
    <3>2. pc[r] = "create" => KindOf(current[r]) = "distributed"
      BY <1>3 DEF Final, KindOf
    <3>3. QED
      BY <1>1, <2>1, <3>1, <3>2 DEF Creating, Dropping, Ending
  <2>2. CASE pc[r] = "destroy"
    <3>1. IdIn(m, current[r]) = handle_id[current[r]][r]
      BY <2>2, OldOnes, HeldOnes
    <3>2. At(r)' = Left(program, done[r], Drop(m, IdIn(m, current[r])))
      BY <1>3, <2>2 DEF Pass
    <3>3. QED
      BY <1>1, <2>2, <3>1, <3>2 DEF Left, Creating, Dropping, Ending
  <2>3. CASE pc[r] = "removed"
    <3>1. At(r)' = Left(program, done[r], m)
      BY <1>3, <2>3 DEF Pass
    <3>2. QED
      BY <1>1, <2>3, <3>1 DEF Left, Creating, Dropping, Ending
  <2>4. CASE pc[r] = "destroy_comm"
    <3>1. program[done[r] + 1].op = "close"
      BY <2>4 DEF Control, InPlace, InCall, Ending
    <3>2. QED
      BY <1>1, <1>3, <2>4, <3>1 DEF Pass, Creating, Dropping, Ending
  <2>5. QED
    BY <1>3, <2>1, <2>2, <2>3, <2>4 DEF Final
<1>4. CASE ~ Waits(r) /\ Behind(r) /\ At(r)' = Begin(program, At(r))
  <2>1. pc[r] \in {"idle", "closing"}
    BY <1>1, <1>4 DEF Waits
  <2>2. CASE pc[r] = "closing"
    BY <1>1, <1>4, <2>2 DEF Begin, CloseFrom, Creating, Dropping, Ending
  <2>3. CASE pc[r] = "idle"
    <3>1. done[r] + 1 \in 1 .. Len(program)
      BY <1>1, <1>4 DEF Behind, ValidProgram, Valid
    <3>2. program[done[r] + 1].op \in {"create", "destroy", "close"}
      BY <3>1 DEF ValidProgram, Valid, ValidCall
    <3>3. QED
      BY <1>1, <1>4, <2>3, <3>2 DEF Begin, Creating, Dropping, Ending
  <2>4. QED
    BY <2>1, <2>2, <2>3
<1>5. QED
  BY <1>2, <1>3, <1>4, PlacesAfter

\* Handles stay in the maps under their ids.
LEMMA MovesIds ==
  ASSUME ValidProgram, Control, SameSent, Ids, NEW r \in Rank, Moves(r)
  PROVE  Ids'
<1> DEFINE m == wholegraph_map[r]
<1>1. /\ handle_id \in [Op -> [Rank -> Nat]] /\ m \in Maps
      /\ pc[r] \in Waiting \cup {"idle", "closing"}
  BY DEF Ids, Control
<1>2. /\ pc[r] = "create" =>
           handle_id' = [handle_id EXCEPT ![current[r]][r] = FreeIn(m)]
      /\ pc[r] # "create" => handle_id' = handle_id
  BY DEF Moves
<1>3. handle_id' \in [Op -> [Rank -> Nat]]
  <2>1. CASE pc[r] = "create"
    <3>1. current[r] \in Op /\ FreeIn(m) \in Nat
      BY <2>1, NewOnes, MaxOpsAssumption
    <3>2. QED
      BY <1>1, <1>2, <2>1, <3>1
  <2>2. CASE pc[r] # "create"
    BY <1>1, <1>2, <2>2
  <2>3. QED
    BY <2>1, <2>2
<1>4. \A q \in Rank \ {r}, h \in Op : handle_id'[h][q] = handle_id[h][q]
  BY <1>1, <1>2
<1>5. \A h \in Op : handle_id'[h][r] = IF pc[r] = "create" /\ h = current[r] THEN FreeIn(m)
                                      ELSE handle_id[h][r]
  BY <1>1, <1>2, NewOnes
<1>6. ASSUME NEW q \in Rank \ {r}
      PROVE  /\ \A n \in DOMAIN wholegraph_map'[q] : handle_id'[wholegraph_map'[q][n]][q] = n
             /\ pc'[q] \in Creating => handle_id'[current'[q]][q] = FreeIn(wholegraph_map'[q])
             /\ pc'[q] \in Dropping => handle_id'[current'[q]][q] \notin DOMAIN wholegraph_map'[q]
  <2>1. pc'[q] = pc[q] /\ current'[q] = current[q] /\ wholegraph_map'[q] = wholegraph_map[q]
    BY PlacesAfter DEF At, Place
  <2>2. \A n \in DOMAIN wholegraph_map[q] : wholegraph_map[q][n] \in Op
    BY MapType DEF Control
  <2>3. pc[q] \in Creating \cup Dropping => current[q] \in Op
    BY NewOnes, OldOnes
  <2>4. QED
    BY <1>4, <2>1, <2>2, <2>3 DEF Ids
<1>7. /\ \A n \in DOMAIN m : handle_id[m[n]][r] = n /\ m[n] \in Op /\ m[n] \in Held(m)
      /\ pc[r] \in Creating => handle_id[current[r]][r] = FreeIn(m)
      /\ pc[r] \in Dropping => handle_id[current[r]][r] \notin DOMAIN m
  BY <1>1, MapType DEF Ids, Held
<1>8. /\ \A n \in DOMAIN wholegraph_map'[r] : handle_id'[wholegraph_map'[r][n]][r] = n
      /\ pc'[r] \in Creating => handle_id'[current'[r]][r] = FreeIn(wholegraph_map'[r])
      /\ pc'[r] \in Dropping => handle_id'[current'[r]][r] \notin DOMAIN wholegraph_map'[r]
  <2>1. CASE pc[r] \in {"opened", "closed"} \/ (pc[r] = "create" /\ KindOf(current[r]) = "distributed")
    <3>1. /\ current[r] \notin Held(m) /\ current[r] \in Op
          /\ FreeIn(m) \in 0 .. MaxOps /\ FreeIn(m) \notin DOMAIN m
      BY <2>1, NewOnes DEF Creating
    <3>2. wholegraph_map'[r] = Put(m, FreeIn(m), current[r]) /\ pc'[r] = "idle"
      BY <2>1, MovesMap
    <3>3. handle_id'[current[r]][r] = FreeIn(m)
      BY <1>5, <1>7, <2>1, <3>1 DEF Creating
    <3>4. LET new == Put(m, FreeIn(m), current[r])
          IN  /\ DOMAIN new = DOMAIN m \cup {FreeIn(m)} /\ new[FreeIn(m)] = current[r]
              /\ \A n \in DOMAIN m : new[n] = m[n]
      BY <2>1, NewMap DEF Creating
    <3>5. \A n \in DOMAIN m : wholegraph_map'[r][n] = m[n] /\ m[n] # current[r]
      BY <1>7, <3>1, <3>2, <3>4
    <3>6. QED
      BY <1>5, <1>7, <3>2, <3>3, <3>4, <3>5 DEF Creating, Dropping
  <2>2. CASE pc[r] = "create" /\ KindOf(current[r]) # "distributed"
    <3>1. wholegraph_map'[r] = m /\ pc'[r] \in {"created", "sockets"} /\ current'[r] = current[r]
      BY <2>2, MovesMap
    <3>2. current[r] \notin Held(m) /\ current[r] \in Op
      BY <2>2, NewOnes
    <3>3. QED
      BY <1>5, <1>7, <2>2, <3>1, <3>2 DEF Dropping
  <2>3. CASE pc[r] \in Creating \ {"opened", "closed"}
    <3>1. wholegraph_map'[r] = m /\ pc'[r] \in Creating /\ current'[r] = current[r]
      BY <2>3, MovesMap
    <3>2. pc[r] # "create" /\ pc'[r] \notin Dropping /\ current[r] \in Op
      BY <2>3, <3>1, NewOnes DEF Creating, Dropping
    <3>3. QED
      BY <1>5, <1>7, <2>3, <3>1, <3>2
  <2>4. CASE pc[r] = "destroy"
    <3>1. /\ wholegraph_map'[r] = Drop(m, handle_id[current[r]][r]) /\ pc'[r] \notin Creating
          /\ pc'[r] \in Dropping => current'[r] = current[r]
      BY <2>4, MovesMap DEF Creating, Dropping
    <3>2. current[r] \in Op
      BY <2>4, OldOnes
    <3>3. /\ DOMAIN wholegraph_map'[r] = DOMAIN m \ {handle_id[current[r]][r]}
          /\ \A n \in DOMAIN wholegraph_map'[r] : wholegraph_map'[r][n] = m[n]
      <4>1. LET new == Drop(m, handle_id[current[r]][r])
            IN  /\ DOMAIN new = DOMAIN m \ {handle_id[current[r]][r]}
                /\ \A n \in DOMAIN m \ {handle_id[current[r]][r]} : new[n] = m[n]
        BY <1>1, DropFromMap
      <4>2. QED
        BY <3>1, <4>1
    <3>4. QED
      BY <1>5, <1>7, <2>4, <3>1, <3>2, <3>3
  <2>5. CASE pc[r] \in Dropping
    <3>1. /\ wholegraph_map'[r] = m /\ pc'[r] \notin Creating /\ pc[r] # "create"
          /\ pc'[r] \in Dropping => current'[r] = current[r]
      BY <2>5, MovesMap DEF Creating, Dropping
    <3>2. current[r] \in Op
      BY <2>5, OldOnes
    <3>3. QED
      BY <1>5, <1>7, <2>5, <3>1, <3>2
  <2>6. CASE pc[r] \in Ending \cup {"idle", "closing"}
    <3>1. wholegraph_map'[r] = m /\ pc'[r] \notin Creating \cup Dropping /\ pc[r] # "create"
      BY <2>6, MovesMap DEF Ending
    <3>2. QED
      BY <1>5, <1>7, <3>1
  <2>7. QED
    BY <1>1, <2>1, <2>2, <2>3, <2>4, <2>5, <2>6 DEF Waiting
<1>9. Rank' = Rank /\ Op' = Op
  BY DEF Rank, Op
<1>10. QED
  BY <1>3, <1>6, <1>8, <1>9 DEF Ids

\* A rank takes the id that those ahead of it have taken.
LEMMA MovesSameIds ==
  ASSUME ValidProgram, Control, SameSent, InStep, Ids, SameIds, NEW r \in Rank, Moves(r)
  PROVE  SameIds'
<1> DEFINE m == wholegraph_map[r]
<1>1. program' = program /\ Rank' = Rank /\ Op' = Op /\ handle_id \in [Op -> [Rank -> Nat]]
  BY DEF Moves, Rank, Op, Ids
<1>2. /\ pc[r] = "create" => handle_id' = [handle_id EXCEPT ![current[r]][r] = FreeIn(m)]
      /\ pc[r] # "create" => handle_id' = handle_id
  BY DEF Moves
<1>3. \A q \in Rank, h \in Op :
        handle_id'[h][q] = IF q = r /\ pc[r] = "create" /\ h = current[r] THEN FreeIn(m)
                           ELSE handle_id[h][q]
  BY <1>1, <1>2, NewOnes, SMTT(30)
<1>4. ASSUME NEW q \in Rank \ {r}, NEW h \in Op PROVE Named(q, h)' <=> Named(q, h)
  <2>1. pc'[q] = pc[q] /\ done'[q] = done[q]
    BY PlacesAfter DEF At, Place
  <2>2. QED
    BY <2>1 DEF Named
<1>5. ASSUME NEW h \in Op, program[h].op = "create", Named(r, h)', ~ Named(r, h)
      PROVE  pc[r] = "create" /\ h = current[r]
  <2>1. h \in Nat /\ done[r] \in Nat /\ ~ h <= done[r]
    BY <1>5, MaxOpsAssumption DEF Named, Op, Control
  <2>2. h = done[r] + 1 /\ (pc'[r] \in Creating \/ done'[r] = done[r] + 1)
    <3>1. h <= done'[r] \/ (h = done'[r] + 1 /\ pc'[r] \in Creating)
      BY <1>5 DEF Named
    <3>2. /\ done'[r] = done[r] \/ done'[r] = done[r] + 1
          /\ pc'[r] \in Creating => done'[r] = done[r]
      <4>1. pc[r] \in Waiting \cup {"idle", "closing"}
        BY DEF Control
      <4>2. QED
        BY <4>1, MovesMap DEF Waiting, Creating, Dropping, Ending
    <3>3. QED
      BY <2>1, <3>1, <3>2
  <2>3. pc[r] \notin Creating
    BY <1>5, <2>2 DEF Named
  <2>4. pc[r] = "create"
    <3>1. CASE pc'[r] \in Creating
      BY <2>3, <3>1, MovesMap DEF Control, Waiting, Creating, Dropping
    <3>2. CASE done'[r] = done[r] + 1
      BY <1>5, <2>1, <2>2, <2>3, <3>2, MovesMap DEF Creating
    <3>3. QED
      BY <2>2, <3>1, <3>2
  <2>5. QED
    BY <2>2, <2>4, NewOnes
<1>6. ASSUME pc[r] = "create", NEW q \in Rank \ {r}, Named(q, current[r])
      PROVE  handle_id[current[r]][q] = FreeIn(m)
  <2> DEFINE h == current[r]
             u == FreeIn(m)
  <2>1. /\ h = done[r] + 1 /\ h \in Op /\ u \in 0 .. MaxOps /\ u \notin DOMAIN m /\ m \in Maps
        /\ done[r] \in Nat /\ done[q] \in Nat /\ Waits(r) /\ AllEntered(r)
    BY <1>6, NewOnes DEF Control, Waits, Waiting, Moves
  <2>2. Count(q) >= Count(r) /\ Count(q) \in Nat /\ Count(r) \in Nat
    BY <2>1 DEF AllEntered, Count, SameSent
  <2>3. At(q) # At(r)
    BY <1>6, <2>1 DEF Named, At, Place, Creating
  <2>4. ASSUME wholegraph_map[q] = Put(m, u, h) PROVE handle_id[h][q] = u
    <3>1. u \in DOMAIN wholegraph_map[q] /\ wholegraph_map[q][u] = h
      BY <1>6, <2>4, NewMap
    <3>2. QED
      BY <3>1 DEF Ids
  <2>5. CASE Count(q) = Count(r)
    <3>1. At(q) = Pass(program, At(r))
      BY <2>1, <2>3, <2>5 DEF InStep, Level
    <3>2. QED
      BY <1>6, <2>4, <3>1 DEF Pass, At, Place
  <2>6. CASE Count(q) > Count(r)
    <3>1. At(q) = Go(program, At(r)) /\ Waits(q)
      BY <2>1, <2>6 DEF InStep, Ahead
    <3>2. CASE Final(program, At(r))
      <4>1. Pass(program, At(r)) = Place(done[r] + 1, "idle", None, Put(m, u, h))
        BY <1>6 DEF Pass, At, Place
      <4>2. At(q) = Begin(program, Pass(program, At(r)))
        BY <3>1, <3>2, GoFinal
      <4>3. Pass(program, At(r)).pc = "idle"
        BY <4>1 DEF Place
      <4>4. At(q).map = Put(m, u, h)
        BY <4>1, <4>2, <4>3 DEF Begin, Place
      <4>5. QED
        BY <2>4, <4>4 DEF At, Place
    <3>3. CASE ~ Final(program, At(r))
      <4>1. At(q) = Place(done[r], Stage("create", KindOf(h) \in HostKind), h, m)
        BY <1>6, <3>1, <3>3 DEF Go, At, Place, KindOf
      <4>2. pc[q] \in {"created", "sockets"} /\ current[q] = h /\ wholegraph_map[q] = m
        BY <4>1 DEF At, Place, Stage
      <4>3. QED
        BY <4>2 DEF Ids, Creating
    <3>4. QED
      BY <3>2, <3>3
  <2>7. QED
    BY <2>2, <2>5, <2>6
<1>7. ASSUME NEW h \in Op, NEW q \in Rank, NEW u \in Rank,
             Named(q, h)', Named(u, h)', program[h].op = "create"
      PROVE  handle_id'[h][q] = handle_id'[h][u]
  <2>1. SUFFICES ASSUME NEW v \in Rank \ {r}, Named(v, h), Named(r, h)'
                 PROVE  handle_id'[h][v] = handle_id'[h][r]
    <3>1. CASE q = r /\ u = r
      BY <3>1
    <3>2. CASE q # r /\ u # r
      BY <1>3, <1>4, <1>7, <3>2 DEF SameIds
    <3>3. CASE q = r /\ u # r
      BY <1>4, <1>7, <2>1, <3>3
    <3>4. CASE q # r /\ u = r
      BY <1>4, <1>7, <2>1, <3>4
    <3>5. QED
      BY <3>1, <3>2, <3>3, <3>4
  <2>2. CASE pc[r] = "create" /\ h = current[r]
    BY <1>3, <1>6, <2>1, <2>2
  <2>3. CASE ~ (pc[r] = "create" /\ h = current[r])
    <3>1. Named(r, h)
      BY <1>5, <1>7, <2>1, <2>3
    <3>2. QED
      BY <1>3, <1>7, <2>1, <2>3, <3>1 DEF SameIds
  <2>4. QED
    BY <2>2, <2>3
<1>8. QED
  BY <1>1, <1>7 DEF SameIds

-----------------------------------------------------------------------------
\* What a rank enters a collective with is a kind or a number.
LEMMA TokenType ==
  ASSUME NEW p, Valid(p), NEW c, InPlace(p, c), c.pc \in Waiting
  PROVE  Token(p, c) \in Waiting \X (Kind \cup Nat)
<1>1. /\ Len(p) \in 0 .. MaxOps /\ c.done \in 0 .. Len(p) /\ c.map \in Maps
      /\ \A n, k \in DOMAIN c.map : c.map[n] = c.map[k] => n = k
      /\ InCall(p, c) /\ HoldsLive(p, c)
  BY DEF Valid, InPlace
<1>2. c.pc = "create" => p[c.current].kind \in Kind
  BY <1>1, MaxOpsAssumption DEF InCall, Valid, ValidCall
<1>3. c.pc = "destroy" => IdIn(c.map, c.current) \in Nat
  <2>1. SUFFICES ASSUME c.pc = "destroy" PROVE IdIn(c.map, c.current) \in Nat
    OBVIOUS
  <2>2. IdIn(c.map, c.current) \in DOMAIN c.map
    BY <1>1, <2>1, HeldDrop DEF HoldsLive
  <2>3. DOMAIN c.map \subseteq 0 .. MaxOps
    BY <1>1, MapType
  <2>4. QED
    BY <2>2, <2>3, MaxOpsAssumption
<1>4. Cardinality(DOMAIN c.map) \in Nat
  <2>1. DOMAIN c.map \subseteq 0 .. MaxOps
    BY <1>1, MapType
  <2>2. IsFiniteSet(0 .. MaxOps)
    BY FS_Interval, MaxOpsAssumption
  <2>3. QED
    BY <2>1, <2>2, FS_Subset, FS_CardinalityType
<1>5. QED
  BY <1>2, <1>3, <1>4 DEF Token, None

\* Ranks enter the same collectives with the same.
LEMMA MovesSameSent ==
  ASSUME ValidProgram, Control, SameSent, InStep, Ids, NEW r \in Rank, Moves(r)
  PROVE  SameSent'
<1> DEFINE S == Waiting \X (Kind \cup Nat)
           t == Token(program, At(r)')
<1>1. program' = program /\ Rank' = Rank /\ sent \in [Rank -> Seq(S)] /\ Count(r) \in Nat
      /\ Count(r)' = Len(sent'[r])
  BY DEF Moves, Rank, SameSent, Count
<1>2. InPlace(program, At(r)') /\ Valid(program) /\ InStep' /\ ValidProgram' /\ Control'
  BY MovesControl, MovesInStep DEF ValidProgram
<1>3. /\ \A q \in Rank \ {r} : /\ At(q)' = At(q) /\ sent'[q] = sent[q]
                               /\ Count(q)' = Count(q) /\ (Waits(q)' <=> Waits(q))
      /\ Waits(r)' <=> At(r)'.pc \in Waiting
  BY PlacesAfter
<1>4. \/ sent'[r] = sent[r] /\ ~ Waits(r)'
      \/ sent'[r] = Append(sent[r], t) /\ Waits(r)'
  BY PlacesAfter, PlaceKinds
<1>5. sent' \in [Rank -> Seq(S)]
  <2>1. DOMAIN sent' = Rank
    BY <1>1 DEF Moves, EnterAt
  <2>2. Waits(r)' => t \in S
    BY <1>2, <1>3, TokenType
  <2>3. \A q \in Rank : sent'[q] \in Seq(S)
    <3>1. \A q \in Rank \ {r} : sent'[q] \in Seq(S)
      BY <1>1, <1>3
    <3>2. Waits(r)' => Append(sent[r], t) \in Seq(S)
      BY <1>1, <2>2
    <3>3. sent'[r] \in Seq(S)
      BY <1>1, <1>4, <3>2
    <3>4. QED
      BY <3>1, <3>3
  <2>4. sent' = [q \in Rank |-> sent'[q]]
    BY <1>1, <2>1 DEF Moves, EnterAt
  <2>5. QED
    BY <2>3, <2>4
<1>6. sent'[r] = Append(sent[r], t) =>
        /\ Count(r)' = Count(r) + 1 /\ sent'[r][Count(r)'] = t
        /\ \A i \in 1 .. Count(r) : sent'[r][i] = sent[r][i]
  BY <1>1, Appended DEF Count
<1>7. \A q \in Rank : Waits(q)' => Count(q)' > 0 /\ sent'[q][Count(q)'] = Token(program', At(q)')
  BY <1>1, <1>3, <1>4, <1>6 DEF SameSent
<1>8. ASSUME NEW q \in Rank \ {r}, NEW i \in Nat, 1 <= i, i <= Count(q)', i <= Count(r)'
      PROVE  sent'[q][i] = sent'[r][i]
  <2>1. Count(q) \in Nat
    BY DEF Count, SameSent
  <2>2. CASE sent'[r] = sent[r]
    BY <1>1, <1>3, <1>8, <2>1, <2>2 DEF SameSent, Count
  <2>3. CASE sent'[r] = Append(sent[r], t) /\ i <= Count(r)
    BY <1>1, <1>3, <1>6, <1>8, <2>1, <2>3 DEF SameSent
  <2>4. CASE sent'[r] = Append(sent[r], t) /\ i > Count(r)
    <3>1. i = Count(r)' /\ i = Count(r) + 1 /\ Waits(r)'
      BY <1>1, <1>4, <1>6, <1>8, <2>4
    <3>2. Count(q)' = i /\ Waits(q)' /\ At(q)' = At(r)'
      <4>1. Count(q)' > Count(r)' => Ahead(r, q)'
        BY <1>1, <1>2 DEF InStep
      <4>2. Count(q) > Count(r) => Ahead(r, q)
        BY DEF InStep
      <4>3. Count(q) = Count(r) + 1
        BY <1>1, <1>3, <1>8, <2>1, <3>1, <4>2 DEF Ahead
      <4>4. Waits(q)' /\ Count(q)' = Count(r)'
        BY <1>1, <1>3, <2>1, <3>1, <4>2, <4>3 DEF Ahead
      <4>5. Level(r, q)'
        BY <1>1, <1>2, <4>4 DEF InStep
      <4>6. QED
        BY <3>1, <4>4, <4>5 DEF Level
    <3>3. sent'[q][i] = Token(program', At(q)') /\ sent'[r][i] = Token(program', At(r)')
      BY <1>7, <3>1, <3>2
    <3>4. QED
      BY <3>2, <3>3
  <2>5. QED
    BY <1>1, <1>4, <1>8, <2>2, <2>3, <2>4
<1>9. \A q \in Rank : Count(q)' \in Nat
  BY <1>5 DEF Count
<1>10. ASSUME NEW q \in Rank, NEW u \in Rank, NEW i \in 1 .. Count(q)', i <= Count(u)'
       PROVE  sent'[u][i] = sent'[q][i]
  <2>1. i \in Nat /\ 1 <= i /\ i <= Count(q)'
    BY <1>9
  <2>2. CASE q = r \/ u = r
    BY <1>8, <1>10, <2>1, <2>2
  <2>3. CASE q # r /\ u # r
    BY <1>3, <1>10, <2>1, <2>3 DEF SameSent
  <2>4. QED
    BY <2>2, <2>3
<1>11. QED
  BY <1>1, <1>5, <1>7, <1>10 DEF SameSent

LEMMA MovesPlaces ==
  ASSUME Places, NEW r \in Rank, Moves(r)
  PROVE  Places'
BY MovesControl, MovesInStep, MovesIds, MovesSameIds, MovesSameSent DEF Places

-----------------------------------------------------------------------------
\* Initially no call has been made, and nothing exists.
LEMMA InitIInv ==
  ASSUME Init
  PROVE  IInv
<1>1. /\ Rank = 0 .. WorldSize - 1 /\ None = 0 /\ MaxOps \in Nat /\ 0 \in 0 .. MaxOps
      /\ \A r \in Rank : At(r) = Place(0, "idle", None, << >>) /\ ~ Waits(r) /\ sent[r] = << >>
  BY MaxOpsAssumption DEF Init, At, Waits, Waiting, Creating, Dropping, Ending, Rank, None
<1>2. ValidProgram
  <2>1. Valid(program)
    BY <1>1 DEF Init, Valid
  <2>2. LiveAt(program, 0) = {}
    BY DEF LiveAt
  <2>3. QED
    BY <2>1, <2>2 DEF ValidProgram, Init
<1>3. << >> \in Maps /\ Held(<< >>) = {} /\ DOMAIN << >> = {}
  BY DEF Maps, Held
<1>4. Control
  <2>1. InPlace(program, Place(0, "idle", None, << >>))
    BY <1>1, <1>3 DEF InPlace, InCall, HoldsLive, LiveAt, Place, Init, Waiting, Creating, Dropping, Ending
  <2>2. QED
    BY <1>1, <1>3, <2>1 DEF Control, Init
<1>5. SameSent
  BY <1>1 DEF SameSent, Init, Count
<1>6. InStep
  BY <1>1 DEF InStep, Level, Count
<1>7. Ids /\ SameIds
  <2>1. Ids
    BY <1>3 DEF Ids, Init, Creating, Dropping
  <2>2. SameIds
    BY DEF SameIds, Init
  <2>3. QED
    BY <2>1, <2>2
<1>8. HostMemory
  <2>1. \A h \in Op : ~ KeepsKey(h)
    BY <1>1, <1>3, WorldSizeAssumption DEF KeepsKey, Init, Held
  <2>2. Keys /\ Files
    BY <1>3, <2>1 DEF Keys, Files, Init
  <2>3. Names
    BY <1>1, <1>3, WorldSizeAssumption DEF Names, Init
  <2>4. \A r \in Rank : Opened(r) /\ Mapped(r)
    BY <1>3 DEF Opened, Mapped, Init
  <2>5. QED
    BY <2>2, <2>3, <2>4 DEF HostMemory, Init
<1>9. DeviceMemory
  BY <1>3 DEF DeviceMemory, Init, HasPart, Imports
<1>10. Sockets
  BY DEF Sockets, Init
<1>11. QED
  BY <1>2, <1>4, <1>5, <1>6, <1>7, <1>8, <1>9, <1>10 DEF IInv, Places

-----------------------------------------------------------------------------
\* A program q that goes on where p ends.
Extends(q, p) == Len(q) = Len(p) + 1 /\ \A k \in 1 .. Len(p) : q[k] = p[k]

LEMMA BeginKeepsDone ==
  ASSUME NEW p, NEW c
  PROVE  Begin(p, c).done = c.done
BY DEF Begin, CloseFrom, Place

LEMMA ExtendedLive ==
  ASSUME NEW p, Valid(p), NEW q, Extends(q, p), NEW k \in 0 .. Len(p)
  PROVE  LiveAt(q, k) = LiveAt(p, k)
<1>1. \A j \in 1 .. k : q[j] = p[j]
  BY MaxOpsAssumption DEF Valid, Extends
<1>2. QED
  BY <1>1 DEF LiveAt

\* It lets the ranks be where they are.
LEMMA ExtendedPlace ==
  ASSUME NEW p, Valid(p), NEW q, Extends(q, p), NEW c, InPlace(p, c)
  PROVE  /\ InPlace(q, c)
         /\ c.pc \in Waiting => /\ Final(q, c) <=> Final(p, c)
                                /\ Token(q, c) = Token(p, c)
                                /\ Pass(q, c) = Pass(p, c)
                                /\ ~ Final(p, c) => Go(q, c) = Go(p, c)
         /\ c.done < Len(p) => Begin(q, c) = Begin(p, c)
<1>1. /\ Len(p) \in 0 .. MaxOps /\ Len(p) \in Nat /\ c.done \in 0 .. Len(p) /\ c.done \in Nat
      /\ InCall(p, c) /\ HoldsLive(p, c)
  BY MaxOpsAssumption DEF Valid, InPlace
<1>2. c.done < Len(p) => q[c.done + 1] = p[c.done + 1]
  BY <1>1 DEF Extends
<1>3. c.pc \in Creating \cup Dropping \cup {"create", "destroy"} => q[c.current] = p[c.current]
  <2>1. CASE c.pc \in Creating \cup {"create"}
    BY <1>1, <1>2, <2>1 DEF InCall, Creating
  <2>2. CASE c.pc \in Dropping \cup {"destroy"}
    <3>1. c.current \in LiveAt(p, c.done)
      BY <1>1, <2>2 DEF InCall
    <3>2. c.current \in 1 .. Len(p)
      BY <1>1, <3>1, LiveOnes
    <3>3. QED
      BY <3>2 DEF Extends
  <2>3. QED
    BY <2>1, <2>2
<1>4. c.pc # "idle" => c.done < Len(p)
  BY <1>1 DEF InCall
<1>5. LiveAt(q, c.done) = LiveAt(p, c.done)
  BY <1>1, ExtendedLive
<1>6. c.pc \in Waiting => c.pc # "idle" /\ c.pc # "closing"
  BY DEF Waiting, Creating, Dropping, Ending
<1>7. InPlace(q, c)
  <2>1. c.done \in 0 .. Len(q) /\ (c.done < Len(p) => c.done < Len(q))
    BY <1>1 DEF Extends
  <2>2. InCall(q, c)
    BY <1>1, <1>2, <1>3, <1>4, <1>5, <2>1 DEF InCall, Creating, Dropping, Ending
  <2>3. HoldsLive(q, c)
    BY <1>1, <1>2, <1>4, <1>5 DEF HoldsLive
  <2>4. QED
    BY <2>1, <2>2, <2>3 DEF InPlace
<1>8. ASSUME c.pc \in Waiting
      PROVE  (Final(q, c) <=> Final(p, c)) /\ Token(q, c) = Token(p, c)
  BY <1>3 DEF Final, Token
<1>9. ASSUME c.pc \in Waiting PROVE Pass(q, c) = Pass(p, c)
  BY <1>2, <1>4, <1>6, <1>9 DEF Pass, Left
<1>10. ASSUME c.pc \in Waiting, ~ Final(p, c) PROVE Go(q, c) = Go(p, c)
  BY <1>3, <1>8, <1>10 DEF Go, Waiting, Ending, Final
<1>11. ASSUME c.done < Len(p) PROVE Begin(q, c) = Begin(p, c)
  BY <1>2, <1>11 DEF Begin
<1>12. QED
  BY <1>7, <1>8, <1>9, <1>10, <1>11

\* A call is appended to a program that has not ended.
LEMMA IssueProgram ==
  ASSUME ValidProgram, NEW call, Issue(call),
         \/ \E kind \in Kind : call = Create(kind)
         \/ \E h \in live : call = Destroy(h)
         \/ call = Close
  PROVE  Extends(program', program) /\ ValidProgram'
<1> DEFINE n == Len(program)
           p == Append(program, call)
<1>1. /\ program \in Seq(Calls) /\ n \in 0 .. MaxOps /\ n \in Nat /\ live = LiveAt(program, n)
      /\ Valid(program) /\ n < MaxOps /\ program' = p
  BY MaxOpsAssumption DEF ValidProgram, Valid, Issue
<1>2. live \subseteq Op
  BY <1>1, LiveOnes
<1>3. call \in Calls
  BY <1>2 DEF Calls
<1>4. p \in Seq(Calls) /\ Len(p) = n + 1 /\ Len(p) \in 0 .. MaxOps /\ p[n + 1] = call
      /\ \A k \in 1 .. n : p[k] = program[k]
  BY <1>1, <1>3, Appended, MaxOpsAssumption
<1> HIDE DEF p
<1>5. Extends(p, program)
  BY <1>4 DEF Extends
<1>6. \A k \in 0 .. n : LiveAt(p, k) = LiveAt(program, k)
  BY <1>1, <1>5, ExtendedLive
<1>7. ASSUME NEW k \in 1 .. n PROVE ValidCall(p, k)
  <2>1. p[k] = program[k] /\ ValidCall(program, k) /\ k - 1 \in 0 .. n /\ program[k] \in Calls
    BY <1>1, <1>4 DEF Valid
  <2>2. program[k].op # "close"
    BY <2>1 DEF Issue, Calls, Create, Destroy, Close
  <2>3. QED
    BY <1>6, <2>1, <2>2 DEF ValidCall
<1>8. ValidCall(p, n + 1)
  <2>1. LiveAt(p, (n + 1) - 1) = live
    BY <1>1, <1>6
  <2>2. QED
    BY <1>4, <2>1 DEF ValidCall, Create, Destroy, Close
<1>9. Valid(p)
  BY <1>1, <1>4, <1>7, <1>8 DEF Valid
<1>10. live' = LiveAt(p, n + 1)
  <2>1. LiveAt(p, (n + 1) - 1) = live /\ n + 1 \in 1 .. Len(p)
    BY <1>1, <1>4, <1>6
  <2>2. /\ call.op = "create"  => LiveAt(p, n + 1) = live \cup {n + 1}
        /\ call.op = "destroy" => LiveAt(p, n + 1) = live \ {call.handle}
        /\ call.op = "close"   => LiveAt(p, n + 1) = {}
    BY <1>4, <1>9, <2>1, LiveStep
  <2>3. call.op \in {"create", "destroy", "close"}
    BY DEF Create, Destroy, Close
  <2>4. QED
    BY <2>2, <2>3 DEF Issue
<1>11. QED
  BY <1>1, <1>4, <1>5, <1>9, <1>10 DEF ValidProgram

LEMMA IssueIInv ==
  ASSUME IInv, NEW call, Issue(call),
         \/ \E kind \in Kind : call = Create(kind)
         \/ \E h \in live : call = Destroy(h)
         \/ call = Close
  PROVE  IInv'
<1>1. Extends(program', program) /\ ValidProgram'
  BY IssueProgram DEF IInv, Places
<1>2. /\ UNCHANGED <<done, pc, current, sent, wholegraph_map, handle_id, files, shmKey, shmName,
                     opened, mapped, sockets, inbox, local_alloc, imported>>
      /\ Valid(program) /\ Valid(program') /\ Len(program) \in Nat /\ Len(program') = Len(program) + 1
      /\ Rank' = Rank /\ Op' = Op /\ Maps' = Maps /\ Contributor' = Contributor
  BY <1>1, MaxOpsAssumption DEF Issue, host_vars, device_vars, IInv, Places, ValidProgram, Valid,
     Extends, Rank, Op, Maps, Contributor, FirstPage
<1>3. \A r \in Rank : /\ At(r)' = At(r) /\ (Waits(r)' <=> Waits(r)) /\ Count(r)' = Count(r)
                      /\ InPlace(program, At(r)) /\ At(r).done = done[r]
                      /\ (Waits(r) <=> At(r).pc \in Waiting) /\ done[r] \in 0 .. Len(program)
  BY <1>2 DEF At, Waits, Count, IInv, Places, Control, Place, InPlace
<1>4. \A r \in Rank : InPlace(program', At(r)) /\ (Waits(r) => Token(program', At(r)) = Token(program, At(r)))
  BY <1>1, <1>2, <1>3, ExtendedPlace
<1>5. Control' /\ SameSent'
  <2>1. Control'
    BY <1>2, <1>3, <1>4 DEF IInv, Places, Control
  <2>2. SameSent'
    BY <1>2, <1>3, <1>4 DEF IInv, Places, SameSent
  <2>3. QED
    BY <2>1, <2>2
<1>6. InStep'
  <2>1. ASSUME NEW r \in Rank, Waits(r)
        PROVE  /\ Final(program', At(r)) <=> Final(program, At(r))
               /\ Pass(program', At(r)) = Pass(program, At(r))
               /\ ~ Final(program, At(r)) => Go(program', At(r)) = Go(program, At(r))
    BY <1>1, <1>2, <1>3, <2>1, ExtendedPlace
  <2>2. ASSUME NEW r \in Rank, NEW q \in Rank, Level(r, q) PROVE Level(r, q)'
    BY <1>3, <2>1, <2>2 DEF Level
  <2>3. ASSUME NEW r \in Rank, NEW q \in Rank, Ahead(r, q) PROVE Ahead(r, q)'
    <3>1. done[q] < Len(program)
      BY <1>3, <2>3 DEF Ahead, InPlace, InCall, Waiting, Creating, Dropping, Ending
    <3>2. CASE ~ Waits(r)
      <4>1. At(q) = Begin(program, At(r)) /\ done[r] = done[q]
        BY <1>3, <2>3, <3>2, BeginKeepsDone DEF Ahead
      <4>2. Begin(program', At(r)) = Begin(program, At(r))
        BY <1>1, <1>2, <1>3, <3>1, <4>1, ExtendedPlace
      <4>3. QED
        BY <1>3, <2>3, <3>2, <4>1, <4>2 DEF Ahead
    <3>3. CASE Waits(r) /\ ~ Final(program, At(r))
      BY <1>3, <2>1, <2>3, <3>3 DEF Ahead
    <3>4. CASE Waits(r) /\ Final(program, At(r))
      <4> DEFINE c == Pass(program, At(r))
      <4>1. At(q) = Begin(program, c) /\ c.done = done[q]
        BY <1>3, <2>3, <3>4, BeginKeepsDone, GoFinal DEF Ahead
      <4>2. InPlace(program, c)
        BY <1>2, <1>3, <3>4, PassInPlace
      <4>3. Begin(program', c) = Begin(program, c)
        BY <1>1, <1>2, <3>1, <4>1, <4>2, ExtendedPlace
      <4>4. Go(program', At(r)) = Begin(program', c)
        BY <2>1, <3>4, GoFinal
      <4>5. QED
        BY <1>3, <2>3, <3>4, <4>1, <4>3, <4>4 DEF Ahead
    <3>5. QED
      BY <3>2, <3>3, <3>4
  <2>4. QED
    BY <1>2, <1>3, <2>2, <2>3 DEF IInv, Places, InStep
<1>7. Ids' /\ SameIds'
  <2>1. Ids'
    BY <1>2 DEF IInv, Places, Ids
  <2>2. ASSUME NEW r \in Rank, NEW h \in Op, Named(r, h) PROVE program'[h] = program[h]
    <3>1. pc[r] \in Creating => done[r] < Len(program)
      BY <1>3 DEF InPlace, InCall, At, Place, Creating
    <3>2. h \in 1 .. Len(program)
      BY <1>2, <1>3, <2>2, <3>1, MaxOpsAssumption DEF Named, Op
    <3>3. QED
      BY <1>1, <3>2 DEF Extends
  <2>3. SameIds'
    BY <1>2, <2>2 DEF IInv, Places, SameIds, Named
  <2>4. QED
    BY <2>1, <2>3
<1>8. \A r \in Rank : /\ \A h \in Held(wholegraph_map[r]) : KindOf(h)' = KindOf(h)
                      /\ pc[r] \in Creating \cup Dropping => KindOf(current[r])' = KindOf(current[r])
  <2>1. \A h \in 1 .. Len(program) : KindOf(h)' = KindOf(h)
    BY <1>1 DEF Extends, KindOf
  <2>2. ASSUME NEW r \in Rank, NEW h \in Held(wholegraph_map[r]) PROVE h \in 1 .. Len(program)
    <3>1. h \in LiveAt(program, done[r])
      BY HeldOnes DEF IInv, Places
    <3>2. QED
      BY <1>2, <1>3, <3>1, LiveOnes
  <2>3. \A r \in Rank : pc[r] \in Creating \cup Dropping => current[r] \in 1 .. Len(program)
    BY NewOnes, OldOnes DEF IInv, Places
  <2>4. QED
    BY <1>2, <2>1, <2>2, <2>3
<1>9. HostMemory'
  <2>1. 0 \in Rank
    BY WorldSizeAssumption DEF Rank
  <2>2. \A h \in Op : KeepsKey(h)' <=> KeepsKey(h)
    BY <1>2, <1>8, <2>1 DEF KeepsKey, Creating, Dropping
  <2>3. Keys'
    BY <1>2, <2>2 DEF IInv, HostMemory, Keys
  <2>4. \A q \in Rank : pc[q] = "created" /\ KindOf(current[q])' = "sysv" <=>
                          pc[q] = "created" /\ KindOf(current[q]) = "sysv"
    BY <1>8 DEF Creating
  <2>5. Files'
    BY <1>2, <2>4 DEF IInv, HostMemory, Files
  <2>6. Names'
    BY <1>2, <1>8, <2>1 DEF IInv, HostMemory, Names, Creating
  <2>7. \A r \in Rank : Opened(r)' /\ Mapped(r)'
    BY <1>2, <1>8 DEF IInv, HostMemory, Opened, Mapped
  <2>8. QED
    BY <1>2, <2>3, <2>5, <2>6, <2>7 DEF IInv, HostMemory
<1>10. DeviceMemory'
  <2>1. \A r \in Rank, h \in Op : (HasPart(r, h)' <=> HasPart(r, h)) /\ (Imports(r, h)' <=> Imports(r, h))
    BY <1>2, <1>8 DEF HasPart, Imports
  <2>2. QED
    BY <1>2, <2>1 DEF IInv, DeviceMemory
<1>11. Sockets'
  BY <1>2 DEF IInv, Sockets
<1>12. QED
  BY <1>1, <1>5, <1>6, <1>7, <1>9, <1>10, <1>11 DEF IInv, Places

\* A step that changes nothing.
LEMMA StutterIInv ==
  ASSUME IInv, UNCHANGED vars
  PROVE  IInv'
<1>1. /\ UNCHANGED <<program, live, done, pc, current, sent, wholegraph_map, handle_id, files, shmKey,
                     shmName, opened, mapped, sockets, inbox, local_alloc, imported>>
      /\ Rank' = Rank /\ Op' = Op /\ Maps' = Maps /\ Contributor' = Contributor
  BY DEF vars, Rank, Op, Maps, Contributor, FirstPage
<1>2. \A r \in Rank : /\ At(r)' = At(r) /\ (Waits(r)' <=> Waits(r)) /\ Count(r)' = Count(r)
  BY <1>1 DEF At, Waits, Count
<1>3. \A h : KindOf(h)' = KindOf(h)
  BY <1>1 DEF KindOf
<1>4. (ValidProgram /\ Control /\ SameSent)'
  BY <1>1, <1>2 DEF IInv, Places, ValidProgram, Control, SameSent
<1>5. InStep'
  BY <1>1, <1>2 DEF IInv, Places, InStep, Level, Ahead
<1>6. (Ids /\ SameIds)'
  BY <1>1 DEF IInv, Places, Ids, SameIds, Named
<1>7. HostMemory'
  <2>1. \A h \in Op : KeepsKey(h)' <=> KeepsKey(h)
    BY <1>1, <1>3 DEF KeepsKey
  <2>2. Keys' /\ Files' /\ Names'
    BY <1>1, <1>3, <2>1 DEF IInv, HostMemory, Keys, Files, Names
  <2>3. \A r \in Rank : Opened(r)' /\ Mapped(r)'
    BY <1>1, <1>3 DEF IInv, HostMemory, Opened, Mapped
  <2>4. QED
    BY <1>1, <2>2, <2>3 DEF IInv, HostMemory
<1>8. DeviceMemory'
  <2>1. \A r \in Rank, h \in Op : (HasPart(r, h)' <=> HasPart(r, h)) /\ (Imports(r, h)' <=> Imports(r, h))
    BY <1>1, <1>3 DEF HasPart, Imports
  <2>2. QED
    BY <1>1, <2>1 DEF IInv, DeviceMemory
<1>9. Sockets'
  BY <1>1 DEF IInv, Sockets
<1>10. QED
  BY <1>4, <1>5, <1>6, <1>7, <1>8, <1>9 DEF IInv, Places

-----------------------------------------------------------------------------
\* Ranks that meet in a collective mean the same one.
LEMMA NoDisagreement ==
  ASSUME Places, NEW r \in Rank
  PROVE  ~ Disagreement(r)
<1>1. SUFFICES ASSUME Disagreement(r) PROVE FALSE
  OBVIOUS
<1>2. Waits(r) /\ AllEntered(r)
  BY <1>1 DEF Disagreement, Waits, Places, Control
<1>3. \A q \in Rank : Count(q) \in Nat /\ Count(r) <= Count(q)
  BY <1>2 DEF AllEntered, Count, Places, SameSent
<1>4. Count(r) > 0 /\ Count(r) \in 1 .. Count(r)
  BY <1>2, <1>3 DEF Places, SameSent
<1>5. \A q \in Rank : sent[q][Count(r)] = sent[r][Count(r)]
  BY <1>3, <1>4 DEF Places, SameSent
<1>6. QED
  BY <1>1, <1>5 DEF Disagreement, AllSame, Count

\* Where the other ranks can be when r goes on: with it, or where it goes now; if it
\* leaves the last collective of a call, they may have entered the next one.
LEMMA Others ==
  ASSUME Places, NEW r \in Rank, Waits(r), AllEntered(r), NEW q \in Rank
  PROVE  \/ At(q) = At(r)
         \/ ~ Final(program, At(r)) /\ At(q) = Go(program, At(r))
         \/ Final(program, At(r)) /\ At(q) = Pass(program, At(r))
         \/ Final(program, At(r)) /\ At(q) = Begin(program, Pass(program, At(r)))
<1>1. Count(q) >= Count(r) /\ Count(q) \in Nat /\ Count(r) \in Nat
  BY DEF AllEntered, Count, Places, SameSent
<1>2. CASE Count(q) = Count(r)
  BY <1>2 DEF Places, InStep, Level
<1>3. CASE Count(q) > Count(r)
  BY <1>3, GoFinal DEF Places, InStep, Ahead
<1>4. QED
  BY <1>1, <1>2, <1>3

\* In the middle of a call: the handle is the same, and the map if it stays.
LEMMA OthersInCall ==
  ASSUME Places, NEW r \in Rank, NEW what \in Waiting \ Ending, Through(r, what), NEW q \in Rank,
         ~ Final(program, At(r))
  PROVE  /\ done[q] = done[r] /\ current[q] = current[r]
         /\ pc[q] \in {what, Stage(what, KindOf(current[r]) \in HostKind)}
         /\ what # "destroy" => wholegraph_map[q] = wholegraph_map[r]
         /\ pc[q] = what => wholegraph_map[q] = wholegraph_map[r]
<1>1. pc[r] = what /\ Waits(r) /\ AllEntered(r) /\ what # "destroy_all"
  BY DEF Through, Waits, Ending
<1>2. \/ At(q) = At(r) \/ At(q) = Go(program, At(r))
  BY <1>1, Others
<1>3. CASE At(q) = At(r)
  BY <1>1, <1>3 DEF At, Place
<1>4. CASE At(q) = Go(program, At(r))
  <2>1. \E m : /\ At(q) = Place(done[r], Stage(what, KindOf(current[r]) \in HostKind), current[r], m)
               /\ what # "destroy" => m = wholegraph_map[r]
    BY <1>1, <1>4 DEF Go, At, Place, KindOf
  <2>2. Stage(what, KindOf(current[r]) \in HostKind) # what
    BY <1>1 DEF Stage, Final, At, Place, Waiting, Creating, Dropping, Ending
  <2>3. QED
    BY <2>1, <2>2 DEF At, Place
<1>5. QED
  BY <1>2, <1>3, <1>4

\* The maps of the other ranks when r creates a handle.
LEMMA OthersMaps ==
  ASSUME Places, NEW r \in Rank, Through(r, "create"), NEW q \in Rank
  PROVE  LET m == wholegraph_map[r]
         IN  wholegraph_map[q] \in {m, Put(m, FreeIn(m), current[r])}
<1>1. pc[r] = "create" /\ Waits(r) /\ AllEntered(r)
  BY DEF Through, Waits, Waiting
<1>2. \A p, c : Begin(p, c).map = c.map
  BY DEF Begin, CloseFrom, Place
<1>3. CASE ~ Final(program, At(r))
  BY <1>3, OthersInCall DEF Waiting, Ending
<1>4. CASE Final(program, At(r))
  <2>1. Pass(program, At(r)).map = Put(wholegraph_map[r], FreeIn(wholegraph_map[r]), current[r])
    BY <1>1 DEF Pass, At, Place
  <2>2. At(q).map = wholegraph_map[q] /\ At(r).map = wholegraph_map[r]
    BY DEF At, Place
  <2>3. QED
    BY <1>1, <1>2, <1>4, <2>1, <2>2, Others
<1>5. QED
  BY <1>3, <1>4

\* What the ranks agree on in the negotiation is the smallest id that is free at r.
LEMMA AgreedId ==
  ASSUME Places, NEW r \in Rank, Through(r, "create")
  PROVE  FreeId(current[r]) = FreeIn(wholegraph_map[r])
<1> DEFINE m == wholegraph_map[r]
           h == current[r]
<1>1. FreeIn(m) \notin DOMAIN m /\ h \notin Held(m)
  BY NewOnes DEF Places, Through
<1>2. DOMAIN Put(m, FreeIn(m), h) = DOMAIN m \cup {FreeIn(m)} /\ Put(m, FreeIn(m), h)[FreeIn(m)] = h
  BY NewMap DEF Places, Through
<1>3. ASSUME NEW n \in 0 .. MaxOps
      PROVE  (\A q \in Rank : n \in DOMAIN wholegraph_map[q] => wholegraph_map[q][n] = h)
               <=> n \notin DOMAIN m
  <2>1. ASSUME n \in DOMAIN m PROVE m[n] # h
    BY <1>1, <2>1 DEF Held
  <2>2. ASSUME n \notin DOMAIN m, NEW q \in Rank, n \in DOMAIN wholegraph_map[q]
        PROVE  wholegraph_map[q][n] = h
    <3>1. wholegraph_map[q] = Put(m, FreeIn(m), h)
      BY <2>2, OthersMaps
    <3>2. QED
      BY <1>2, <2>2, <3>1
  <2>3. QED
    BY <2>1, <2>2
<1>4. {n \in 0 .. MaxOps : \A q \in Rank : n \in DOMAIN wholegraph_map[q] => wholegraph_map[q][n] = h}
      = {n \in 0 .. MaxOps : n \notin DOMAIN m}
  BY <1>3
<1>5. QED
  BY <1>4 DEF FreeId, FreeIn

-----------------------------------------------------------------------------
\* Each action is a step of its rank, and keeps the objects in agreement with the
\* places.  First the steps that change no map and no object.
Quiet == {"idle", "closing", "create", "destroy", "removed"} \cup Ending

LEMMA Unmoved ==
  ASSUME Control, NEW r \in Rank
  PROVE  /\ [done EXCEPT ![r] = done[r]] = done
         /\ [current EXCEPT ![r] = current[r]] = current
         /\ [wholegraph_map EXCEPT ![r] = wholegraph_map[r]] = wholegraph_map
BY DEF Control

LEMMA SetAtPlace ==
  ASSUME NEW r, NEW d, NEW p, NEW h, NEW m, NEW c, c = Place(d, p, h, m),
         done' = [done EXCEPT ![r] = d], pc' = [pc EXCEPT ![r] = p],
         current' = [current EXCEPT ![r] = h], wholegraph_map' = [wholegraph_map EXCEPT ![r] = m]
  PROVE  SetAt(r, c)
<1>1. c.done = d /\ c.pc = p /\ c.current = h /\ c.map = m
  BY DEF Place
<1>2. QED
  BY <1>1 DEF SetAt

\* A rank that r meets in the destruction of the communicator binds no socket.
LEMMA NoSockets ==
  ASSUME IInv, NEW r \in Rank, Through(r, "destroy_comm")
  PROVE  sockets = {}
<1>1. Places /\ Waits(r) /\ AllEntered(r) /\ pc[r] = "destroy_comm" /\ Final(program, At(r))
  BY DEF Through, Waits, Waiting, Ending, Final, At, Place, IInv
<1>2. ASSUME NEW q \in Rank PROVE pc[q] \notin {"bound", "sent", "received"}
  <2>1. Pass(program, At(r)) = Place(done[r] + 1, "idle", None, wholegraph_map[r])
    BY <1>1 DEF Pass, At, Place
  <2>2. \/ At(q) = At(r) \/ At(q) = Pass(program, At(r))
        \/ At(q) = Begin(program, Pass(program, At(r)))
    BY <1>1, Others
  <2>3. \A c : c.pc = "idle" => Begin(program, c).pc \in {"create", "destroy", "destroy_all"}
    BY DEF Begin, Place
  <2>4. At(q).pc \notin {"bound", "sent", "received"}
    BY <1>1, <2>1, <2>2, <2>3 DEF At, Place
  <2>5. QED
    BY <2>4 DEF At, Place
<1>3. QED
  BY <1>2 DEF IInv, Sockets

LEMMA QuietMoves ==
  ASSUME IInv, NEW r \in Rank,
         \/ StartCreate(r) \/ DestroyOne(r) \/ StartClose(r) \/ CloseNext(r) \/ CloseEmpty(r)
         \/ Closed(r) \/ FinishDestroy(r)
  PROVE  /\ Moves(r)
         /\ UNCHANGED <<wholegraph_map, host_vars, device_vars>>
         /\ pc[r] \in Quiet \ {"create", "destroy"} /\ pc'[r] \in Quiet \ {"removed"}
<1> DEFINE d == done[r]
           m == wholegraph_map[r]
<1>1. /\ Places /\ Control /\ Valid(program) /\ Len(program) \in 0 .. MaxOps /\ d \in 0 .. Len(program)
      /\ pc \in [Rank -> Waiting \cup {"idle", "closing"}] /\ m \in Maps
      /\ InCall(program, At(r)) /\ HoldsLive(program, At(r))
  BY DEF IInv, Places, ValidProgram, Valid, Control, InPlace, At, Place
<1>2. /\ [done EXCEPT ![r] = done[r]] = done /\ [current EXCEPT ![r] = current[r]] = current
      /\ [wholegraph_map EXCEPT ![r] = m] = wholegraph_map
  BY <1>1, Unmoved
<1>3. pc[r] \in Ending \cup {"idle", "closing"} => current[r] = None
  BY <1>1 DEF InCall, At, Place
<1>4. pc[r] # "idle" => Behind(r)
  BY <1>1 DEF InCall, Behind, At, Place
<1>5. ASSUME NEW h \in Held(m)
      PROVE  handle_id[h][r] \in DOMAIN m /\ IdIn(m, h) = handle_id[h][r]
  BY HeldOnes DEF IInv, Places, At, Place
<1>6. CASE StartCreate(r)
  <2> DEFINE h == d + 1
  <2>1. Begin(program, At(r)) = Place(d, "create", h, m)
        /\ Token(program, Begin(program, At(r))) = <<"create", program[d + 1].kind>>
    BY <1>6 DEF StartCreate, NextCall, Begin, Token, At, Place
  <2>2. EnterAt(r, Begin(program, At(r)))
    <3>1. /\ current' = [current EXCEPT ![r] = h] /\ Enter(r, "create", program[d + 1].kind)
          /\ UNCHANGED <<done, wholegraph_map>>
      BY <1>6 DEF StartCreate, NextCall, program_vars
    <3> HIDE DEF h
    <3>2. SetAt(r, Begin(program, At(r)))
      BY <1>2, <2>1, <3>1, SetAtPlace DEF Enter
    <3>3. QED
      BY <2>1, <3>1, <3>2 DEF EnterAt, Enter
  <2>3. QED
    BY <1>1, <1>6, <2>2
    DEF StartCreate, Enter, Moves, Waits, Waiting, Creating, Dropping, Ending, Quiet, program_vars, At, Place
<1>7. CASE DestroyOne(r)
  <2> DEFINE h == program[d + 1].handle
  <2>1. pc[r] = "idle" /\ d + 1 \in 1 .. Len(program) /\ program[d + 1].op = "destroy" /\ Behind(r)
    BY <1>1, <1>7 DEF DestroyOne, Behind, NextCall, At, Place
  <2>2. h \in LiveAt(program, d)
    BY <1>1, <2>1 DEF Valid, ValidCall, At, Place
  <2>3. h \in Held(m)
    BY <1>1, <2>1, <2>2 DEF HoldsLive, Dropping, At, Place
  <2>4. handle_id[h][r] \in DOMAIN m /\ IdIn(m, h) = handle_id[h][r]
    BY <1>5, <2>3
  <2>5. Begin(program, At(r)) = Place(d, "destroy", h, m)
        /\ Token(program, Begin(program, At(r))) = <<"destroy", handle_id[h][r]>>
    BY <2>1, <2>4 DEF Begin, Token, At, Place
  <2>6. current' = [current EXCEPT ![r] = h] /\ Enter(r, "destroy", handle_id[h][r])
        /\ UNCHANGED <<program_vars, wholegraph_map, handle_id, host_vars, device_vars>>
    BY <1>7, <2>4 DEF DestroyOne, StartDestroy, NextCall, At, Place
  <2> HIDE DEF h
  <2>7. EnterAt(r, Begin(program, At(r)))
    <3>1. SetAt(r, Begin(program, At(r)))
      BY <1>2, <2>5, <2>6, SetAtPlace DEF Enter, program_vars
    <3>2. QED
      BY <2>5, <2>6, <3>1 DEF EnterAt, Enter
  <2>8. QED
    BY <1>1, <2>1, <2>6, <2>7
    DEF Enter, Moves, Waits, Waiting, Creating, Dropping, Ending, Quiet, program_vars, At, Place
<1>8. CASE StartClose(r)
  <2>1. Begin(program, At(r)) = Place(d, "destroy_all", None, m)
        /\ Token(program, Begin(program, At(r))) = <<"destroy_all", Cardinality(DOMAIN m)>>
    BY <1>8 DEF StartClose, NextCall, Begin, Token, At, Place
  <2>2. EnterAt(r, Begin(program, At(r)))
    <3>1. current' = [current EXCEPT ![r] = None] /\ Enter(r, "destroy_all", Cardinality(DOMAIN m))
          /\ UNCHANGED <<done, wholegraph_map>>
      BY <1>2, <1>3, <1>8 DEF StartClose, program_vars, At, Place
    <3>2. SetAt(r, Begin(program, At(r)))
      BY <1>2, <2>1, <3>1, SetAtPlace DEF Enter
    <3>3. QED
      BY <2>1, <3>1, <3>2 DEF EnterAt, Enter
  <2>3. QED
    BY <1>1, <1>8, <2>2
    DEF StartClose, Enter, Moves, Waits, Waiting, Creating, Dropping, Ending, Quiet, program_vars, At, Place
<1>9. ASSUME Closing(r), EnterAt(r, CloseFrom(d, m)), UNCHANGED <<program, live, handle_id>>
      PROVE  Moves(r)
  <2>1. CASE pc[r] = "closing"
    <3>1. ~ Waits(r) /\ Begin(program, At(r)) = CloseFrom(d, m)
      BY <2>1 DEF Begin, Waits, Waiting, Creating, Dropping, Ending, At, Place
    <3>2. QED
      BY <1>4, <1>9, <2>1, <3>1 DEF Moves, At, Place
  <2>2. CASE Through(r, "destroy_all")
    <3>1. /\ pc[r] = "destroy_all" /\ Waits(r) /\ AllEntered(r) /\ ~ Final(program, At(r))
          /\ Go(program, At(r)) = CloseFrom(d, m)
      BY <2>2 DEF Through, Go, Final, Waits, Waiting, Ending, At, Place
    <3>2. QED
      BY <1>9, <3>1 DEF Moves, At, Place
  <2>3. QED
    BY <1>9, <2>1, <2>2 DEF Closing, At, Place
<1>10. Closing(r) => pc[r] \in {"closing", "destroy_all"}
  BY DEF Closing, Through, At, Place
<1>11. CASE CloseNext(r)
  <2> DEFINE h == m[Min(DOMAIN m)]
  <2>1. h \in Held(m)
    BY <1>1, <1>11, FirstHandle DEF CloseNext, At, Place
  <2>2. handle_id[h][r] \in DOMAIN m /\ IdIn(m, h) = handle_id[h][r]
    BY <1>5, <2>1
  <2>3. CloseFrom(d, m) = Place(d, "destroy", h, m)
        /\ Token(program, CloseFrom(d, m)) = <<"destroy", handle_id[h][r]>>
    BY <1>11, <2>2 DEF CloseNext, CloseFrom, Token, At, Place
  <2>4. current' = [current EXCEPT ![r] = h] /\ Enter(r, "destroy", handle_id[h][r])
        /\ UNCHANGED <<program_vars, wholegraph_map, handle_id, host_vars, device_vars>>
    BY <1>11, <2>2 DEF CloseNext, StartDestroy, At, Place
  <2> HIDE DEF h
  <2>5. EnterAt(r, CloseFrom(d, m))
    <3>1. SetAt(r, CloseFrom(d, m))
      BY <1>2, <2>3, <2>4, SetAtPlace DEF Enter, program_vars
    <3>2. QED
      BY <2>3, <2>4, <3>1 DEF EnterAt, Enter
  <2>6. QED
    BY <1>1, <1>9, <1>10, <1>11, <2>4, <2>5 DEF CloseNext, Enter, Quiet, Ending, program_vars, At, Place
<1>12. CASE CloseEmpty(r)
  <2>1. CloseFrom(d, m) = Place(d, "destroy_comm", None, m)
        /\ Token(program, CloseFrom(d, m)) = <<"destroy_comm", None>>
    BY <1>12 DEF CloseEmpty, CloseFrom, Token, At, Place
  <2>2. EnterAt(r, CloseFrom(d, m))
    <3>1. current' = [current EXCEPT ![r] = None] /\ Enter(r, "destroy_comm", None)
          /\ UNCHANGED <<done, wholegraph_map>>
      BY <1>2, <1>3, <1>10, <1>12 DEF CloseEmpty, program_vars, Ending, At, Place
    <3>2. SetAt(r, CloseFrom(d, m))
      BY <1>2, <2>1, <3>1, SetAtPlace DEF Enter
    <3>3. QED
      BY <2>1, <3>1, <3>2 DEF EnterAt, Enter
  <2>3. QED
    BY <1>1, <1>9, <1>10, <1>12, <2>2 DEF CloseEmpty, Enter, Quiet, Ending, program_vars, At, Place
<1>13. CASE Closed(r)
  <2>1. pc[r] = "destroy_comm" /\ Waits(r) /\ AllEntered(r) /\ Final(program, At(r))
        /\ Pass(program, At(r)) = Place(d + 1, "idle", None, m)
    BY <1>13 DEF Closed, Through, Final, Pass, Waits, Waiting, Ending, At, Place
  <2>2. Return(r) /\ UNCHANGED <<wholegraph_map, handle_id, host_vars, device_vars>>
    BY <1>13, NoSockets DEF Closed, At, Place
  <2>3. SetAt(r, Pass(program, At(r)))
    BY <1>2, <2>1, <2>2, SetAtPlace DEF Return
  <2>4. QED
    BY <1>1, <2>1, <2>2, <2>3 DEF Return, Moves, Quiet, Ending, At, Place
<1>14. CASE FinishDestroy(r)
  <2>1. pc[r] = "removed" /\ Waits(r) /\ AllEntered(r) /\ Final(program, At(r))
        /\ Pass(program, At(r)) = Left(program, d, m)
    BY <1>14 DEF FinishDestroy, Through, Final, Pass, Waits, Waiting, Dropping, At, Place
  <2>2. HandleGone(r) /\ UNCHANGED <<wholegraph_map, handle_id, host_vars, device_vars>>
    BY <1>14 DEF FinishDestroy, At, Place
  <2>3. CASE program[d + 1].op = "destroy"
    <3>1. Return(r) /\ Left(program, d, m) = Place(d + 1, "idle", None, m)
      BY <2>2, <2>3 DEF HandleGone, NextCall, Left, At, Place
    <3>2. SetAt(r, Pass(program, At(r)))
      BY <1>2, <2>1, <2>2, <3>1, SetAtPlace DEF Return
    <3>3. QED
      BY <1>1, <2>1, <2>2, <3>1, <3>2 DEF Return, Moves, Quiet, Ending, At, Place
  <2>4. CASE program[d + 1].op # "destroy"
    <3>1. /\ pc' = [pc EXCEPT ![r] = "closing"] /\ current' = [current EXCEPT ![r] = None]
          /\ UNCHANGED <<program, live, done, sent>>
          /\ Left(program, d, m) = Place(d, "closing", None, m)
      BY <2>2, <2>4 DEF HandleGone, NextCall, Left, program_vars, At, Place
    <3>2. SetAt(r, Pass(program, At(r)))
      BY <1>2, <2>1, <2>2, <3>1, SetAtPlace, ZenonT(30)
    <3>3. QED
      BY <1>1, <2>1, <2>2, <3>1, <3>2 DEF Moves, Quiet, Ending, At, Place
  <2>5. QED
    BY <2>3, <2>4
<1>15. QED
  BY <1>6, <1>7, <1>8, <1>11, <1>12, <1>13, <1>14

-----------------------------------------------------------------------------
\* What a step leaves alone, and when that leaves the objects in agreement with the
\* places.
LEMMA OthersStay ==
  ASSUME IInv, NEW r \in Rank, Moves(r)
  PROVE  /\ \A q \in Rank \ {r} : /\ pc'[q] = pc[q] /\ current'[q] = current[q]
                                 /\ wholegraph_map'[q] = wholegraph_map[q]
         /\ \A h : KindOf(h)' = KindOf(h)
         /\ \A h \in Op, q \in Rank : pc[r] # "create" \/ q # r => handle_id'[h][q] = handle_id[h][q]
         /\ Rank' = Rank /\ Op' = Op /\ Contributor' = Contributor
<1>1. \A q \in Rank \ {r} : At(q)' = At(q)
  BY PlacesAfter DEF IInv, Places
<1>2. \A h : KindOf(h)' = KindOf(h)
  BY DEF KindOf, Moves
<1>3. \A h \in Op, q \in Rank : pc[r] # "create" \/ q # r => handle_id'[h][q] = handle_id[h][q]
  BY DEF Moves, IInv, Places, Ids
<1>4. QED
  BY <1>1, <1>2, <1>3 DEF At, Place, Rank, Op, Contributor, FirstPage

HostStage == {"created", "opened", "unmapped"}

LEMMA HostUnmoved ==
  ASSUME IInv, NEW r \in Rank, Moves(r), UNCHANGED host_vars,
         pc[r] \notin HostStage, pc'[r] \notin HostStage,
         \A h \in Op : KindOf(h) \in HostKind => (h \in Held(wholegraph_map'[r]) <=> h \in Held(wholegraph_map[r]))
  PROVE  HostMemory'
<1>1. 0 \in Rank
  BY WorldSizeAssumption DEF Rank
<1>2. UNCHANGED <<files, shmKey, shmName, opened, mapped>>
  BY DEF host_vars
<1>3. ASSUME NEW q \in Rank
      PROVE  /\ q # r => /\ pc'[q] = pc[q] /\ current'[q] = current[q]
                         /\ wholegraph_map'[q] = wholegraph_map[q]
             /\ \A h \in Op : handle_id'[h][q] = handle_id[h][q] \/ (q = r /\ pc[r] = "create" /\ h = current[r])
             /\ \A h \in Op : KindOf(h) \in HostKind =>
                                (h \in Held(wholegraph_map'[q]) <=> h \in Held(wholegraph_map[q]))
  BY OthersStay, ZenonT(30) DEF Moves, IInv, Places, Ids
<1>4. \A h \in Op : KeepsKey(h)' <=> KeepsKey(h)
  BY <1>1, <1>3, OthersStay DEF KeepsKey, HostStage, HostKind
<1>5. \A h \in Op : KeepsKey(h) => handle_id'[h][0] = handle_id[h][0]
  <2>1. pc[r] = "create" => current[r] \notin Held(wholegraph_map[r])
    BY NewOnes DEF IInv, Places
  <2>2. QED
    BY <1>1, <1>3, <2>1 DEF KeepsKey
<1>6. Keys'
  BY <1>2, <1>4, <1>5, OthersStay DEF IInv, HostMemory, Keys
<1>7. Files'
  <2>1. \A q \in Rank : pc[q] = "created" => q # r /\ current[q] \in Op /\ current'[q] = current[q]
                                             /\ handle_id'[current[q]][q] = handle_id[current[q]][q]
    BY <1>3, NewOnes DEF IInv, Places, Creating, HostStage
  <2> DEFINE Makes(q) == pc[q] = "created" /\ KindOf(current[q]) = "sysv"
             Made     == {q \in Rank : Makes(q)}
             id(q)    == handle_id[current[q]][q]
  <2>2. \A q \in Rank : (Makes(q)' <=> Makes(q)) /\ (Makes(q) => id(q)' = id(q))
    BY <1>3, <2>1, OthersStay DEF HostStage
  <2>3. Made' = Made
    BY <2>2, OthersStay
  <2>4. {id(q)' : q \in Made} = {id(q) : q \in Made}
    BY <2>2
  <2>5. files' = DOMAIN shmKey' \cup {id(q)' : q \in Made'}
    BY <1>2, <2>3, <2>4 DEF IInv, HostMemory, Files
  <2>6. QED
    BY <2>5 DEF Files
<1>8. Names'
  <2>1. pc[0] \in {"created", "opened"} <=> pc'[0] \in {"created", "opened"}
    BY <1>1, <1>3 DEF HostStage
  <2>2. pc[0] \in {"created", "opened"} => /\ 0 # r /\ current'[0] = current[0] /\ current[0] \in Op
                                           /\ handle_id'[current[0]][0] = handle_id[current[0]][0]
    BY <1>1, <1>3, NewOnes DEF IInv, Places, Creating, HostStage
  <2>3. QED
    BY <1>2, <2>1, <2>2, OthersStay DEF IInv, HostMemory, Names
<1>9. \A q \in Rank : Opened(q)' /\ Mapped(q)'
  <2>1. \A q \in Rank : Opened(q)'
    BY <1>2, <1>3 DEF IInv, HostMemory, Opened, HostStage
  <2>2. \A q \in Rank : Mapped(q)'
    BY <1>2, <1>3, OthersStay DEF IInv, HostMemory, Mapped
  <2>3. QED
    BY <2>1, <2>2
<1>10. QED
  BY <1>2, <1>6, <1>7, <1>8, <1>9, OthersStay DEF IInv, HostMemory

\* A step that changes the own parts of r and what it has imported as its place says.
LEMMA DeviceMoved ==
  ASSUME IInv, NEW r \in Rank, Moves(r),
         local_alloc' \in [Op -> SUBSET Rank], imported' \in [Op -> [Rank -> SUBSET Rank]],
         \A h \in Op : /\ \A q \in Rank \ {r} : /\ q \in local_alloc'[h] <=> q \in local_alloc[h]
                                              /\ imported'[h][q] = imported[h][q]
                       /\ r \in local_alloc'[h] <=> HasPart(r, h)'
                       /\ imported'[h][r] = IF Imports(r, h)' THEN Contributor ELSE {}
  PROVE  DeviceMemory'
<1>1. \A q \in Rank \ {r}, h \in Op : (HasPart(q, h)' <=> HasPart(q, h)) /\ (Imports(q, h)' <=> Imports(q, h))
  BY OthersStay DEF HasPart, Imports
<1>2. ASSUME NEW q \in Rank, NEW h \in Op
      PROVE  /\ q \in local_alloc'[h] <=> HasPart(q, h)'
             /\ imported'[h][q] = IF Imports(q, h)' THEN Contributor ELSE {}
  BY <1>1 DEF IInv, DeviceMemory
<1>3. QED
  BY <1>2, OthersStay DEF DeviceMemory

LEMMA DeviceUnmoved ==
  ASSUME IInv, NEW r \in Rank, Moves(r), UNCHANGED <<local_alloc, imported>>,
         \A h \in Op : (HasPart(r, h)' <=> HasPart(r, h)) /\ (Imports(r, h)' <=> Imports(r, h))
  PROVE  DeviceMemory'
<1>1. \A q \in Rank \ {r}, h \in Op : (HasPart(q, h)' <=> HasPart(q, h)) /\ (Imports(q, h)' <=> Imports(q, h))
  BY OthersStay DEF HasPart, Imports
<1>2. QED
  BY <1>1, OthersStay DEF IInv, DeviceMemory

SocketStage == {"bound", "sent", "received"}

LEMMA SocketsUnmoved ==
  ASSUME IInv, NEW r \in Rank, Moves(r), UNCHANGED <<sockets, inbox>>,
         pc[r] \notin SocketStage, pc'[r] \notin SocketStage
  PROVE  Sockets'
<1>1. \A q \in Rank : pc'[q] \in SocketStage \/ pc[q] \in SocketStage => q # r
  OBVIOUS
<1>2. sockets' = {s \in Rank \X Rank : pc'[s[2]] \in SocketStage}
  BY <1>1, OthersStay DEF IInv, Sockets, SocketStage
<1>3. ASSUME NEW q \in Rank, NEW u \in Rank
      PROVE  inbox'[<<q, u>>] = IF /\ q \in Contributor
                                   /\ pc'[u] \in {"bound", "sent"} /\ pc'[q] \in {"sent", "received"}
                                THEN <<current'[u]>> ELSE << >>
  <2>1. /\ pc'[u] \in {"bound", "sent"} <=> pc[u] \in {"bound", "sent"}
        /\ pc'[q] \in {"sent", "received"} <=> pc[q] \in {"sent", "received"}
    BY <1>1, OthersStay DEF SocketStage
  <2>2. pc[u] \in {"bound", "sent"} => current'[u] = current[u]
    BY <1>1, OthersStay DEF SocketStage
  <2>3. inbox[<<q, u>>] = IF /\ q \in Contributor
                             /\ pc[u] \in {"bound", "sent"} /\ pc[q] \in {"sent", "received"}
                          THEN <<current[u]>> ELSE << >>
    BY DEF IInv, Sockets
  <2>4. QED
    BY <2>1, <2>2, <2>3
<1>4. QED
  BY <1>2, <1>3, OthersStay DEF IInv, Sockets, SocketStage

\* The steps that change no map and no object.
LEMMA QuietKeeps ==
  ASSUME IInv, NEW r \in Rank,
         \/ StartCreate(r) \/ DestroyOne(r) \/ StartClose(r) \/ CloseNext(r) \/ CloseEmpty(r)
         \/ Closed(r) \/ FinishDestroy(r)
  PROVE  IInv'
<1>1. /\ Moves(r) /\ pc[r] \in Quiet /\ pc'[r] \in Quiet
      /\ UNCHANGED <<wholegraph_map, host_vars, local_alloc, imported, sockets, inbox>>
  BY QuietMoves DEF device_vars
<1>2. HostMemory'
  BY <1>1, HostUnmoved DEF Quiet, Ending, HostStage
<1>3. DeviceMemory'
  <2>1. \A h \in Op : (HasPart(r, h)' <=> HasPart(r, h)) /\ (Imports(r, h)' <=> Imports(r, h))
    BY <1>1, OthersStay DEF HasPart, Imports, Quiet, Ending
  <2>2. QED
    BY <1>1, <2>1, DeviceUnmoved
<1>4. Sockets'
  BY <1>1, SocketsUnmoved DEF Quiet, Ending, SocketStage
<1>5. QED
  BY <1>1, <1>2, <1>3, <1>4, MovesPlaces DEF IInv

-----------------------------------------------------------------------------
\* A step from one collective of a call into the next, the map being left alone.
LEMMA StageMoves ==
  ASSUME IInv, NEW r \in Rank,
         NEW what \in {"create", "created", "sockets", "bound", "sent", "received", "unmapped", "erased",
                       "unimported"},
         Through(r, what), what = "create" => KindOf(current[r]) # "distributed",
         NEW next, next = Stage(what, KindOf(current[r]) \in HostKind), Enter(r, next, None),
         UNCHANGED <<program, live, done, current, wholegraph_map>>,
         handle_id' = IF what = "create"
                      THEN [handle_id EXCEPT ![current[r]][r] = FreeIn(wholegraph_map[r])]
                      ELSE handle_id
  PROVE  Moves(r) /\ pc'[r] = next
<1> DEFINE d == done[r]
           h == current[r]
           m == wholegraph_map[r]
<1>1. pc[r] = what /\ Waits(r) /\ AllEntered(r) /\ pc \in [Rank -> Waiting \cup {"idle", "closing"}]
  BY DEF Through, Waits, Waiting, Creating, Dropping, IInv, Places, Control
<1>2. ~ Final(program, At(r))
  BY <1>1 DEF Final, At, Place, KindOf
<1>3. Go(program, At(r)) = Place(d, next, h, m)
  BY <1>1, <1>2 DEF Go, At, Place, KindOf
<1>4. Token(program, Go(program, At(r))) = <<next, None>>
  <2>1. next \notin {"create", "destroy", "destroy_all"}
    BY DEF Stage
  <2>2. QED
    BY <1>3, <2>1 DEF Token, Place
<1>5. SetAt(r, Go(program, At(r)))
  <2>1. /\ done' = [done EXCEPT ![r] = d] /\ current' = [current EXCEPT ![r] = h]
        /\ wholegraph_map' = [wholegraph_map EXCEPT ![r] = m] /\ pc' = [pc EXCEPT ![r] = next]
    BY Unmoved DEF IInv, Places, Enter
  <2> HIDE DEF d, h, m
  <2>2. QED
    BY <1>3, <2>1, SetAtPlace
<1>6. EnterAt(r, Go(program, At(r)))
  BY <1>4, <1>5 DEF EnterAt, Enter
<1>7. QED
  BY <1>1, <1>2, <1>6 DEF Moves, Enter

\* A step that puts the new handle into the map.
LEMMA MadeMoves ==
  ASSUME IInv, NEW r \in Rank, NEW what \in {"create", "opened", "closed"},
         Through(r, what), what = "create" => KindOf(current[r]) = "distributed",
         wholegraph_map' = [wholegraph_map EXCEPT ![r] = Put(@, FreeIn(wholegraph_map[r]), current[r])],
         Return(r),
         handle_id' = IF what = "create"
                      THEN [handle_id EXCEPT ![current[r]][r] = FreeIn(wholegraph_map[r])]
                      ELSE handle_id
  PROVE  /\ Moves(r) /\ pc'[r] = "idle" /\ current'[r] = None
         /\ Held(wholegraph_map'[r]) = Held(wholegraph_map[r]) \cup {current[r]}
<1> DEFINE d == done[r]
           h == current[r]
           m == wholegraph_map[r]
<1>1. /\ pc[r] = what /\ Waits(r) /\ AllEntered(r) /\ pc \in [Rank -> Waiting \cup {"idle", "closing"}]
      /\ current \in [Rank -> Op \cup {None}] /\ wholegraph_map \in [Rank -> Maps]
  BY DEF Through, Waits, Waiting, Creating, Dropping, IInv, Places, Control
<1>2. Final(program, At(r))
  BY <1>1 DEF Final, At, Place, KindOf
<1>3. Pass(program, At(r)) = Place(d + 1, "idle", None, Put(m, FreeIn(m), h))
  BY <1>1 DEF Pass, At, Place
<1>4. SetAt(r, Pass(program, At(r)))
  <2> DEFINE new == Put(m, FreeIn(m), h)
             e   == d + 1
  <2>1. /\ done' = [done EXCEPT ![r] = e] /\ current' = [current EXCEPT ![r] = None]
        /\ wholegraph_map' = [wholegraph_map EXCEPT ![r] = new] /\ pc' = [pc EXCEPT ![r] = "idle"]
        /\ Pass(program, At(r)) = Place(e, "idle", None, new)
    BY <1>3 DEF Return
  <2> HIDE DEF new, e
  <2>2. QED
    BY <2>1, SetAtPlace
<1>5. Held(Put(m, FreeIn(m), h)) = Held(m) \cup {h}
  BY <1>1, NewMap DEF IInv, Places, Creating
<1>6. QED
  BY <1>1, <1>2, <1>4, <1>5 DEF Moves, Return

\* A step that erases a handle from the map, and goes on or returns.
LEMMA EraseMoves ==
  ASSUME IInv, NEW r \in Rank, Through(r, "destroy"),
         wholegraph_map' = [wholegraph_map EXCEPT ![r] = Drop(@, handle_id[current[r]][r])],
         UNCHANGED <<live, program, handle_id>>,
         \/ /\ KindOf(current[r]) # "distributed" /\ UNCHANGED <<done, current>>
            /\ Enter(r, Stage("destroy", KindOf(current[r]) \in HostKind), None)
         \/ KindOf(current[r]) = "distributed" /\ HandleGone(r)
  PROVE  /\ Moves(r) /\ current[r] \in Held(wholegraph_map[r])
         /\ Held(wholegraph_map'[r]) = Held(wholegraph_map[r]) \ {current[r]}
         /\ IF KindOf(current[r]) = "distributed" THEN pc'[r] \in {"idle", "closing"}
            ELSE pc'[r] = Stage("destroy", KindOf(current[r]) \in HostKind)
<1> DEFINE d == done[r]
           h == current[r]
           m == wholegraph_map[r]
           new == Drop(m, handle_id[h][r])
           stage == Stage("destroy", KindOf(h) \in HostKind)
<1>1. /\ pc[r] = "destroy" /\ Waits(r) /\ AllEntered(r) /\ pc \in [Rank -> Waiting \cup {"idle", "closing"}]
      /\ current \in [Rank -> Op \cup {None}] /\ wholegraph_map \in [Rank -> Maps]
      /\ \A n, k \in DOMAIN m : m[n] = m[k] => n = k
  BY DEF Through, Waits, Waiting, IInv, Places, Control, InPlace, At, Place
<1>2. h \in Held(m)
  BY <1>1, OldOnes DEF IInv, Places
<1>3. IdIn(m, h) = handle_id[h][r]
  BY <1>2, HeldOnes DEF IInv, Places
<1>4. Held(new) = Held(m) \ {h}
  BY <1>1, <1>2, <1>3, HeldDrop
<1>5. wholegraph_map' = [wholegraph_map EXCEPT ![r] = new]
  OBVIOUS
<1> HIDE DEF new
<1>6. CASE KindOf(h) # "distributed"
  <2>1. ~ Final(program, At(r))
    BY <1>1, <1>6 DEF Final, At, Place, KindOf
  <2>2. Go(program, At(r)) = Place(d, stage, h, new)
    BY <1>1, <1>3, <2>1 DEF Go, At, Place, KindOf, new
  <2>3. stage \in {"unmapped", "erased"} /\ Enter(r, stage, None) /\ UNCHANGED <<done, current>>
    BY <1>6 DEF Stage
  <2>4. Token(program, Go(program, At(r))) = <<stage, None>>
    BY <2>2, <2>3 DEF Token, Place
  <2> HIDE DEF stage
  <2>5. SetAt(r, Go(program, At(r)))
    <3>1. /\ done' = [done EXCEPT ![r] = d] /\ current' = [current EXCEPT ![r] = h]
          /\ pc' = [pc EXCEPT ![r] = stage]
      BY <2>3, Unmoved DEF IInv, Places, Enter
    <3>2. QED
      BY <1>5, <2>2, <3>1, SetAtPlace
  <2>6. EnterAt(r, Go(program, At(r))) /\ pc'[r] = stage
    BY <1>1, <2>3, <2>4, <2>5 DEF EnterAt, Enter
  <2>7. Moves(r)
    BY <1>1, <2>1, <2>6 DEF Moves
  <2>8. QED
    BY <1>1, <1>2, <1>4, <1>5, <1>6, <2>6, <2>7 DEF stage
<1>7. CASE KindOf(h) = "distributed"
  <2>1. Final(program, At(r)) /\ Pass(program, At(r)) = Left(program, d, new) /\ HandleGone(r)
    BY <1>1, <1>3, <1>7 DEF Final, Pass, At, Place, KindOf, new
  <2>2. SetAt(r, Pass(program, At(r))) /\ pc'[r] \in {"idle", "closing"} /\ UNCHANGED sent
    <3>1. CASE program[d + 1].op = "destroy"
      <4>1. Return(r) /\ Left(program, d, new) = Place(d + 1, "idle", None, new)
        BY <2>1, <3>1 DEF HandleGone, NextCall, Left
      <4>2. SetAt(r, Pass(program, At(r)))
        BY <1>5, <2>1, <4>1, SetAtPlace DEF Return
      <4>3. QED
        BY <1>1, <4>1, <4>2 DEF Return
    <3>2. CASE program[d + 1].op # "destroy"
      <4>1. /\ pc' = [pc EXCEPT ![r] = "closing"] /\ current' = [current EXCEPT ![r] = None]
            /\ UNCHANGED <<program, live, done, sent>>
            /\ Left(program, d, new) = Place(d, "closing", None, new)
        BY <2>1, <3>2 DEF HandleGone, NextCall, Left, program_vars
      <4>2. done' = [done EXCEPT ![r] = d]
        BY <4>1, Unmoved DEF IInv, Places
      <4>3. SetAt(r, Pass(program, At(r)))
        BY <1>5, <2>1, <4>1, <4>2, SetAtPlace
      <4>4. QED
        BY <1>1, <4>1, <4>3
    <3>3. QED
      BY <3>1, <3>2
  <2>3. Moves(r)
    BY <1>1, <2>1, <2>2 DEF Moves
  <2>4. QED
    BY <1>1, <1>2, <1>4, <1>5, <1>7, <2>2, <2>3
<1>8. QED
  BY <1>6, <1>7

\* The kind of the handle that a rank is busy with.
LEMMA StageKind ==
  ASSUME IInv, NEW r \in Rank
  PROVE  /\ pc[r] \in {"created", "opened", "unmapped"} => KindOf(current[r]) \in HostKind
         /\ pc[r] \in {"sockets", "bound", "sent", "received", "closed", "erased", "unimported"} =>
              KindOf(current[r]) = "device"
BY DEF IInv, Places, Control, InPlace, InCall, At, Place, KindOf

-----------------------------------------------------------------------------
\* Device memory is created: the sockets are opened, ...
LEMMA OpenSocketsKeeps ==
  ASSUME IInv, NEW r \in Rank, OpenSockets(r)
  PROVE  IInv'
<1>1. Through(r, "sockets") /\ pc[r] = "sockets" /\ KindOf(current[r]) = "device" /\ Places
  BY StageKind DEF OpenSockets, Through, IInv
<1>2. OwnSockets(r) \cap sockets = {}
  BY <1>1 DEF IInv, Sockets, OwnSockets
<1>3. /\ sockets' = sockets \cup OwnSockets(r)
      /\ inbox'   = [s \in Rank \X Rank |-> IF s \in OwnSockets(r) THEN << >> ELSE inbox[s]]
      /\ Enter(r, "bound", None)
      /\ UNCHANGED <<program, live, done, current, wholegraph_map, handle_id, host_vars, local_alloc, imported>>
  BY <1>2 DEF OpenSockets, program_vars
<1>4. Moves(r) /\ pc'[r] = "bound"
  BY <1>1, <1>3, StageMoves DEF Stage
<1>5. HostMemory'
  BY <1>1, <1>3, <1>4, HostUnmoved DEF HostStage
<1>6. DeviceMemory'
  <2>1. \A h \in Op : (HasPart(r, h)' <=> HasPart(r, h)) /\ (Imports(r, h)' <=> Imports(r, h))
    BY <1>1, <1>3, <1>4, OthersStay DEF HasPart, Imports
  <2>2. QED
    BY <1>3, <1>4, <2>1, DeviceUnmoved
<1>7. Sockets'
  <2>1. \A q \in Rank : pc[q] \in {"sockets", "bound"}
    BY <1>1, OthersInCall DEF Waiting, Creating, Ending, Stage, Final, At, Place
  <2>2. \A q \in Rank : pc'[q] \in {"sockets", "bound"}
    BY <1>4, <2>1, OthersStay
  <2>3. sockets' = {s \in Rank \X Rank : pc'[s[2]] \in {"bound", "sent", "received"}}
    BY <1>1, <1>3, <1>4, OthersStay DEF IInv, Sockets, OwnSockets
  <2>4. inbox \in [Rank \X Rank -> Seq(Op)] /\ \A q, u \in Rank : inbox[<<q, u>>] = << >>
    BY <2>1 DEF IInv, Sockets
  <2>5. inbox' \in [Rank \X Rank -> Seq(Op)] /\ \A q, u \in Rank : inbox'[<<q, u>>] = << >>
    BY <1>3, <2>4
  <2>6. QED
    BY <2>2, <2>3, <2>5, OthersStay, <1>4 DEF Sockets
<1>8. QED
  BY <1>4, <1>5, <1>6, <1>7, MovesPlaces DEF IInv

\* ... the handles are sent, ...
LEMMA SendHandlesKeeps ==
  ASSUME IInv, NEW r \in Rank, SendHandles(r)
  PROVE  IInv'
<1>1. /\ Through(r, "bound") /\ pc[r] = "bound" /\ KindOf(current[r]) = "device" /\ Places
      /\ current[r] \in Op
  BY StageKind, NewOnes DEF SendHandles, Through, IInv, Places, Creating
<1>2. \A q \in Rank : pc[q] \in {"bound", "sent"} /\ current[q] = current[r]
  BY <1>1, OthersInCall DEF Waiting, Creating, Ending, Stage, Final, At, Place
<1>3. \A q \in Rank : <<r, q>> \in sockets
  BY <1>2 DEF IInv, Sockets
<1>4. /\ inbox' = [s \in Rank \X Rank |->
                     IF s[1] = r /\ r \in Contributor THEN Append(inbox[s], current[r]) ELSE inbox[s]]
      /\ Enter(r, "sent", None)
      /\ UNCHANGED <<program, live, done, current, wholegraph_map, handle_id, host_vars, sockets,
                     local_alloc, imported>>
  BY <1>3 DEF SendHandles, program_vars
<1>5. Moves(r) /\ pc'[r] = "sent"
  BY <1>1, <1>4, StageMoves DEF Stage
<1>6. HostMemory'
  BY <1>1, <1>4, <1>5, HostUnmoved DEF HostStage
<1>7. DeviceMemory'
  <2>1. \A h \in Op : (HasPart(r, h)' <=> HasPart(r, h)) /\ (Imports(r, h)' <=> Imports(r, h))
    BY <1>1, <1>4, <1>5, OthersStay DEF HasPart, Imports
  <2>2. QED
    BY <1>4, <1>5, <2>1, DeviceUnmoved
<1>8. Sockets'
  <2>1. \A q \in Rank : pc'[q] = IF q = r THEN "sent" ELSE pc[q]
    BY <1>5, OthersStay
  <2>2. sockets' = {s \in Rank \X Rank : pc'[s[2]] \in {"bound", "sent", "received"}}
    BY <1>2, <1>4, <2>1 DEF IInv, Sockets
  <2>3. inbox \in [Rank \X Rank -> Seq(Op)]
        /\ \A q, u \in Rank : inbox[<<q, u>>] = IF q \in Contributor /\ pc[q] = "sent"
                                                THEN <<current[u]>> ELSE << >>
    BY <1>2 DEF IInv, Sockets
  <2>4. inbox' \in [Rank \X Rank -> Seq(Op)]
    BY <1>1, <1>4, <2>3
  <2>5. \A q, u \in Rank : inbox'[<<q, u>>] = IF q = r /\ r \in Contributor
                                              THEN Append(inbox[<<q, u>>], current[r])
                                              ELSE inbox[<<q, u>>]
    BY <1>4
  <2>6. Append(<< >>, current[r]) = <<current[r]>>
    OBVIOUS
  <2>7. ASSUME NEW q \in Rank, NEW u \in Rank
        PROVE  inbox'[<<q, u>>] = IF q \in Contributor /\ pc'[q] = "sent" THEN <<current[u]>> ELSE << >>
    <3>1. CASE q = r /\ r \in Contributor
      <4>1. inbox[<<q, u>>] = << >>
        BY <1>1, <2>3, <3>1
      <4>2. inbox'[<<q, u>>] = Append(<< >>, current[r])
        BY <2>5, <3>1, <4>1
      <4>3. current[u] = current[r] /\ pc'[q] = "sent"
        BY <1>2, <2>1, <3>1
      <4>4. QED
        BY <2>6, <3>1, <4>2, <4>3
    <3>2. CASE ~ (q = r /\ r \in Contributor)
      <4>1. inbox'[<<q, u>>] = inbox[<<q, u>>]
        BY <2>5, <3>2
      <4>2. q \in Contributor => pc'[q] = pc[q]
        BY <2>1, <3>2
      <4>3. QED
        BY <2>3, <4>1, <4>2
    <3>3. QED
      BY <3>1, <3>2
  <2>8. \A q \in Rank : pc'[q] \in {"bound", "sent"} /\ current'[q] = current[q]
    BY <1>2, <1>4, <2>1
  <2>9. QED
    BY <1>5, <2>2, <2>4, <2>7, <2>8, OthersStay DEF Sockets
<1>9. QED
  BY <1>5, <1>6, <1>7, <1>8, MovesPlaces DEF IInv

\* ... and received: r maps the parts of all ranks that have one.
LEMMA ReceiveHandlesKeeps ==
  ASSUME IInv, NEW r \in Rank, ReceiveHandles(r)
  PROVE  IInv'
<1> DEFINE h == current[r]
<1>1. /\ Through(r, "sent") /\ pc[r] = "sent" /\ KindOf(h) = "device" /\ Places
      /\ h \in Op /\ h \notin Held(wholegraph_map[r])
  BY StageKind, NewOnes DEF ReceiveHandles, Through, IInv, Places, Creating
<1>2. \A q \in Rank : pc[q] \in {"sent", "received"} /\ current[q] = h
  BY <1>1, OthersInCall DEF Waiting, Creating, Ending, Stage, Final, At, Place
<1>3. /\ inbox' = [s \in Rank \X Rank |-> IF s[1] \in Contributor /\ s[2] = r THEN Tail(inbox[s])
                                          ELSE inbox[s]]
      /\ imported' = [imported EXCEPT ![h][r] = {q \in Contributor : Head(inbox[<<q, r>>]) = h}]
      /\ Enter(r, "received", None)
      /\ UNCHANGED <<program, live, done, current, wholegraph_map, handle_id, host_vars, sockets, local_alloc>>
  BY DEF ReceiveHandles, program_vars
<1>4. Moves(r) /\ pc'[r] = "received"
  BY <1>1, <1>3, StageMoves DEF Stage
<1>5. HostMemory'
  BY <1>1, <1>3, <1>4, HostUnmoved DEF HostStage
<1>6. inbox \in [Rank \X Rank -> Seq(Op)]
      /\ \A q, u \in Rank : inbox[<<q, u>>] = IF q \in Contributor /\ pc[u] = "sent" THEN <<h>> ELSE << >>
  BY <1>2 DEF IInv, Sockets
<1>7. DeviceMemory'
  <2>1. {q \in Contributor : Head(inbox[<<q, r>>]) = h} = Contributor
    BY <1>1, <1>6 DEF Contributor
  <2>2. imported \in [Op -> [Rank -> SUBSET Rank]] /\ local_alloc \in [Op -> SUBSET Rank]
        /\ Contributor \in SUBSET Rank
    BY DEF IInv, DeviceMemory, Contributor
  <2>3. imported' = [imported EXCEPT ![h][r] = Contributor]
    BY <1>3, <2>1
  <2>4. imported' \in [Op -> [Rank -> SUBSET Rank]]
        /\ \A g \in Op, q \in Rank : imported'[g][q] = IF g = h /\ q = r THEN Contributor ELSE imported[g][q]
    BY <1>1, <2>2, <2>3
  <2>5. \A g \in Op : (HasPart(r, g)' <=> HasPart(r, g)) /\ (Imports(r, g)' <=> Imports(r, g) \/ g = h)
    BY <1>1, <1>3, <1>4, OthersStay DEF HasPart, Imports
  <2>6. \A g \in Op : /\ r \in local_alloc'[g] <=> HasPart(r, g)'
                      /\ imported'[g][r] = IF Imports(r, g)' THEN Contributor ELSE {}
    BY <1>3, <2>4, <2>5 DEF IInv, DeviceMemory
  <2>7. QED
    BY <1>3, <1>4, <2>2, <2>4, <2>6, DeviceMoved
<1>8. Sockets'
  <2>1. \A q \in Rank : pc'[q] = (IF q = r THEN "received" ELSE pc[q]) /\ current'[q] = h
    BY <1>2, <1>3, <1>4, OthersStay
  <2>2. sockets' = {s \in Rank \X Rank : pc'[s[2]] \in {"bound", "sent", "received"}}
    BY <1>2, <1>3, <2>1 DEF IInv, Sockets
  <2>3. \A q, u \in Rank : inbox'[<<q, u>>] = IF q \in Contributor /\ u = r THEN Tail(inbox[<<q, u>>])
                                              ELSE inbox[<<q, u>>]
    BY <1>3
  <2>4. Tail(<<h>>) = << >>
    OBVIOUS
  <2>5. ASSUME NEW q \in Rank, NEW u \in Rank
        PROVE  inbox'[<<q, u>>] = IF q \in Contributor /\ pc'[u] = "sent" THEN <<h>> ELSE << >>
    <3>1. CASE u = r /\ q \in Contributor
      <4>1. inbox[<<q, u>>] = <<h>>
        BY <1>1, <1>6, <3>1
      <4>2. inbox'[<<q, u>>] = Tail(<<h>>)
        BY <2>3, <3>1, <4>1
      <4>3. pc'[u] # "sent"
        BY <2>1, <3>1
      <4>4. QED
        BY <2>4, <4>2, <4>3
    <3>2. CASE ~ (u = r /\ q \in Contributor)
      <4>1. inbox'[<<q, u>>] = inbox[<<q, u>>]
        BY <2>3, <3>2
      <4>2. q \in Contributor => pc'[u] = pc[u]
        BY <2>1, <3>2
      <4>3. QED
        BY <1>6, <4>1, <4>2
    <3>3. QED
      BY <3>1, <3>2
  <2>6. inbox' \in [Rank \X Rank -> Seq(Op)]
    <3>1. \A s \in Rank \X Rank : inbox'[s] \in {<<h>>, << >>}
      BY <2>5
    <3>2. <<h>> \in Seq(Op) /\ << >> \in Seq(Op)
      BY <1>1
    <3>3. inbox' = [s \in Rank \X Rank |-> inbox'[s]]
      BY <1>3
    <3>4. QED
      BY <3>1, <3>2, <3>3
  <2>7. \A q \in Rank : pc'[q] \in {"sent", "received"}
    BY <1>2, <2>1
  <2>8. QED
    BY <1>4, <2>1, <2>2, <2>5, <2>6, <2>7, OthersStay DEF Sockets
<1>9. QED
  BY <1>4, <1>5, <1>7, <1>8, MovesPlaces DEF IInv

LEMMA CloseSocketsKeeps ==
  ASSUME IInv, NEW r \in Rank, CloseSockets(r)
  PROVE  IInv'
<1>1. Through(r, "received") /\ pc[r] = "received" /\ KindOf(current[r]) = "device" /\ Places
  BY StageKind DEF CloseSockets, Through, IInv
<1>2. \A q \in Rank : pc[q] \in {"received", "closed"}
  BY <1>1, OthersInCall DEF Waiting, Creating, Ending, Stage, Final, At, Place
<1>3. OwnSockets(r) \subseteq sockets
  BY <1>1 DEF IInv, Sockets, OwnSockets
<1>4. /\ sockets' = sockets \ OwnSockets(r) /\ Enter(r, "closed", None)
      /\ UNCHANGED <<program, live, done, current, wholegraph_map, handle_id, host_vars, inbox,
                     local_alloc, imported>>
  BY <1>3 DEF CloseSockets, program_vars
<1>5. Moves(r) /\ pc'[r] = "closed"
  BY <1>1, <1>4, StageMoves DEF Stage
<1>6. HostMemory'
  BY <1>1, <1>4, <1>5, HostUnmoved DEF HostStage
<1>7. DeviceMemory'
  <2>1. \A h \in Op : (HasPart(r, h)' <=> HasPart(r, h)) /\ (Imports(r, h)' <=> Imports(r, h))
    BY <1>1, <1>4, <1>5, OthersStay DEF HasPart, Imports
  <2>2. QED
    BY <1>4, <1>5, <2>1, DeviceUnmoved
<1>8. Sockets'
  <2>1. \A q \in Rank : pc'[q] = IF q = r THEN "closed" ELSE pc[q]
    BY <1>5, OthersStay
  <2>2. sockets' = {s \in Rank \X Rank : pc'[s[2]] \in {"bound", "sent", "received"}}
    BY <1>4, <2>1 DEF IInv, Sockets, OwnSockets
  <2>3. inbox' \in [Rank \X Rank -> Seq(Op)] /\ \A q, u \in Rank : inbox'[<<q, u>>] = << >>
    BY <1>2, <1>4 DEF IInv, Sockets
  <2>4. \A q \in Rank : pc'[q] \notin {"bound", "sent"}
    BY <1>2, <2>1
  <2>5. QED
    BY <1>5, <2>2, <2>3, <2>4, OthersStay DEF Sockets
<1>9. QED
  BY <1>5, <1>6, <1>7, <1>8, MovesPlaces DEF IInv

LEMMA DeviceMemoryReadyKeeps ==
  ASSUME IInv, NEW r \in Rank, DeviceMemoryReady(r)
  PROVE  IInv'
<1> DEFINE h == current[r]
<1>1. Through(r, "closed") /\ pc[r] = "closed" /\ KindOf(h) = "device" /\ h \in Op
  BY StageKind, NewOnes DEF DeviceMemoryReady, Through, IInv, Places, Creating
<1>2. handle_id[h][r] = FreeIn(wholegraph_map[r])
  BY <1>1 DEF IInv, Places, Ids, Creating
<1>3. /\ wholegraph_map' = [wholegraph_map EXCEPT ![r] = Put(@, FreeIn(wholegraph_map[r]), h)]
      /\ Return(r) /\ UNCHANGED <<handle_id, host_vars, sockets, inbox, local_alloc, imported>>
  BY <1>2 DEF DeviceMemoryReady, HandleMade, device_vars
<1>4. /\ Moves(r) /\ pc'[r] = "idle" /\ current'[r] = None
      /\ Held(wholegraph_map'[r]) = Held(wholegraph_map[r]) \cup {h}
  BY <1>1, <1>3, MadeMoves
<1>5. HostMemory'
  BY <1>1, <1>3, <1>4, HostUnmoved DEF HostStage, HostKind
<1>6. DeviceMemory'
  <2>1. \A g \in Op : (HasPart(r, g)' <=> HasPart(r, g)) /\ (Imports(r, g)' <=> Imports(r, g))
    BY <1>1, <1>4, OthersStay DEF HasPart, Imports
  <2>2. QED
    BY <1>3, <1>4, <2>1, DeviceUnmoved
<1>7. Sockets'
  BY <1>1, <1>3, <1>4, SocketsUnmoved DEF SocketStage
<1>8. QED
  BY <1>4, <1>5, <1>6, <1>7, MovesPlaces DEF IInv

\* Device memory is given back.
LEMMA UnmapDeviceKeeps ==
  ASSUME IInv, NEW r \in Rank, UnmapDevice(r)
  PROVE  IInv'
<1> DEFINE h == current[r]
<1>1. /\ Through(r, "erased") /\ pc[r] = "erased" /\ KindOf(h) = "device" /\ h \in Op
      /\ h \notin Held(wholegraph_map[r])
  BY StageKind, OldOnes DEF UnmapDevice, Through, IInv, Places, Dropping
<1>2. /\ imported' = [imported EXCEPT ![h][r] = {}] /\ Enter(r, "unimported", None)
      /\ UNCHANGED <<program, live, done, current, wholegraph_map, handle_id, host_vars, sockets, inbox,
                     local_alloc>>
  BY DEF UnmapDevice, program_vars
<1>3. Moves(r) /\ pc'[r] = "unimported"
  BY <1>1, <1>2, StageMoves DEF Stage
<1>4. HostMemory'
  BY <1>1, <1>2, <1>3, HostUnmoved DEF HostStage
<1>5. DeviceMemory'
  <2>1. imported \in [Op -> [Rank -> SUBSET Rank]] /\ local_alloc \in [Op -> SUBSET Rank]
    BY DEF IInv, DeviceMemory
  <2>2. imported' \in [Op -> [Rank -> SUBSET Rank]]
        /\ \A g \in Op, q \in Rank : imported'[g][q] = IF g = h /\ q = r THEN {} ELSE imported[g][q]
    BY <1>1, <1>2, <2>1
  <2>3. \A g \in Op : /\ HasPart(r, g)' <=> HasPart(r, g)
                      /\ Imports(r, g)' <=> Imports(r, g) /\ g # h
    BY <1>1, <1>2, <1>3, OthersStay DEF HasPart, Imports
  <2>4. \A g \in Op : /\ r \in local_alloc'[g] <=> HasPart(r, g)'
                      /\ imported'[g][r] = IF Imports(r, g)' THEN Contributor ELSE {}
    BY <1>2, <2>2, <2>3 DEF IInv, DeviceMemory
  <2>5. QED
    BY <1>2, <1>3, <2>1, <2>2, <2>4, DeviceMoved
<1>6. Sockets'
  BY <1>1, <1>2, <1>3, SocketsUnmoved DEF SocketStage
<1>7. QED
  BY <1>3, <1>4, <1>5, <1>6, MovesPlaces DEF IInv

LEMMA ReleaseDeviceKeeps ==
  ASSUME IInv, NEW r \in Rank, ReleaseDevice(r)
  PROVE  IInv'
<1> DEFINE h == current[r]
<1>1. /\ Through(r, "unimported") /\ pc[r] = "unimported" /\ KindOf(h) = "device" /\ h \in Op
      /\ h \notin Held(wholegraph_map[r])
  BY StageKind, OldOnes DEF ReleaseDevice, Through, IInv, Places, Dropping
<1>2. /\ local_alloc' = [local_alloc EXCEPT ![h] = @ \ {r}] /\ Enter(r, "removed", None)
      /\ UNCHANGED <<program, live, done, current, wholegraph_map, handle_id, host_vars, sockets, inbox,
                     imported>>
  BY DEF ReleaseDevice, program_vars
<1>3. Moves(r) /\ pc'[r] = "removed"
  BY <1>1, <1>2, StageMoves DEF Stage
<1>4. HostMemory'
  BY <1>1, <1>2, <1>3, HostUnmoved DEF HostStage
<1>5. DeviceMemory'
  <2>1. imported \in [Op -> [Rank -> SUBSET Rank]] /\ local_alloc \in [Op -> SUBSET Rank]
    BY DEF IInv, DeviceMemory
  <2>2. local_alloc' \in [Op -> SUBSET Rank]
        /\ \A g \in Op : local_alloc'[g] = IF g = h THEN local_alloc[g] \ {r} ELSE local_alloc[g]
    BY <1>1, <1>2, <2>1
  <2>3. \A g \in Op : /\ HasPart(r, g)' <=> HasPart(r, g) /\ g # h
                      /\ Imports(r, g)' <=> Imports(r, g)
    BY <1>1, <1>2, <1>3, OthersStay DEF HasPart, Imports
  <2>4. \A g \in Op : /\ \A q \in Rank \ {r} : /\ q \in local_alloc'[g] <=> q \in local_alloc[g]
                                               /\ imported'[g][q] = imported[g][q]
                      /\ r \in local_alloc'[g] <=> HasPart(r, g)'
                      /\ imported'[g][r] = IF Imports(r, g)' THEN Contributor ELSE {}
    BY <1>2, <2>2, <2>3 DEF IInv, DeviceMemory
  <2>5. QED
    BY <1>2, <1>3, <2>1, <2>2, <2>4, DeviceMoved
<1>6. Sockets'
  BY <1>1, <1>2, <1>3, SocketsUnmoved DEF SocketStage
<1>7. QED
  BY <1>3, <1>4, <1>5, <1>6, MovesPlaces DEF IInv

\* The own part of memory that is not shared through the host.
LEMMA CreatePartKeeps ==
  ASSUME IInv, NEW r \in Rank, Negotiated(r), KindOf(current[r]) \in {"device", "distributed"}
  PROVE  IInv'
<1> DEFINE h == current[r]
           id == FreeIn(wholegraph_map[r])
           part == IF KindOf(h) = "device" THEN Contributor \cap {r} ELSE {r}
<1>1. /\ Through(r, "create") /\ pc[r] = "create" /\ h \in Op /\ h \notin Held(wholegraph_map[r])
      /\ FreeId(h) = id
  BY NewOnes, AgreedId DEF Negotiated, Through, IInv, Places
<1>2. /\ handle_id' = [handle_id EXCEPT ![h][r] = id]
      /\ local_alloc' = [local_alloc EXCEPT ![h] = @ \cup part]
      /\ UNCHANGED <<host_vars, sockets, inbox, imported>>
      /\ KindOf(h) = "device" => /\ Enter(r, "sockets", None)
                                 /\ UNCHANGED <<program, live, done, current, wholegraph_map>>
      /\ KindOf(h) = "distributed" =>
           Return(r) /\ wholegraph_map' = [wholegraph_map EXCEPT ![r] = Put(@, id, h)]
  BY <1>1 DEF Negotiated, CreateDevice, program_vars
<1>3. /\ Moves(r) /\ pc'[r] = IF KindOf(h) = "device" THEN "sockets" ELSE "idle"
      /\ KindOf(h) = "device" => current'[r] = h /\ Held(wholegraph_map'[r]) = Held(wholegraph_map[r])
      /\ KindOf(h) = "distributed" =>
           current'[r] = None /\ Held(wholegraph_map'[r]) = Held(wholegraph_map[r]) \cup {h}
  <2>1. CASE KindOf(h) = "device"
    BY <1>1, <1>2, <2>1, StageMoves DEF Stage, HostKind
  <2>2. CASE KindOf(h) = "distributed"
    BY <1>1, <1>2, <2>2, MadeMoves
  <2>3. QED
    BY <2>1, <2>2
<1>4. HostMemory'
  BY <1>1, <1>2, <1>3, HostUnmoved DEF HostStage, HostKind
<1>5. DeviceMemory'
  <2>1. imported \in [Op -> [Rank -> SUBSET Rank]] /\ local_alloc \in [Op -> SUBSET Rank]
    BY DEF IInv, DeviceMemory
  <2>2. local_alloc' \in [Op -> SUBSET Rank]
        /\ \A g \in Op : local_alloc'[g] = IF g = h THEN local_alloc[g] \cup part ELSE local_alloc[g]
    BY <1>1, <1>2, <2>1
  <2>3. \A g \in Op : HasPart(r, g)' <=> HasPart(r, g) \/ (g = h /\ r \in part)
    BY <1>1, <1>3, OthersStay DEF HasPart
  <2>4. \A g \in Op : Imports(r, g)' <=> Imports(r, g)
    BY <1>1, <1>3, OthersStay DEF Imports
  <2>5. \A g \in Op : /\ \A q \in Rank \ {r} : /\ q \in local_alloc'[g] <=> q \in local_alloc[g]
                                               /\ imported'[g][q] = imported[g][q]
                      /\ r \in local_alloc'[g] <=> HasPart(r, g)'
                      /\ imported'[g][r] = IF Imports(r, g)' THEN Contributor ELSE {}
    BY <1>2, <2>2, <2>3, <2>4 DEF IInv, DeviceMemory
  <2>6. QED
    BY <1>2, <1>3, <2>1, <2>2, <2>5, DeviceMoved
<1>6. Sockets'
  BY <1>1, <1>2, <1>3, SocketsUnmoved DEF SocketStage
<1>7. QED
  BY <1>3, <1>4, <1>5, <1>6, MovesPlaces DEF IInv

LEMMA ErasePartKeeps ==
  ASSUME IInv, NEW r \in Rank, Erase(r), KindOf(current[r]) \in {"device", "distributed"}
  PROVE  IInv'
<1> DEFINE h == current[r]
           part == IF KindOf(h) = "device" THEN {} ELSE {r}
<1>1. Through(r, "destroy") /\ pc[r] = "destroy" /\ h \in Op
  BY OldOnes DEF Erase, Through, IInv, Places
<1>2. /\ wholegraph_map' = [wholegraph_map EXCEPT ![r] = Drop(@, handle_id[h][r])]
      /\ UNCHANGED <<program, live, handle_id, host_vars, sockets, inbox, imported>>
      /\ KindOf(h) = "device" => Enter(r, "erased", None) /\ UNCHANGED <<done, current, local_alloc>>
      /\ KindOf(h) = "distributed" => HandleGone(r) /\ local_alloc' = [local_alloc EXCEPT ![h] = @ \ {r}]
  BY DEF Erase, HandleGone, Return, host_vars, device_vars, program_vars
<1>3. /\ Moves(r) /\ h \in Held(wholegraph_map[r])
      /\ Held(wholegraph_map'[r]) = Held(wholegraph_map[r]) \ {h}
      /\ IF KindOf(h) = "device" THEN pc'[r] = "erased" /\ current'[r] = h ELSE pc'[r] \in {"idle", "closing"}
  BY <1>1, <1>2, EraseMoves DEF Stage, HostKind
<1>4. HostMemory'
  BY <1>1, <1>2, <1>3, HostUnmoved DEF HostStage, HostKind
<1>5. DeviceMemory'
  <2>1. imported \in [Op -> [Rank -> SUBSET Rank]] /\ local_alloc \in [Op -> SUBSET Rank]
    BY DEF IInv, DeviceMemory
  <2>2. local_alloc' \in [Op -> SUBSET Rank]
        /\ \A g \in Op : local_alloc'[g] = IF g = h THEN local_alloc[g] \ part ELSE local_alloc[g]
    BY <1>1, <1>2, <2>1
  <2>3. \A g \in Op : HasPart(r, g)' <=> HasPart(r, g) /\ ~ (g = h /\ r \in part)
    BY <1>1, <1>3, OthersStay DEF HasPart
  <2>4. \A g \in Op : Imports(r, g)' <=> Imports(r, g)
    BY <1>1, <1>3, OthersStay DEF Imports
  <2>5. \A g \in Op : /\ \A q \in Rank \ {r} : /\ q \in local_alloc'[g] <=> q \in local_alloc[g]
                                               /\ imported'[g][q] = imported[g][q]
                      /\ r \in local_alloc'[g] <=> HasPart(r, g)'
                      /\ imported'[g][r] = IF Imports(r, g)' THEN Contributor ELSE {}
    BY <1>2, <2>2, <2>3, <2>4 DEF IInv, DeviceMemory
  <2>6. QED
    BY <1>2, <1>3, <2>1, <2>2, <2>5, DeviceMoved
<1>6. Sockets'
  BY <1>1, <1>2, <1>3, SocketsUnmoved DEF SocketStage
<1>7. QED
  BY <1>3, <1>4, <1>5, <1>6, MovesPlaces DEF IInv

-----------------------------------------------------------------------------
\* Host memory.  A file exists that somebody has made.
Makes(q, n) == /\ pc[q] = "created" /\ KindOf(current[q]) = "sysv"
               /\ handle_id[current[q]][q] = n

LEMMA FilesMade ==
  /\ Files  <=> \A n : n \in files <=> n \in DOMAIN shmKey \/ \E q \in Rank : Makes(q, n)
  /\ Files' <=> \A n : n \in files' <=> n \in DOMAIN shmKey' \/ \E q \in Rank : Makes(q, n)'
<1>1. Files <=> \A n : n \in files <=> n \in DOMAIN shmKey \/ \E q \in Rank : Makes(q, n)
  BY DEF Files, Makes
<1>2. Rank' = Rank
  BY DEF Rank
<1>3. Files' <=> \A n : n \in files' <=> n \in DOMAIN shmKey' \/ \E q \in Rank : Makes(q, n)'
  BY <1>2 DEF Files, Makes
<1>4. QED
  BY <1>1, <1>3

\* What a step has to do to keep host memory in agreement with the places.
LEMMA HostMoved ==
  ASSUME IInv, NEW r \in Rank, Moves(r),
         opened' \in [Rank -> Op \cup {None}], mapped' \in [Op -> [Rank -> Op \cup {None}]],
         \A q \in Rank \ {r} : opened'[q] = opened[q] /\ \A h \in Op : mapped'[h][q] = mapped[h][q],
         Opened(r)', Mapped(r)', Keys', Files', Names'
  PROVE  HostMemory'
<1>1. ASSUME NEW q \in Rank \ {r} PROVE Opened(q)' /\ Mapped(q)'
  <2>1. Opened(q) /\ Mapped(q)
    BY DEF IInv, HostMemory
  <2>2. Opened(q)'
    BY <2>1, OthersStay DEF Opened
  <2>3. Mapped(q)'
    BY <2>1, OthersStay DEF Mapped
  <2>4. QED
    BY <2>2, <2>3
<1>2. QED
  BY <1>1, OthersStay DEF HostMemory

\* The files of the others.
LEMMA OthersMake ==
  ASSUME IInv, NEW r \in Rank, Moves(r)
  PROVE  \A q \in Rank \ {r} : \A n : Makes(q, n)' <=> Makes(q, n)
<1>1. \A q \in Rank : pc[q] = "created" => current[q] \in Op
  BY NewOnes DEF IInv, Places, Creating
<1>2. QED
  BY <1>1, OthersStay DEF Makes

\* A step of another rank than 0 that leaves the segments as they are.
LEMMA SegmentsStay ==
  ASSUME IInv, NEW r \in Rank, Moves(r), r # 0, UNCHANGED <<shmKey, shmName>>
  PROVE  Keys' /\ Names'
<1>1. 0 \in Rank \ {r}
  BY WorldSizeAssumption DEF Rank
<1>2. \A h \in Op : /\ KeepsKey(h)' <=> KeepsKey(h)
                    /\ handle_id'[h][0] = handle_id[h][0]
  BY <1>1, OthersStay DEF KeepsKey
<1>3. Keys'
  BY <1>2, OthersStay DEF IInv, HostMemory, Keys
<1>4. pc[0] \in {"created", "opened"} => current[0] \in Op
  BY <1>1, NewOnes DEF IInv, Places, Creating
<1>5. Names'
  BY <1>1, <1>2, <1>4, OthersStay, ZenonT(30) DEF IInv, HostMemory, Names
<1>6. QED
  BY <1>3, <1>5

\* Host memory is created: at rank 0 no segment has the key yet, ...
LEMMA CreateHostKeeps ==
  ASSUME IInv, NEW r \in Rank, Negotiated(r), KindOf(current[r]) \in HostKind
  PROVE  IInv'
<1> DEFINE h == current[r]
           id == FreeIn(wholegraph_map[r])
<1>1. /\ Through(r, "create") /\ pc[r] = "create" /\ h \in Op /\ h \notin Held(wholegraph_map[r])
      /\ FreeId(h) = id /\ id \notin DOMAIN wholegraph_map[r]
  BY NewOnes, AgreedId DEF Negotiated, Through, IInv, Places
<1>2. r = 0 => id \notin DOMAIN shmKey /\ DOMAIN shmName = {}
  <2>1. SUFFICES ASSUME r = 0 PROVE id \notin DOMAIN shmKey /\ DOMAIN shmName = {}
    OBVIOUS
  <2>2. \A g \in Op : KeepsKey(g) => handle_id[g][0] \in DOMAIN wholegraph_map[0]
    BY <1>1, <2>1, HeldOnes DEF KeepsKey, IInv, Places
  <2>3. QED
    BY <1>1, <2>1, <2>2 DEF IInv, HostMemory, Keys, Names
<1>3. /\ handle_id' = [handle_id EXCEPT ![h][r] = id]
      /\ Enter(r, "created", None)
      /\ UNCHANGED <<program, live, done, current, wholegraph_map, mapped, sockets, inbox,
                     local_alloc, imported>>
      /\ opened' = IF r = 0 THEN [opened EXCEPT ![r] = h] ELSE opened
      /\ shmKey' = IF r = 0 /\ KindOf(h) = "sysv" THEN Put(shmKey, id, h) ELSE shmKey
      /\ shmName' = IF r = 0 /\ KindOf(h) = "posix" THEN Put(shmName, id, h) ELSE shmName
      /\ files' = IF KindOf(h) = "sysv" THEN files \cup {id} ELSE files
  <2>1. CASE KindOf(h) = "sysv"
    BY <1>1, <1>2, <2>1 DEF Negotiated, CreateSysV, device_vars, program_vars
  <2>2. CASE KindOf(h) = "posix"
    <3>1. CreatePosix(r, id, h) /\ UNCHANGED <<program_vars, current, wholegraph_map>>
          /\ handle_id' = [handle_id EXCEPT ![h][r] = id]
      BY <1>1, <2>2 DEF Negotiated
    <3>2. Put(shmName, id, h)[id] = h
      <4>1. \A n, g : Put(shmName, n, g)[n] = g
        BY DEF Put
      <4> HIDE DEF id, h
      <4>2. QED
        BY <4>1
    <3>3. QED
      BY <1>2, <2>2, <3>1, <3>2 DEF CreatePosix, device_vars, program_vars
  <2>3. QED
    BY <2>1, <2>2 DEF HostKind
<1>4. Moves(r) /\ pc'[r] = "created"
  BY <1>1, <1>3, StageMoves DEF Stage, HostKind
<1>5. \A g \in Op : handle_id'[g][r] = IF g = h THEN id ELSE handle_id[g][r]
  BY <1>1, <1>3 DEF IInv, Places, Ids
<1>6. /\ shmKey' = IF r = 0 /\ KindOf(h) = "sysv" THEN Put(shmKey, id, h) ELSE shmKey
      /\ r = 0 /\ KindOf(h) = "posix" => DOMAIN shmName' = {id} /\ shmName'[id] = h
  <2>1. \A n, g : DOMAIN Put(shmName, n, g) = DOMAIN shmName \cup {n} /\ Put(shmName, n, g)[n] = g
    BY DEF Put
  <2> HIDE DEF id, h
  <2>2. QED
    BY <1>2, <1>3, <2>1
<1>7. Keys'
  <2>1. CASE r = 0 /\ KindOf(h) = "sysv"
    <3>1. \A g \in Op : KeepsKey(g)' <=> KeepsKey(g) \/ g = h
      BY <1>1, <1>3, <1>4, <2>1, OthersStay DEF KeepsKey
    <3>2. ~ KeepsKey(h)
      BY <1>1, <2>1 DEF KeepsKey
    <3>3. DOMAIN shmKey' = DOMAIN shmKey \cup {id} /\ shmKey'[id] = h
          /\ \A n \in DOMAIN shmKey \ {id} : shmKey'[n] = shmKey[n]
      <4>1. shmKey' = Put(shmKey, id, h)
        BY <1>3, <2>1
      <4> HIDE DEF id, h
      <4>2. QED
        BY <4>1 DEF Put, Drop
    <3>4. \A g \in Op : KeepsKey(g) => /\ handle_id'[g][0] = handle_id[g][0]
                                       /\ handle_id[g][0] \in DOMAIN shmKey
                                       /\ shmKey[handle_id[g][0]] = g
      BY <1>5, <2>1, <3>2 DEF IInv, HostMemory, Keys
    <3>5. \A g \in Op : KeepsKey(g)' => handle_id'[g][0] \in DOMAIN shmKey' /\ shmKey'[handle_id'[g][0]] = g
      BY <1>1, <1>2, <1>5, <2>1, <3>1, <3>3, <3>4
    <3>6. \A n \in DOMAIN shmKey' : \E g \in Op : KeepsKey(g)' /\ handle_id'[g][0] = n
      BY <1>1, <1>5, <2>1, <3>1, <3>3, <3>4 DEF IInv, HostMemory, Keys
    <3>7. QED
      BY <3>5, <3>6, OthersStay, <1>4 DEF Keys
  <2>2. CASE r = 0 /\ KindOf(h) = "posix"
    <3>1. \A g \in Op : /\ KeepsKey(g)' <=> KeepsKey(g)
                        /\ KeepsKey(g) => handle_id'[g][0] = handle_id[g][0]
      BY <1>1, <1>3, <1>4, <1>5, <2>2, OthersStay DEF KeepsKey
    <3>2. QED
      BY <1>3, <1>4, <2>2, <3>1, OthersStay DEF IInv, HostMemory, Keys
  <2>3. CASE r # 0
    BY <1>3, <1>4, <2>3, SegmentsStay
  <2>4. QED
    BY <2>1, <2>2, <2>3 DEF HostKind
<1>8. Names'
  <2>1. CASE r = 0 /\ KindOf(h) = "posix"
    <3>1. DOMAIN shmName' = {id} /\ shmName'[id] = h
      BY <1>6, <2>1
    <3>2. current'[0] = h /\ pc'[0] = "created" /\ handle_id'[current'[0]][0] = id
          /\ KindOf(current[0])' = "posix"
      BY <1>1, <1>3, <1>4, <1>5, <2>1, OthersStay
    <3> HIDE DEF id, h
    <3>3. QED
      BY <3>1, <3>2 DEF Names
  <2>2. CASE r = 0 /\ KindOf(h) = "sysv"
    BY <1>2, <1>3, <1>4, <2>2, OthersStay DEF Names
  <2>3. CASE r # 0
    BY <1>3, <1>4, <2>3, SegmentsStay
  <2>4. QED
    BY <2>1, <2>2, <2>3 DEF HostKind
<1>9. Files'
  <2>1. \A n : Makes(r, n)' <=> KindOf(h) = "sysv" /\ n = id
    BY <1>1, <1>3, <1>4, <1>5, OthersStay DEF Makes
  <2>2. \A n : ~ Makes(r, n)
    BY <1>1 DEF Makes
  <2>3. \A n : n \in files <=> n \in DOMAIN shmKey \/ \E q \in Rank \ {r} : Makes(q, n)
    BY <2>2, FilesMade DEF IInv, HostMemory
  <2>4. DOMAIN shmKey' \subseteq DOMAIN shmKey \cup {id} /\ DOMAIN shmKey \subseteq DOMAIN shmKey'
        /\ (KindOf(h) # "sysv" => DOMAIN shmKey' = DOMAIN shmKey)
    <3> HIDE DEF id, h
    <3>1. DOMAIN Put(shmKey, id, h) = DOMAIN shmKey \cup {id}
      BY DEF Put
    <3>2. CASE r = 0 /\ KindOf(h) = "sysv"
      <4>1. shmKey' = Put(shmKey, id, h)
        BY <1>6, <3>2
      <4>2. QED
        BY <3>1, <3>2, <4>1
    <3>3. CASE ~ (r = 0 /\ KindOf(h) = "sysv")
      <4>1. shmKey' = shmKey
        BY <1>6, <3>3
      <4>2. QED
        BY <4>1
    <3>4. QED
      BY <3>2, <3>3
  <2>5. \A n : n \in files' <=> n \in DOMAIN shmKey' \/ \E q \in Rank : Makes(q, n)'
    BY <1>3, <1>4, <2>1, <2>3, <2>4, OthersMake
  <2>6. QED
    BY <2>5, FilesMade
<1>10. HostMemory'
  <2>1. opened \in [Rank -> Op \cup {None}] /\ mapped \in [Op -> [Rank -> Op \cup {None}]]
    BY DEF IInv, HostMemory
  <2>2. opened' \in [Rank -> Op \cup {None}] /\ mapped' \in [Op -> [Rank -> Op \cup {None}]]
    BY <1>1, <1>3, <2>1
  <2>3. Opened(r)'
    BY <1>1, <1>3, <1>4, <2>1 DEF Opened, IInv, HostMemory
  <2>4. Mapped(r)'
    BY <1>3, <1>4, OthersStay DEF Mapped, IInv, HostMemory
  <2>5. \A q \in Rank \ {r} : opened'[q] = opened[q] /\ \A g \in Op : mapped'[g][q] = mapped[g][q]
    BY <1>3, <2>1
  <2>6. QED
    BY <1>4, <1>7, <1>8, <1>9, <2>2, <2>3, <2>4, <2>5, HostMoved
<1>11. DeviceMemory'
  <2>1. \A g \in Op : (HasPart(r, g)' <=> HasPart(r, g)) /\ (Imports(r, g)' <=> Imports(r, g))
    BY <1>1, <1>3, <1>4, OthersStay DEF HasPart, Imports
  <2>2. QED
    BY <1>3, <1>4, <2>1, DeviceUnmoved
<1>12. Sockets'
  BY <1>1, <1>3, <1>4, SocketsUnmoved DEF SocketStage
<1>13. QED
  BY <1>4, <1>10, <1>11, <1>12, MovesPlaces DEF IInv

\* ... the other ranks find the segment under its key or its name, ...
LEMMA OpenSegmentKeeps ==
  ASSUME IInv, NEW r \in Rank, OpenSegment(r)
  PROVE  IInv'
<1> DEFINE h == current[r]
           id == handle_id[h][r]
<1>1. /\ Through(r, "created") /\ pc[r] = "created" /\ h \in Op /\ h \notin Held(wholegraph_map[r])
      /\ KindOf(h) \in HostKind /\ id = FreeIn(wholegraph_map[r])
  BY NewOnes, StageKind DEF OpenSegment, Through, IInv, Places, Creating, Ids
<1>2. pc[0] \in {"created", "opened"} /\ current[0] = h /\ handle_id[h][0] = id
  <2>1. 0 \in Rank /\ "created" \in Waiting \ Ending /\ ~ Final(program, At(r))
    BY <1>1, WorldSizeAssumption DEF Rank, Waiting, Creating, Ending, Final, At, Place
  <2>2. current[0] = h /\ pc[0] \in {"created", "opened"} /\ wholegraph_map[0] = wholegraph_map[r]
    BY <1>1, <2>1, OthersInCall DEF IInv, Stage
  <2>3. QED
    BY <1>1, <2>1, <2>2 DEF IInv, Places, Ids, Creating
<1>3. /\ KindOf(h) = "sysv" => KeepsKey(h) /\ id \in DOMAIN shmKey /\ shmKey[id] = h
      /\ KindOf(h) = "posix" => id \in DOMAIN shmName /\ shmName[id] = h
  BY <1>1, <1>2 DEF IInv, HostMemory, Keys, Names, KeepsKey
<1>4. opened \in [Rank -> Op \cup {None}] /\ mapped \in [Op -> [Rank -> Op \cup {None}]]
      /\ (r = 0 => opened[r] = h)
  BY <1>1 DEF IInv, HostMemory, Opened
<1>5. /\ opened' = [opened EXCEPT ![r] = h]
      /\ Enter(r, "opened", None)
      /\ UNCHANGED <<program, live, done, current, wholegraph_map, handle_id, files, shmKey, shmName,
                     mapped, sockets, inbox, local_alloc, imported>>
  BY <1>1, <1>3, <1>4 DEF OpenSegment, HostKind, program_vars, device_vars
<1>6. Moves(r) /\ pc'[r] = "opened"
  BY <1>1, <1>5, StageMoves DEF Stage
<1>7. Keys' /\ Names'
  <2>1. CASE r = 0
    <3>1. \A g \in Op : KeepsKey(g)' <=> KeepsKey(g)
      BY <1>1, <1>5, <1>6, <2>1, OthersStay DEF KeepsKey
    <3>2. Keys'
      BY <1>5, <1>6, <3>1, OthersStay DEF IInv, HostMemory, Keys
    <3>3. Names'
      BY <1>1, <1>5, <1>6, <2>1, OthersStay DEF IInv, HostMemory, Names
    <3>4. QED
      BY <3>2, <3>3
  <2>2. CASE r # 0
    BY <1>5, <1>6, <2>2, SegmentsStay
  <2>3. QED
    BY <2>1, <2>2
<1>8. Files'
  <2>1. \A n : Makes(r, n) => n \in DOMAIN shmKey
    BY <1>3 DEF Makes
  <2>2. \A n : ~ Makes(r, n)'
    BY <1>6 DEF Makes
  <2>3. \A n : n \in files' <=> n \in DOMAIN shmKey' \/ \E q \in Rank : Makes(q, n)'
    BY <1>5, <1>6, <2>1, <2>2, OthersMake, FilesMade DEF IInv, HostMemory
  <2>4. QED
    BY <2>3, FilesMade
<1>9. HostMemory'
  <2>1. opened' \in [Rank -> Op \cup {None}] /\ mapped' \in [Op -> [Rank -> Op \cup {None}]]
    BY <1>1, <1>4, <1>5
  <2>2. Opened(r)'
    BY <1>1, <1>4, <1>5, <1>6 DEF Opened
  <2>3. Mapped(r)'
    BY <1>5, <1>6, OthersStay DEF Mapped, IInv, HostMemory
  <2>4. \A q \in Rank \ {r} : opened'[q] = opened[q] /\ \A g \in Op : mapped'[g][q] = mapped[g][q]
    BY <1>4, <1>5
  <2>5. QED
    BY <1>6, <1>7, <1>8, <2>1, <2>2, <2>3, <2>4, HostMoved
<1>10. DeviceMemory'
  <2>1. \A g \in Op : (HasPart(r, g)' <=> HasPart(r, g)) /\ (Imports(r, g)' <=> Imports(r, g))
    BY <1>1, <1>5, <1>6, OthersStay DEF HasPart, Imports
  <2>2. QED
    BY <1>5, <1>6, <2>1, DeviceUnmoved
<1>11. Sockets'
  BY <1>1, <1>5, <1>6, SocketsUnmoved DEF SocketStage
<1>12. QED
  BY <1>6, <1>9, <1>10, <1>11, MovesPlaces DEF IInv

\* ... and all map it, and rank 0 unlinks its name.
LEMMA MapSegmentKeeps ==
  ASSUME IInv, NEW r \in Rank, MapSegment(r)
  PROVE  IInv'
<1> DEFINE h == current[r]
           id == handle_id[h][r]
<1>1. /\ Through(r, "opened") /\ pc[r] = "opened" /\ h \in Op /\ h \notin Held(wholegraph_map[r])
      /\ KindOf(h) \in HostKind /\ id = FreeIn(wholegraph_map[r])
  BY NewOnes, StageKind DEF MapSegment, Through, IInv, Places, Creating, Ids
<1>2. /\ opened \in [Rank -> Op \cup {None}] /\ mapped \in [Op -> [Rank -> Op \cup {None}]]
      /\ opened[r] = h
  BY <1>1 DEF IInv, HostMemory, Opened
<1>3. /\ mapped' = [mapped EXCEPT ![h][r] = h]
      /\ opened' = [opened EXCEPT ![r] = None]
      /\ shmName' = IF KindOf(h) = "posix" /\ r = 0 THEN Drop(shmName, id) ELSE shmName
      /\ wholegraph_map' = [wholegraph_map EXCEPT ![r] = Put(@, FreeIn(wholegraph_map[r]), current[r])]
      /\ Return(r)
      /\ UNCHANGED <<handle_id, files, shmKey, sockets, inbox, local_alloc, imported>>
  BY <1>1, <1>2 DEF MapSegment, HandleMade, device_vars
<1>4. /\ Moves(r) /\ pc'[r] = "idle" /\ current'[r] = None
      /\ Held(wholegraph_map'[r]) = Held(wholegraph_map[r]) \cup {h}
  BY <1>1, <1>3, MadeMoves
<1>5. Keys' /\ Names'
  <2>1. CASE r = 0
    <3>1. \A g \in Op : KeepsKey(g)' <=> KeepsKey(g)
      BY <1>1, <1>4, <2>1, OthersStay DEF KeepsKey, HostKind
    <3>2. Keys'
      BY <1>3, <1>4, <3>1, OthersStay DEF IInv, HostMemory, Keys
    <3>3. DOMAIN shmName = IF KindOf(h) = "posix" THEN {id} ELSE {}
      BY <1>1, <2>1 DEF IInv, HostMemory, Names
    <3>4. DOMAIN shmName' = {}
      <4>1. DOMAIN Drop(shmName, id) = DOMAIN shmName \ {id}
        BY DEF Drop
      <4>2. QED
        BY <1>3, <2>1, <3>3, <4>1
    <3>5. Names'
      BY <1>4, <2>1, <3>4 DEF Names
    <3>6. QED
      BY <3>2, <3>5
  <2>2. CASE r # 0
    BY <1>3, <1>4, <2>2, SegmentsStay
  <2>3. QED
    BY <2>1, <2>2
<1>6. Files'
  <2>1. \A n : ~ Makes(r, n) /\ ~ Makes(r, n)'
    BY <1>1, <1>4 DEF Makes
  <2>2. \A n : n \in files' <=> n \in DOMAIN shmKey' \/ \E q \in Rank : Makes(q, n)'
    BY <1>3, <1>4, <2>1, OthersMake, FilesMade DEF IInv, HostMemory
  <2>3. QED
    BY <2>2, FilesMade
<1>7. HostMemory'
  <2>1. opened' \in [Rank -> Op \cup {None}] /\ mapped' \in [Op -> [Rank -> Op \cup {None}]]
    BY <1>1, <1>2, <1>3
  <2>2. Opened(r)'
    BY <1>2, <1>3, <1>4 DEF Opened
  <2>3. Mapped(r)'
    <3>1. \A g \in Op : mapped'[g][r] = IF g = h THEN h ELSE mapped[g][r]
      BY <1>1, <1>2, <1>3
    <3>2. QED
      BY <1>1, <1>4, <3>1, OthersStay DEF Mapped, IInv, HostMemory
  <2>4. \A q \in Rank \ {r} : opened'[q] = opened[q] /\ \A g \in Op : mapped'[g][q] = mapped[g][q]
    BY <1>2, <1>3
  <2>5. QED
    BY <1>4, <1>5, <1>6, <2>1, <2>2, <2>3, <2>4, HostMoved
<1>8. DeviceMemory'
  <2>1. \A g \in Op : (HasPart(r, g)' <=> HasPart(r, g)) /\ (Imports(r, g)' <=> Imports(r, g))
    BY <1>1, <1>4, OthersStay DEF HasPart, Imports, HostKind
  <2>2. QED
    BY <1>3, <1>4, <2>1, DeviceUnmoved
<1>9. Sockets'
  BY <1>1, <1>3, <1>4, SocketsUnmoved DEF SocketStage
<1>10. QED
  BY <1>4, <1>7, <1>8, <1>9, MovesPlaces DEF IInv

\* Host memory is unmapped, when its key is still there, ...
LEMMA EraseHostKeeps ==
  ASSUME IInv, NEW r \in Rank, Erase(r), KindOf(current[r]) \in HostKind
  PROVE  IInv'
<1> DEFINE h == current[r]
           id == handle_id[h][r]
<1>1. /\ Through(r, "destroy") /\ pc[r] = "destroy" /\ h \in Op /\ h \in Held(wholegraph_map[r])
      /\ program[h].op = "create" /\ h <= done[r]
  BY OldOnes DEF Erase, Through, IInv, Places
<1>2. KindOf(h) = "sysv" => id \in DOMAIN shmKey /\ id \in files
  <2>1. SUFFICES ASSUME KindOf(h) = "sysv" PROVE id \in DOMAIN shmKey
    BY DEF IInv, HostMemory, Files
  <2>2. 0 \in Rank /\ "destroy" \in Waiting \ Ending /\ ~ Final(program, At(r))
    BY <1>1, <2>1, WorldSizeAssumption DEF Rank, Waiting, Ending, Final, At, Place, KindOf
  <2>3. /\ done[0] = done[r] /\ current[0] = h /\ pc[0] \in {"destroy", "unmapped"}
        /\ pc[0] = "destroy" => wholegraph_map[0] = wholegraph_map[r]
    BY <1>1, <2>2, OthersInCall DEF IInv, Stage
  <2>4. KeepsKey(h)
    BY <1>1, <2>1, <2>3 DEF KeepsKey
  <2>5. handle_id[h][0] = id
    BY <1>1, <2>2, <2>3 DEF IInv, Places, SameIds, Named
  <2>6. QED
    BY <1>1, <2>4, <2>5 DEF IInv, HostMemory, Keys
<1>3. opened \in [Rank -> Op \cup {None}] /\ mapped \in [Op -> [Rank -> Op \cup {None}]]
  BY DEF IInv, HostMemory
<1>4. /\ mapped' = [mapped EXCEPT ![h][r] = None]
      /\ wholegraph_map' = [wholegraph_map EXCEPT ![r] = Drop(@, handle_id[current[r]][r])]
      /\ Enter(r, "unmapped", None)
      /\ UNCHANGED <<program, live, done, current, handle_id, files, shmKey, shmName, opened,
                     sockets, inbox, local_alloc, imported>>
  BY <1>1, <1>2 DEF Erase, HostKind, program_vars, device_vars
<1>5. /\ Moves(r) /\ pc'[r] = "unmapped"
      /\ Held(wholegraph_map'[r]) = Held(wholegraph_map[r]) \ {h}
  BY <1>1, <1>4, EraseMoves DEF Stage, HostKind
<1>6. Keys' /\ Names'
  <2>1. CASE r = 0
    <3>1. \A g \in Op : KeepsKey(g)' <=> KeepsKey(g)
      BY <1>1, <1>4, <1>5, <2>1, OthersStay DEF KeepsKey
    <3>2. Keys'
      BY <1>1, <1>4, <1>5, <3>1, OthersStay DEF IInv, HostMemory, Keys
    <3>3. Names'
      BY <1>1, <1>4, <1>5, <2>1 DEF IInv, HostMemory, Names
    <3>4. QED
      BY <3>2, <3>3
  <2>2. CASE r # 0
    BY <1>4, <1>5, <2>2, SegmentsStay
  <2>3. QED
    BY <2>1, <2>2
<1>7. Files'
  <2>1. \A n : ~ Makes(r, n) /\ ~ Makes(r, n)'
    BY <1>1, <1>5 DEF Makes
  <2>2. \A n : n \in files' <=> n \in DOMAIN shmKey' \/ \E q \in Rank : Makes(q, n)'
    BY <1>4, <1>5, <2>1, OthersMake, FilesMade DEF IInv, HostMemory
  <2>3. QED
    BY <2>2, FilesMade
<1>8. HostMemory'
  <2>1. opened' \in [Rank -> Op \cup {None}] /\ mapped' \in [Op -> [Rank -> Op \cup {None}]]
    BY <1>1, <1>3, <1>4
  <2>2. Opened(r)'
    BY <1>1, <1>4, <1>5 DEF Opened, IInv, HostMemory
  <2>3. Mapped(r)'
    <3>1. \A g \in Op : mapped'[g][r] = IF g = h THEN None ELSE mapped[g][r]
      BY <1>1, <1>3, <1>4
    <3>2. QED
      BY <1>1, <1>5, <3>1, OthersStay DEF Mapped, IInv, HostMemory
  <2>4. \A q \in Rank \ {r} : opened'[q] = opened[q] /\ \A g \in Op : mapped'[g][q] = mapped[g][q]
    BY <1>3, <1>4
  <2>5. QED
    BY <1>5, <1>6, <1>7, <2>1, <2>2, <2>3, <2>4, HostMoved
<1>9. DeviceMemory'
  <2>1. \A g \in Op : (HasPart(r, g)' <=> HasPart(r, g)) /\ (Imports(r, g)' <=> Imports(r, g))
    BY <1>1, <1>5, OthersStay DEF HasPart, Imports, HostKind
  <2>2. QED
    BY <1>4, <1>5, <2>1, DeviceUnmoved
<1>10. Sockets'
  BY <1>1, <1>4, <1>5, SocketsUnmoved DEF SocketStage
<1>11. QED
  BY <1>5, <1>8, <1>9, <1>10, MovesPlaces DEF IInv

\* ... and rank 0 removes it when everybody has.
LEMMA RemoveSegmentKeeps ==
  ASSUME IInv, NEW r \in Rank, RemoveSegment(r)
  PROVE  IInv'
<1> DEFINE h == current[r]
           id == handle_id[h][r]
<1>1. /\ Through(r, "unmapped") /\ pc[r] = "unmapped" /\ h \in Op /\ h \notin Held(wholegraph_map[r])
      /\ KindOf(h) \in HostKind /\ id \notin DOMAIN wholegraph_map[r]
  BY OldOnes, StageKind DEF RemoveSegment, Through, IInv, Places, Dropping, Ids
<1>2. \A q \in Rank : pc[q] \in {"unmapped", "removed"}
  <2>1. "unmapped" \in Waiting \ Ending /\ ~ Final(program, At(r))
    BY <1>1 DEF Waiting, Dropping, Ending, Final, At, Place
  <2>2. QED
    BY <1>1, <2>1, OthersInCall DEF IInv, Stage
<1>3. /\ Enter(r, "removed", None)
      /\ IF r = 0 /\ KindOf(h) = "sysv" THEN shmKey' = Drop(shmKey, id) /\ files' = files \ {id}
         ELSE UNCHANGED <<shmKey, files>>
      /\ UNCHANGED <<program, live, done, current, wholegraph_map, handle_id, shmName, opened, mapped,
                     sockets, inbox, local_alloc, imported>>
  BY DEF RemoveSegment, program_vars, device_vars
<1>4. Moves(r) /\ pc'[r] = "removed"
  BY <1>1, <1>3, StageMoves DEF Stage
<1>5. Keys' /\ Names'
  <2>1. CASE r = 0 /\ KindOf(h) = "sysv"
    <3>1. /\ \A g \in Op : KeepsKey(g)' <=> KeepsKey(g) /\ g # h
          /\ \A g \in Op \ {h} : KeepsKey(g) => g \in Held(wholegraph_map[0])
      BY <1>1, <1>3, <1>4, <2>1, OthersStay DEF KeepsKey
    <3>2. \A g \in Op \ {h} : KeepsKey(g) => handle_id[g][0] # id
      BY <1>1, <2>1, <3>1, HeldOnes DEF IInv, Places
    <3>3. DOMAIN shmKey' = DOMAIN shmKey \ {id} /\ \A n \in DOMAIN shmKey \ {id} : shmKey'[n] = shmKey[n]
      <4>1. shmKey' = Drop(shmKey, id)
        BY <1>3, <2>1
      <4> HIDE DEF id
      <4>2. QED
        BY <4>1 DEF Put, Drop
    <3>4. Keys
      BY DEF IInv, HostMemory
    <3>5. \A g \in Op : KeepsKey(g)' => handle_id'[g][0] \in DOMAIN shmKey' /\ shmKey'[handle_id'[g][0]] = g
      BY <1>3, <3>1, <3>2, <3>3, <3>4 DEF Keys
    <3>6. \A n \in DOMAIN shmKey' : \E g \in Op : KeepsKey(g)' /\ handle_id'[g][0] = n
      BY <1>3, <2>1, <3>1, <3>3, <3>4 DEF Keys
    <3>7. Names'
      BY <1>1, <1>3, <1>4, <2>1 DEF IInv, HostMemory, Names
    <3>8. QED
      BY <1>4, <3>5, <3>6, <3>7, OthersStay DEF Keys
  <2>2. CASE r = 0 /\ KindOf(h) # "sysv"
    <3>1. \A g \in Op : KeepsKey(g)' <=> KeepsKey(g)
      BY <1>1, <1>3, <1>4, <2>2, OthersStay DEF KeepsKey
    <3>2. Keys'
      BY <1>3, <1>4, <2>2, <3>1, OthersStay DEF IInv, HostMemory, Keys
    <3>3. Names'
      BY <1>1, <1>3, <1>4, <2>2 DEF IInv, HostMemory, Names
    <3>4. QED
      BY <3>2, <3>3
  <2>3. CASE r # 0
    BY <1>3, <1>4, <2>3, SegmentsStay
  <2>4. QED
    BY <2>1, <2>2, <2>3
<1>6. Files'
  <2>1. \A q \in Rank : \A n : ~ Makes(q, n) /\ ~ Makes(q, n)'
    BY <1>2, <1>4, OthersMake DEF Makes
  <2>2. \A n : n \in files <=> n \in DOMAIN shmKey
    BY <2>1, FilesMade DEF IInv, HostMemory
  <2>3. \A n : DOMAIN Drop(shmKey, n) = DOMAIN shmKey \ {n}
    BY DEF Drop
  <2>4. \A n : n \in files' <=> n \in DOMAIN shmKey'
    <3> HIDE DEF id, h
    <3>1. QED
      BY <1>3, <2>2, <2>3
  <2>5. QED
    BY <1>4, <2>1, <2>4, FilesMade, OthersStay
<1>7. HostMemory'
  <2>1. opened' \in [Rank -> Op \cup {None}] /\ mapped' \in [Op -> [Rank -> Op \cup {None}]]
    BY <1>3 DEF IInv, HostMemory
  <2>2. Opened(r)'
    BY <1>1, <1>3, <1>4 DEF Opened, IInv, HostMemory
  <2>3. Mapped(r)'
    BY <1>3, <1>4, OthersStay DEF Mapped, IInv, HostMemory
  <2>4. \A q \in Rank \ {r} : opened'[q] = opened[q] /\ \A g \in Op : mapped'[g][q] = mapped[g][q]
    BY <1>3
  <2>5. QED
    BY <1>4, <1>5, <1>6, <2>1, <2>2, <2>3, <2>4, HostMoved
<1>8. DeviceMemory'
  <2>1. \A g \in Op : (HasPart(r, g)' <=> HasPart(r, g)) /\ (Imports(r, g)' <=> Imports(r, g))
    BY <1>1, <1>3, <1>4, OthersStay DEF HasPart, Imports
  <2>2. QED
    BY <1>3, <1>4, <2>1, DeviceUnmoved
<1>9. Sockets'
  BY <1>1, <1>3, <1>4, SocketsUnmoved DEF SocketStage
<1>10. QED
  BY <1>4, <1>7, <1>8, <1>9, MovesPlaces DEF IInv

-----------------------------------------------------------------------------
\* Every step of a rank, ...
LEMMA StepIInv ==
  ASSUME IInv, NEW r \in Rank, Step(r)
  PROVE  IInv'
<1>1. ~ Disagreement(r)
  BY NoDisagreement DEF IInv
<1>2. ASSUME Negotiated(r) PROVE IInv'
  <2>1. KindOf(current[r]) \in Kind
    BY <1>2, NewOnes DEF Negotiated, Through, IInv, Places
  <2>2. KindOf(current[r]) \in HostKind \/ KindOf(current[r]) \in {"device", "distributed"}
    BY <2>1, KindAssumption DEF HostKind
  <2>3. QED
    BY <1>2, <2>2, CreateHostKeeps, CreatePartKeeps
<1>3. ASSUME Erase(r) PROVE IInv'
  <2>1. KindOf(current[r]) \in Kind
    BY <1>3, OldOnes DEF Erase, Through, IInv, Places
  <2>2. KindOf(current[r]) \in HostKind \/ KindOf(current[r]) \in {"device", "distributed"}
    BY <2>1, KindAssumption DEF HostKind
  <2>3. QED
    BY <1>3, <2>2, EraseHostKeeps, ErasePartKeeps
<1>4. QED
  BY <1>1, <1>2, <1>3, QuietKeeps, OpenSegmentKeeps, MapSegmentKeeps, OpenSocketsKeeps,
     SendHandlesKeeps, ReceiveHandlesKeeps, CloseSocketsKeeps, DeviceMemoryReadyKeeps,
     RemoveSegmentKeeps, UnmapDeviceKeeps, ReleaseDeviceKeeps DEF Step

\* ... and of the system.
LEMMA NextIInv ==
  ASSUME IInv, [Next]_vars
  PROVE  IInv'
<1>1. ASSUME NEW kind \in Kind, Issue(Create(kind)) PROVE IInv'
  BY <1>1, IssueIInv
<1>2. ASSUME NEW h \in live, Issue(Destroy(h)) PROVE IInv'
  BY <1>2, IssueIInv
<1>3. CASE Issue(Close)
  BY <1>3, IssueIInv
<1>4. ASSUME NEW r \in Rank, Step(r) PROVE IInv'
  BY <1>4, StepIInv
<1>5. CASE Finished \/ UNCHANGED vars
  BY <1>5, StutterIInv DEF Finished
<1>6. QED
  BY <1>1, <1>2, <1>3, <1>4, <1>5 DEF Next

\* The states of the handles, whatever the program and the order of the ranks.
THEOREM Invariance == Spec => []IInv
<1>1. QED
  BY InitIInv, NextIInv, PTL DEF Spec

-----------------------------------------------------------------------------
\* What a rank has more, and what it has less, after the collective it waits in.
Gained(p, c) ==
  IF c.pc \in {"create", "opened", "closed"} /\ Final(p, c) THEN {c.current} ELSE {}
Lost(c) == IF c.pc = "destroy" THEN {c.current} ELSE {}

LEMMA HeldNext ==
  ASSUME NEW p, Valid(p), NEW c, InPlace(p, c), c.pc \in Waiting
  PROVE  /\ Final(p, c) => Held(Pass(p, c).map) = (Held(c.map) \cup Gained(p, c)) \ Lost(c)
         /\ Held(Go(p, c).map) = (Held(c.map) \cup Gained(p, c)) \ Lost(c)
<1> USE DEF Place
<1>1. /\ Len(p) \in Nat /\ c.done \in 0 .. Len(p) /\ c.map \in Maps
      /\ \A n, k \in DOMAIN c.map : c.map[n] = c.map[k] => n = k
      /\ InCall(p, c) /\ HoldsLive(p, c) /\ c.current \in Op \cup {None}
  BY MaxOpsAssumption DEF Valid, InPlace
<1>2. c.done < Len(p) /\ c.done + 1 \in 1 .. Len(p) /\ (c.done + 1) - 1 = c.done
  BY <1>1 DEF InCall, Waiting, Creating, Dropping, Ending
<1>3. c.pc = "destroy" => Held(Drop(c.map, IdIn(c.map, c.current))) = Held(c.map) \ {c.current}
  BY <1>1, HeldDrop DEF HoldsLive
<1>4. ASSUME Final(p, c)
      PROVE  Held(Pass(p, c).map) = (Held(c.map) \cup Gained(p, c)) \ Lost(c)
  <2>1. CASE c.pc \in {"create", "opened", "closed"}
    <3> DEFINE id == FreeIn(c.map)
    <3>1. c.current = c.done + 1 /\ p[c.done + 1].op = "create" /\ c.current \in Op
      BY <1>1, <1>2, <2>1, MaxOpsAssumption DEF InCall, Creating, Op, Valid
    <3>2. c.current \notin Held(c.map)
      BY <1>1, <3>1, LiveOnes DEF HoldsLive
    <3>3. id \in 0 .. MaxOps /\ id \notin DOMAIN c.map
      BY <1>1, SomeIdFree
    <3>4. Pass(p, c).map = Put(c.map, id, c.current)
      BY <2>1 DEF Pass
    <3> HIDE DEF id
    <3>5. Held(Put(c.map, id, c.current)) = Held(c.map) \cup {c.current}
      BY <1>1, <3>1, <3>2, <3>3, HeldPut
    <3>6. Gained(p, c) = {c.current} /\ Lost(c) = {}
      BY <1>4, <2>1 DEF Gained, Lost
    <3>7. QED
      BY <3>4, <3>5, <3>6
  <2>2. CASE c.pc = "destroy"
    <3>1. Pass(p, c).map = Drop(c.map, IdIn(c.map, c.current))
      BY <2>2 DEF Pass, Left
    <3>2. QED
      BY <1>3, <2>2, <3>1 DEF Gained, Lost
  <2>3. CASE c.pc \in {"removed", "destroy_comm"}
    <3>1. Pass(p, c).map = c.map
      BY <2>3 DEF Pass, Left
    <3>2. QED
      BY <2>3, <3>1 DEF Gained, Lost
  <2>4. QED
    BY <1>4, <2>1, <2>2, <2>3 DEF Final
<1>5. CASE Final(p, c)
  <2>1. Go(p, c).map = Pass(p, c).map
    BY <1>5 DEF Go, Begin, CloseFrom
  <2>2. QED
    BY <1>4, <1>5, <2>1
<1>6. CASE ~ Final(p, c)
  <2>1. Gained(p, c) = {}
    BY <1>6 DEF Gained
  <2>2. Go(p, c).map = IF c.pc = "destroy" THEN Drop(c.map, IdIn(c.map, c.current)) ELSE c.map
    BY <1>6 DEF Go, CloseFrom
  <2>3. QED
    BY <1>3, <1>6, <2>1, <2>2 DEF Lost
<1>7. QED
  BY <1>4, <1>5, <1>6

\* A handle that one rank holds is held by any other, unless that one is about to
\* insert it or has just erased it.
LEMMA HeldAlike ==
  ASSUME Places, NEW r \in Rank, NEW q \in Rank, NEW h \in Held(wholegraph_map[r])
  PROVE  \/ h \in Held(wholegraph_map[q])
         \/ Waits(q) /\ h \in Gained(program, At(q))
         \/ /\ h = current[r] /\ pc[r] = "destroy"
            /\ KindOf(h) = "distributed" \/ (~ Final(program, At(r)) /\ At(q) = Go(program, At(r)))
<1>1. /\ \A u \in Rank : /\ At(u).map = wholegraph_map[u] /\ At(u).pc = pc[u] /\ At(u).current = current[u]
                         /\ InPlace(program, At(u)) /\ (Waits(u) <=> At(u).pc \in Waiting)
                         /\ Count(u) \in Nat
      /\ Valid(program)
  BY DEF Places, Control, ValidProgram, At, Place, Waits, SameSent, Count
<1>2. \A u \in Rank : Begin(program, At(u)).map = At(u).map
  BY DEF Begin, CloseFrom, Place
<1>3. CASE At(q) = At(r) \/ (~ Waits(r) /\ At(q) = Begin(program, At(r)))
                          \/ (~ Waits(q) /\ At(r) = Begin(program, At(q)))
  BY <1>1, <1>2, <1>3
<1>4. CASE Waits(r) /\ (At(q) = Go(program, At(r))
                         \/ (Final(program, At(r)) /\ At(q) = Pass(program, At(r))))
  <2>1. Held(wholegraph_map[q]) = (Held(wholegraph_map[r]) \cup Gained(program, At(r))) \ Lost(At(r))
    BY <1>1, <1>4, HeldNext
  <2>2. h \notin Held(wholegraph_map[q]) => h = current[r] /\ pc[r] = "destroy"
    BY <1>1, <2>1 DEF Lost
  <2>3. pc[r] = "destroy" /\ Final(program, At(r)) => KindOf(current[r]) = "distributed"
    BY <1>1 DEF Final, KindOf
  <2>4. QED
    BY <1>4, <2>2, <2>3
<1>5. CASE Waits(q) /\ (At(r) = Go(program, At(q))
                         \/ (Final(program, At(q)) /\ At(r) = Pass(program, At(q))))
  <2>1. Held(wholegraph_map[r]) = (Held(wholegraph_map[q]) \cup Gained(program, At(q))) \ Lost(At(q))
    BY <1>1, <1>5, HeldNext
  <2>2. QED
    BY <1>5, <2>1
<1>6. CASE Count(q) = Count(r)
  BY <1>3, <1>4, <1>5, <1>6 DEF Places, InStep, Level
<1>7. CASE Count(q) > Count(r)
  BY <1>3, <1>4, <1>7 DEF Places, InStep, Ahead
<1>8. CASE Count(q) < Count(r)
  BY <1>1, <1>3, <1>5, <1>8 DEF Places, InStep, Ahead
<1>9. QED
  BY <1>1, <1>6, <1>7, <1>8

\* The key of System V memory that somebody holds is there.
LEMMA KeyOfHeld ==
  ASSUME IInv, NEW r \in Rank, NEW h \in Held(wholegraph_map[r]), KindOf(h) = "sysv"
  PROVE  handle_id[h][r] \in DOMAIN shmKey /\ shmKey[handle_id[h][r]] = h
<1>1. 0 \in Rank /\ h \in Op /\ h <= done[r] /\ program[h].op = "create"
  BY HeldOnes, WorldSizeAssumption DEF Rank, IInv, Places
<1>2. KeepsKey(h) /\ Named(0, h)
  <2>1. CASE h \in Held(wholegraph_map[0])
    BY <1>1, <2>1, HeldOnes DEF KeepsKey, Named, IInv, Places
  <2>2. CASE h \in Gained(program, At(0))
    <3>1. h = current[0] /\ pc[0] \in {"create", "opened", "closed"}
          /\ (pc[0] = "create" => KindOf(h) = "distributed")
      BY <2>2 DEF Gained, Final, At, Place, KindOf
    <3>2. pc[0] = "opened"
      BY <1>1, <3>1, StageKind
    <3>3. QED
      BY <1>1, <3>1, <3>2, NewOnes DEF KeepsKey, Named, IInv, Places, Creating
  <2>3. CASE h = current[r] /\ pc[r] = "destroy" /\ At(0) = Go(program, At(r)) /\ ~ Final(program, At(r))
    <3>1. pc[0] = "unmapped" /\ current[0] = h
      BY <2>3 DEF Go, At, Place, Stage, HostKind, KindOf
    <3>2. QED
      BY <1>1, <3>1, OldOnes DEF KeepsKey, Named, IInv, Places, Dropping
  <2>4. QED
    BY <1>1, <2>1, <2>2, <2>3, HeldAlike DEF IInv
<1>3. handle_id[h][r] = handle_id[h][0]
  BY <1>1, <1>2 DEF IInv, Places, SameIds, Named
<1>4. QED
  BY <1>1, <1>2, <1>3 DEF IInv, HostMemory, Keys

\* What a rank has mapped of device memory, all that have a part of it still keep.
LEMMA PartsKept ==
  ASSUME IInv, NEW r \in Rank, NEW h \in Op, KindOf(h) = "device", Imports(r, h), NEW q \in Contributor
  PROVE  HasPart(q, h)
<1>1. q \in Rank /\ Places /\ Count(q) \in Nat /\ Count(r) \in Nat
  BY DEF Contributor, IInv, Places, SameSent, Count
<1>2. CASE h \in Held(wholegraph_map[r])
  <2>1. CASE h \in Held(wholegraph_map[q])
    BY <2>1 DEF HasPart
  <2>2. CASE h \in Gained(program, At(q))
    <3>1. h = current[q] /\ pc[q] \in {"create", "opened", "closed"}
          /\ (pc[q] = "create" => KindOf(h) = "distributed")
      BY <2>2 DEF Gained, Final, At, Place, KindOf
    <3>2. pc[q] = "closed"
      BY <1>1, <3>1, StageKind DEF HostKind
    <3>3. QED
      BY <3>1, <3>2 DEF HasPart
  <2>3. CASE h = current[r] /\ pc[r] = "destroy" /\ At(q) = Go(program, At(r)) /\ ~ Final(program, At(r))
    <3>1. pc[q] = "erased" /\ current[q] = h
      BY <2>3 DEF Go, At, Place, Stage, HostKind, KindOf
    <3>2. QED
      BY <3>1 DEF HasPart
  <2>4. QED
    BY <1>1, <1>2, <2>1, <2>2, <2>3, HeldAlike
<1>3. CASE h = current[r] /\ pc[r] \in {"received", "closed", "erased"}
  <2>1. Waits(r) /\ (pc[r] # "closed" <=> ~ Final(program, At(r)))
    BY <1>3 DEF Waits, Waiting, Creating, Dropping, Final, At, Place
  <2>2. CASE At(q) = At(r)
    BY <1>3, <2>2 DEF HasPart, At, Place
  <2>3. CASE pc[r] # "closed" /\ At(q) = Go(program, At(r))
    <3>1. current[q] = h /\ pc[q] \in {"closed", "unimported"}
      BY <1>3, <2>1, <2>3 DEF Go, At, Place, Stage
    <3>2. QED
      BY <3>1 DEF HasPart
  <2>4. CASE pc[r] = "closed" /\ (At(q) = Go(program, At(r)) \/ At(q) = Pass(program, At(r)))
    <3>1. At(r).pc \in Waiting /\ InPlace(program, At(r)) /\ Valid(program)
          /\ At(q).map = wholegraph_map[q] /\ Final(program, At(r))
      BY <1>1, <2>1, <2>4 DEF Places, Control, ValidProgram, At, Place, Waits
    <3>2. h \in Gained(program, At(r)) /\ Lost(At(r)) = {}
      BY <1>3, <2>4, <3>1 DEF Gained, Lost, At, Place
    <3>3. h \in Held(wholegraph_map[q])
      BY <2>4, <3>1, <3>2, HeldNext
    <3>4. QED
      BY <3>3 DEF HasPart
  <2>5. CASE Waits(q) /\ At(r) = Go(program, At(q))
    <3>1. ~ Final(program, At(q)) /\ pc[q] # "destroy_all"
      BY <1>3, <2>5 DEF Go, Begin, CloseFrom, At, Place
    <3>2. current[q] = h /\ pc[r] = Stage(pc[q], KindOf(h) \in HostKind)
      BY <1>3, <2>5, <3>1 DEF Go, At, Place, KindOf
    <3>3. pc[q] \in {"create", "created", "sockets", "bound", "sent", "received", "destroy", "unmapped",
                     "erased", "unimported"}
      BY <2>5, <3>1 DEF Waits, Waiting, Creating, Dropping, Ending, Final, At, Place
    <3>4. pc[q] \in {"sent", "received", "destroy"}
      BY <1>3, <3>2, <3>3 DEF Stage
    <3>5. pc[q] = "destroy" => h \in Held(wholegraph_map[q])
      BY <1>1, <3>2, OldOnes DEF Places
    <3>6. QED
      BY <3>2, <3>4, <3>5 DEF HasPart
  <2>6. CASE ~ Waits(q) /\ At(r) = Begin(program, At(q))
    BY <1>3, <2>6 DEF Begin, CloseFrom, At, Place
  <2>7. CASE Count(q) = Count(r)
    BY <1>1, <2>1, <2>2, <2>4, <2>7 DEF Places, InStep, Level
  <2>8. CASE Count(q) > Count(r)
    BY <1>1, <2>1, <2>3, <2>4, <2>8 DEF Places, InStep, Ahead
  <2>9. CASE Count(q) < Count(r)
    BY <1>1, <2>5, <2>6, <2>9 DEF Places, InStep, Ahead
  <2>10. QED
    BY <1>1, <2>7, <2>8, <2>9
<1>4. QED
  BY <1>2, <1>3 DEF Imports

-----------------------------------------------------------------------------
\* No check of the code fails, for any number of ranks and any program: a new key is
\* unused, segments and sockets are there when they are looked for, and the ranks
\* that meet in a collective mean the same one.
THEOREM NoAbortEver == Spec => []NoAbort
<1>1. IInv => NoAbort
  BY DEF IInv, Places, Control, NoAbort, Waiting, Creating, Dropping, Ending
<1>2. QED
  BY <1>1, Invariance, PTL

\* A handle can be used from its creation at a rank to its destruction at that rank,
\* however far the other ranks are.
THEOREM UsableAlways == Spec => []UsableWhileHeld
<1>1. ASSUME IInv, NEW r \in Rank, NEW n \in DOMAIN wholegraph_map[r], current[r] # wholegraph_map[r][n]
      PROVE  LET h == wholegraph_map[r][n]
             IN  CASE KindOf(h) = "sysv"        -> mapped[h][r] = h /\ n \in files /\ shmKey[n] = h
                   [] KindOf(h) = "posix"       -> mapped[h][r] = h
                   [] KindOf(h) = "device"      -> imported[h][r] = Contributor /\ local_alloc[h] = Contributor
                   [] KindOf(h) = "distributed" -> r \in local_alloc[h]
  <2> DEFINE h == wholegraph_map[r][n]
  <2>1. /\ h \in Held(wholegraph_map[r]) /\ h \in Op /\ handle_id[h][r] = n
        /\ KindOf(h) \in {"sysv", "posix", "device", "distributed"}
    <3>1. h \in Held(wholegraph_map[r]) /\ handle_id[h][r] = n
      BY <1>1 DEF Held, IInv, Places, Ids
    <3>2. QED
      BY <1>1, <3>1, HeldOnes, KindAssumption DEF IInv, Places
  <2> HIDE DEF h
  <2>2. CASE KindOf(h) = "sysv"
    <3>1. n \in DOMAIN shmKey /\ shmKey[n] = h
      BY <1>1, <2>1, <2>2, KeyOfHeld
    <3>2. n \in files
      BY <1>1, <3>1 DEF IInv, HostMemory, Files
    <3>3. mapped[h][r] = h
      BY <1>1, <2>1, <2>2 DEF IInv, HostMemory, Mapped, HostKind
    <3>4. QED
      BY <2>2, <3>1, <3>2, <3>3 DEF h
  <2>3. CASE KindOf(h) = "posix"
    <3>1. mapped[h][r] = h
      BY <1>1, <2>1, <2>3 DEF IInv, HostMemory, Mapped, HostKind
    <3>2. QED
      BY <2>3, <3>1 DEF h
  <2>4. CASE KindOf(h) = "device"
    <3>1. imported[h][r] = Contributor /\ Imports(r, h)
      BY <1>1, <2>1, <2>4 DEF IInv, DeviceMemory, Imports
    <3>2. local_alloc[h] \subseteq Rank /\ \A q \in Rank : q \in local_alloc[h] <=> HasPart(q, h)
      BY <1>1, <2>1 DEF IInv, DeviceMemory
    <3>3. \A q \in Rank : HasPart(q, h) => q \in Contributor
      BY <2>4 DEF HasPart
    <3>4. \A q \in Contributor : HasPart(q, h)
      BY <1>1, <2>1, <2>4, <3>1, PartsKept
    <3>5. local_alloc[h] = Contributor
      BY <3>2, <3>3, <3>4 DEF Contributor
    <3>6. QED
      BY <2>4, <3>1, <3>5 DEF h
  <2>5. CASE KindOf(h) = "distributed"
    <3>1. r \in local_alloc[h]
      BY <1>1, <2>1, <2>5 DEF IInv, DeviceMemory, HasPart
    <3>2. QED
      BY <2>5, <3>1 DEF h
  <2>6. QED
    BY <2>1, <2>2, <2>3, <2>4, <2>5
<1>2. IInv => UsableWhileHeld
  BY <1>1 DEF UsableWhileHeld
<1>3. QED
  BY <1>2, Invariance, PTL

\* Memory is released and a segment is removed only when no rank maps it any more.
THEOREM ReleasedLastAlways == Spec => []ReleasedLast
<1>1. ASSUME IInv, NEW h \in Op, NEW r \in Rank PROVE imported[h][r] \subseteq local_alloc[h]
  <2>1. CASE ~ Imports(r, h)
    BY <1>1, <2>1 DEF IInv, DeviceMemory
  <2>2. CASE Imports(r, h)
    <3>1. KindOf(h) = "device"
      <4>1. pc[r] \in {"received", "closed", "erased"} => KindOf(current[r]) = "device"
        BY <1>1, StageKind
      <4>2. QED
        BY <2>2, <4>1 DEF Imports
    <3>2. imported[h][r] = Contributor
      BY <1>1, <2>2 DEF IInv, DeviceMemory
    <3>3. \A q \in Contributor : HasPart(q, h)
      BY <1>1, <2>2, <3>1, PartsKept
    <3>4. \A q \in Contributor : q \in local_alloc[h]
      BY <1>1, <3>3 DEF IInv, DeviceMemory, Contributor
    <3>5. QED
      BY <3>2, <3>4
  <2>3. QED
    BY <2>1, <2>2
<1>2. ASSUME IInv, NEW h \in Op, NEW r \in Rank, mapped[h][r] # None, KindOf(h) = "sysv"
      PROVE  handle_id[h][r] \in DOMAIN shmKey /\ shmKey[handle_id[h][r]] = h
  <2>1. h \in Held(wholegraph_map[r])
    BY <1>2 DEF IInv, HostMemory, Mapped
  <2>2. QED
    BY <1>2, <2>1, KeyOfHeld
<1>3. IInv => ReleasedLast
  BY <1>1, <1>2 DEF ReleasedLast
<1>4. QED
  BY <1>3, Invariance, PTL

\* Between calls nothing is left but what the handles need that exist, and the ranks
\* hold the same ones under the same ids.
THEOREM NothingLeftAlways == Spec => []NothingLeft
<1> DEFINE ids(kind) == {handle_id[h][0] : h \in {g \in live : KindOf(g) = kind}}
<1>1. ASSUME IInv, AllDone, NEW r \in Rank
      PROVE  /\ pc[r] = "idle" /\ Held(wholegraph_map[r]) = live
             /\ \A h \in live : /\ handle_id[h][r] = handle_id[h][0]
                               /\ wholegraph_map[r][handle_id[h][r]] = h
  <2>1. ASSUME NEW q \in Rank PROVE pc[q] = "idle" /\ done[q] = Len(program)
    <3>1. Len(program) \in 0 .. MaxOps /\ InPlace(program, At(q))
      BY <1>1 DEF IInv, Places, Control, ValidProgram, Valid
    <3>2. Len(program) \in Nat /\ done[q] \in 0 .. Len(program)
      BY <3>1, MaxOpsAssumption DEF InPlace, At, Place
    <3>3. QED
      BY <1>1, <3>2 DEF AllDone, Behind
  <2>2. \A q \in Rank : Held(wholegraph_map[q]) = live
    <3>1. \A q \in Rank : HoldsLive(program, At(q)) /\ live = LiveAt(program, Len(program))
      BY <1>1 DEF IInv, Places, Control, ValidProgram, InPlace
    <3>2. QED
      BY <2>1, <3>1 DEF HoldsLive, At, Place, Dropping
  <2>3. 0 \in Rank
    BY WorldSizeAssumption DEF Rank
  <2>4. \A h \in live : /\ wholegraph_map[r][handle_id[h][r]] = h
                        /\ Named(r, h) /\ Named(0, h) /\ program[h].op = "create" /\ h \in Op
    BY <1>1, <2>2, <2>3, HeldOnes DEF IInv, Places, Named
  <2>5. QED
    BY <1>1, <2>1, <2>2, <2>3, <2>4 DEF IInv, Places, SameIds
<1>2. ASSUME IInv, AllDone
      PROVE  files = ids("sysv") /\ DOMAIN shmKey = ids("sysv") /\ DOMAIN shmName = {}
  <2>1. 0 \in Rank /\ \A q \in Rank : pc[q] = "idle"
    BY <1>1, <1>2, WorldSizeAssumption DEF Rank
  <2>2. \A h \in Op : KeepsKey(h) <=> h \in live /\ KindOf(h) = "sysv"
    BY <1>1, <1>2, <2>1 DEF KeepsKey
  <2>3. live \subseteq Op
    BY <1>1, <1>2, <2>1, HeldOnes DEF IInv, Places
  <2>4. \A n : n \in DOMAIN shmKey <=> \E h \in live : KindOf(h) = "sysv" /\ handle_id[h][0] = n
    BY <1>2, <2>2, <2>3 DEF IInv, HostMemory, Keys
  <2>5. DOMAIN shmKey = ids("sysv")
    BY <2>4
  <2>6. files = DOMAIN shmKey
    BY <1>2, <2>1 DEF IInv, HostMemory, Files
  <2>7. QED
    BY <1>2, <2>1, <2>5, <2>6 DEF IInv, HostMemory, Names
<1>3. ASSUME IInv, AllDone PROVE sockets = {} /\ \A s \in Rank \X Rank : inbox[s] = << >>
  <2>1. \A q \in Rank : pc[q] = "idle"
    BY <1>1, <1>3
  <2>2. \A q, r \in Rank : inbox[<<q, r>>] = << >>
    BY <1>3, <2>1 DEF IInv, Sockets
  <2>3. QED
    BY <1>3, <2>1, <2>2 DEF IInv, Sockets
<1>4. ASSUME IInv, AllDone, NEW h \in Op, NEW r \in Rank
      PROVE  /\ mapped[h][r] # None => h \in live /\ KindOf(h) \in {"sysv", "posix"}
             /\ local_alloc[h] # {} => h \in live /\ KindOf(h) \in {"device", "distributed"}
  <2>1. mapped[h][r] # None => h \in live /\ KindOf(h) \in {"sysv", "posix"}
    BY <1>1, <1>4 DEF IInv, HostMemory, Mapped, HostKind
  <2>2. ASSUME NEW q \in local_alloc[h] PROVE h \in live /\ KindOf(h) \in {"device", "distributed"}
    <3>1. q \in Rank /\ HasPart(q, h)
      BY <1>4 DEF IInv, DeviceMemory
    <3>2. QED
      BY <1>1, <1>4, <3>1 DEF HasPart
  <2>3. QED
    BY <2>1, <2>2
<1>5. IInv => NothingLeft
  <2>1. SUFFICES ASSUME IInv, AllDone PROVE NothingLeft
    BY DEF NothingLeft
  <2>2. \A r \in Rank : {wholegraph_map[r][n] : n \in DOMAIN wholegraph_map[r]} = live
    BY <1>1, <2>1 DEF Held
  <2>3. QED
    BY <1>1, <1>2, <1>3, <1>4, <2>1, <2>2 DEF NothingLeft
<1>6. QED
  BY <1>5, Invariance, PTL

-----------------------------------------------------------------------------
\* TEMPORARY MEMORY.  What the kernels of an operation are, and where blocks are.

BlockKind  == {"device", "pinned", "host"}
Bytes      == Nat \cup {2 ^ i : i \in 0 .. MaxBucket}
MemContext == [kind : BlockKind, size : Nat, block : Pools \X Nat, tag : Thread \X Nat]
KernelCall == [op : {"write", "read"}, on : MemContext]

TempTypeOK ==
  /\ env \in {"default", "cached"}
  /\ calls \in [Thread -> Nat]
  /\ operation \in [Thread -> Operations \cup {NoCall}]
  /\ doing \in [Thread -> {"ready", "allocate", "launched", "freeing"}]
  /\ \A t \in Thread : doing[t] = "ready" \/ operation[t] \in Operations
  /\ held \in [Thread -> Seq(MemContext)] /\ output \in [Thread -> Seq(MemContext)]
  /\ pool \in [Pools -> [0 .. MaxBucket -> Seq(Nat)]]
  /\ capacity \in [Pools -> Seq(Bytes)]
  /\ memory \in [Pools -> Seq((Thread \X Nat) \cup {<<>>})]
  /\ \A p \in Pools : Len(memory[p]) = Len(capacity[p])
  /\ freed \subseteq Pools \X Nat /\ dropping \subseteq Pools
  /\ stream \in [Thread -> Seq(KernelCall)]

\* The block of context c is one of thread t's, or of all threads', that CUDA gave
\* and has not got back, and large enough; the cached functions can tell its class.
Provided(t, c) ==
  /\ c.block[1] = PoolOf(t, c.kind) /\ c.block[2] \in 1 .. Len(capacity[c.block[1]])
  /\ c.block \notin freed
  /\ InClass(c.size) /\ Capacity(c) >= c.size
  /\ env = "cached" => Capacity(c) = 2 ^ BucketIndex(c.size)

AllProvided ==
  \A t \in Thread :
    /\ \A n \in DOMAIN held[t]   : Provided(t, held[t][n])
    /\ \A n \in DOMAIN output[t] : Provided(t, output[t][n]) /\ output[t][n].kind = "device"
    /\ \A j \in DOMAIN stream[t] : Provided(t, stream[t][j].on) /\ stream[t][j].on.kind # "host"

\* Nobody else has the block of a context.
HeldApart ==
  \A s, t \in Thread : \A m \in DOMAIN held[s], n \in DOMAIN held[t] :
    held[s][m].block = held[t][n].block => s = t /\ m = n
OutputApart ==
  \A t \in Thread : \A m, n \in DOMAIN output[t] :
    output[t][m].block = output[t][n].block => m = n
KeptApart ==
  \A t \in Thread : \A m \in DOMAIN held[t], n \in DOMAIN output[t] :
    held[t][m].block # output[t][n].block

\* Who has block b.
InUse(b) ==
  \E t \in Thread : \/ \E n \in DOMAIN held[t]   : held[t][n].block = b
                    \/ \E n \in DOMAIN output[t] : output[t][n].block = b

\* What is queued is of its size class, and free.
QueuedFree ==
  \A p \in Pools : \A i \in 0 .. MaxBucket : \A j \in DOMAIN pool[p][i] :
    /\ pool[p][i][j] \in 1 .. Len(capacity[p])
    /\ capacity[p][pool[p][i][j]] = 2 ^ i
    /\ <<p, pool[p][i][j]>> \notin freed /\ ~ InUse(<<p, pool[p][i][j]>>)
QueuedOnce ==
  \A p \in Pools : \A i, k \in 0 .. MaxBucket :
    \A j \in DOMAIN pool[p][i], l \in DOMAIN pool[p][k] :
      pool[p][i][j] = pool[p][k][l] => i = k /\ j = l
FreedKnown == \A b \in freed : b[2] \in 1 .. Len(capacity[b[1]])

\* A kernel that reads comes directly behind the one that writes what it reads.
ReadsFollow ==
  \A t \in Thread : \A j \in DOMAIN stream[t] :
    stream[t][j].op = "read" =>
      IF j = 1 THEN LastTag(stream[t][j].on) = stream[t][j].on.tag
      ELSE stream[t][j - 1] = [op |-> "write", on |-> stream[t][j].on]

\* The kernels on pinned memory run before the call that launched them returns.
PinnedHeld ==
  \A t \in Thread : \A j \in DOMAIN stream[t] :
    stream[t][j].on.kind = "pinned" =>
      doing[t] = "launched" /\ \E n \in DOMAIN held[t] : held[t][n] = stream[t][j].on

\* No kernel behind place j uses the block of c.
LastOn(s, j, c) == \A i \in DOMAIN s : i > j => s[i].on.block # c.block

\* The last kernel on the block of a result is, or was, the one that writes it.
ResultsLast ==
  \A t \in Thread : \A n \in DOMAIN output[t] :
    \/ LastTag(output[t][n]) = output[t][n].tag /\ LastOn(stream[t], 0, output[t][n])
    \/ \E j \in DOMAIN stream[t] :
         /\ stream[t][j] = [op |-> "write", on |-> output[t][n]]
         /\ LastOn(stream[t], j, output[t][n])

TempInv ==
  /\ TempTypeOK /\ AllProvided /\ HeldApart /\ OutputApart /\ KeptApart
  /\ QueuedFree /\ QueuedOnce /\ FreedKnown
  /\ ReadsFollow /\ PinnedHeld /\ ResultsLast

-----------------------------------------------------------------------------
\* Elements of sequences, of their ends and of what they are extended with.
LEMMA SeqFacts ==
  ASSUME NEW S, NEW s \in Seq(S)
  PROVE  Len(s) \in Nat /\ DOMAIN s = 1 .. Len(s) /\ \A n \in DOMAIN s : s[n] \in S /\ n \in Nat \ {0}
  OBVIOUS

LEMMA TailFacts ==
  ASSUME NEW S, NEW s \in Seq(S), s # <<>>
  PROVE  /\ Tail(s) \in Seq(S) /\ 1 \in DOMAIN s /\ Head(s) = s[1]
         /\ \A n \in DOMAIN Tail(s) : n \in Nat \ {0} /\ n + 1 \in DOMAIN s /\ Tail(s)[n] = s[n + 1]
  OBVIOUS

LEMMA FrontFacts ==
  ASSUME NEW S, NEW s \in Seq(S), s # <<>>
  PROVE  /\ Front(s) \in Seq(S) /\ Len(s) \in DOMAIN s /\ Last(s) = s[Len(s)]
         /\ \A n \in DOMAIN Front(s) : n \in DOMAIN s /\ n # Len(s) /\ Front(s)[n] = s[n]
  BY DEF Front, Last

LEMMA AppendFacts ==
  ASSUME NEW S, NEW s \in Seq(S), NEW e \in S
  PROVE  /\ Append(s, e) \in Seq(S) /\ Append(s, e)[Len(s) + 1] = e
         /\ DOMAIN Append(s, e) = DOMAIN s \cup {Len(s) + 1} /\ Len(s) + 1 \notin DOMAIN s
         /\ Len(Append(s, e)) = Len(s) + 1
         /\ \A n \in DOMAIN s : Append(s, e)[n] = s[n]
  OBVIOUS

LEMMA ConcatFacts ==
  ASSUME NEW S, NEW s \in Seq(S), NEW u \in Seq(S)
  PROVE  /\ s \o u \in Seq(S) /\ Len(s \o u) = Len(s) + Len(u)
         /\ \A n \in DOMAIN (s \o u) : \/ n \in DOMAIN s /\ (s \o u)[n] = s[n]
                                       \/ /\ n - Len(s) \in DOMAIN u /\ n > Len(s)
                                          /\ (s \o u)[n] = u[n - Len(s)]
         /\ \A n \in DOMAIN s : n \in DOMAIN (s \o u) /\ (s \o u)[n] = s[n]
         /\ \A n \in DOMAIN u : Len(s) + n \in DOMAIN (s \o u) /\ (s \o u)[Len(s) + n] = u[n]
  OBVIOUS

-----------------------------------------------------------------------------
LEMMA PoolsApart ==
  ASSUME NEW t \in Thread, NEW s \in Thread, NEW k \in BlockKind, NEW l \in BlockKind
  PROVE  /\ PoolOf(t, k) \in Pools
         /\ PoolOf(t, k) = PoolOf(s, l) => k = l /\ (k = "device" => s = t)
  BY DEF PoolOf, Pools, BlockKind

\* The size class of a size is one in which blocks are large enough.
LEMMA ClassOf ==
  ASSUME NEW size, InClass(size)
  PROVE  BucketIndex(size) \in 0 .. MaxBucket /\ size <= 2 ^ BucketIndex(size)
<1> DEFINE S == {i \in 0 .. MaxBucket : size <= 2 ^ i}
<1>1. S # {} /\ S \subseteq Nat
  BY MaxBucketAssumption DEF InClass
<1>2. PICK m \in S : \A n \in S : m <= n
  BY <1>1, LeastElement
<1>3. Min(S) \in S
  BY <1>2 DEF Min
<1>4. QED
  BY <1>3 DEF BucketIndex

\* What temporary memory an operation asks for.
LEMMA Asked ==
  ASSUME TempTypeOK, NEW t \in Thread, NEW n \in DOMAIN operation[t].temps
  PROVE  /\ operation[t].temps[n].kind \in BlockKind /\ operation[t].temps[n].size \in Nat
         /\ InClass(operation[t].temps[n].size)
<1>1. operation[t] \in Operations \/ operation[t] = NoCall
  BY DEF TempTypeOK
<1>2. operation[t] \in Operations
  BY <1>1 DEF NoCall
<1>3. operation[t].temps \in Seq([kind : BlockKind, size : Nat]) /\ InClass(operation[t].temps[n].size)
  BY <1>2, OperationsAssumption DEF BlockKind
<1>4. operation[t].temps[n] \in [kind : BlockKind, size : Nat]
  BY <1>3, SeqFacts
<1>5. QED
  BY <1>3, <1>4

\* The effects of malloc_fn, which gives context c to thread t.
MallocGives(t, c) ==
  /\ pool' \in [Pools -> [0 .. MaxBucket -> Seq(Nat)]]
  /\ capacity' \in [Pools -> Seq(Bytes)]
  /\ memory' \in [Pools -> Seq((Thread \X Nat) \cup {<<>>})]
  /\ \A p \in Pools : Len(memory'[p]) = Len(capacity'[p])
  /\ c \in MemContext /\ Provided(t, c)' /\ ~ InUse(c.block)
  /\ \A s \in Thread, d \in MemContext :
       Provided(s, d) => Provided(s, d)' /\ LastTag(d)' = LastTag(d)
  /\ \A p \in Pools : \A i \in 0 .. MaxBucket : \A j \in DOMAIN pool'[p][i] :
       /\ pool'[p][i][j] \in 1 .. Len(capacity'[p])
       /\ capacity'[p][pool'[p][i][j]] = 2 ^ i
       /\ <<p, pool'[p][i][j]>> \notin freed
       /\ ~ InUse(<<p, pool'[p][i][j]>>) /\ <<p, pool'[p][i][j]>> # c.block
  /\ QueuedOnce' /\ FreedKnown'

LEMMA MallocEffect ==
  ASSUME TempInv, NEW t \in Thread, NEW kind \in BlockKind, NEW size \in Nat, InClass(size),
         NEW b \in 1 .. Len(capacity[PoolOf(t, kind)]) + 1, Malloc(t, kind, size, b),
         UNCHANGED <<env, freed>>, NEW c, c = Context(t, kind, size, b)
  PROVE  MallocGives(t, c)
<1> DEFINE p == PoolOf(t, kind)
           i == BucketIndex(size)
<1>1. p \in Pools /\ i \in 0 .. MaxBucket /\ size <= 2 ^ i
  BY PoolsApart, ClassOf
<1>2. /\ pool \in [Pools -> [0 .. MaxBucket -> Seq(Nat)]]
      /\ capacity \in [Pools -> Seq(Bytes)]
      /\ memory \in [Pools -> Seq((Thread \X Nat) \cup {<<>>})]
      /\ \A q \in Pools : Len(memory[q]) = Len(capacity[q])
      /\ calls[t] \in Nat
  BY DEF TempInv, TempTypeOK
<1>3. c \in MemContext
  BY <1>1, <1>2 DEF Context, MemContext
<1>4. c.block = <<p, b>> /\ c.kind = kind /\ c.size = size
  BY DEF Context
<1>5. CASE env = "cached" /\ pool[p][i] # <<>>
  <2> HIDE DEF i
  <2>1. /\ b = Head(pool[p][i])
        /\ pool' = [pool EXCEPT ![p][i] = Tail(@)]
        /\ UNCHANGED <<capacity, memory>>
    BY <1>5 DEF Malloc, i
  <2>2. /\ pool'[p][i] = Tail(pool[p][i])
        /\ \A q \in Pools, k \in 0 .. MaxBucket : q # p \/ k # i => pool'[q][k] = pool[q][k]
    <3>1. pool' = [pool EXCEPT ![p] = [pool[p] EXCEPT ![i] = Tail(pool[p][i])]]
      BY <2>1
    <3>2. pool'[p] = [pool[p] EXCEPT ![i] = Tail(pool[p][i])]
      BY <1>1, <1>2, <3>1
    <3>3. \A q \in Pools : q # p => pool'[q] = pool[q]
      BY <1>2, <3>1
    <3>4. pool[p] \in [0 .. MaxBucket -> Seq(Nat)]
      BY <1>1, <1>2
    <3>5. QED
      BY <1>1, <3>2, <3>3, <3>4
  <2>3. pool[p][i] \in Seq(Nat) /\ Tail(pool[p][i]) \in Seq(Nat)
    <3>1. pool[p][i] \in Seq(Nat)
      BY <1>1, <1>2
    <3>2. QED
      BY <1>5, <3>1
  <2>3a. pool' \in [Pools -> [0 .. MaxBucket -> Seq(Nat)]]
    <3>0. pool[p] \in [0 .. MaxBucket -> Seq(Nat)] /\ Tail(pool[p][i]) \in Seq(Nat)
      BY <1>1, <1>2, <2>3
    <3>1. [pool[p] EXCEPT ![i] = Tail(pool[p][i])] \in [0 .. MaxBucket -> Seq(Nat)]
      BY <1>1, <3>0
    <3>2. QED
      BY <1>1, <1>2, <2>1, <3>1
  <2>4. 1 \in DOMAIN pool[p][i] /\ b = pool[p][i][1]
    BY <1>5, <2>1, <2>3
  <2>4a. \A j \in DOMAIN pool'[p][i] :
           j \in Nat \ {0} /\ j + 1 \in DOMAIN pool[p][i] /\ pool'[p][i][j] = pool[p][i][j + 1]
    <3>1. \A j \in DOMAIN Tail(pool[p][i]) :
            /\ j \in Nat \ {0} /\ j + 1 \in DOMAIN pool[p][i]
            /\ Tail(pool[p][i])[j] = pool[p][i][j + 1]
      BY <1>5, <2>3, TailFacts
    <3>2. QED
      BY <2>2, <3>1
  <2>5. ASSUME NEW q \in Pools, NEW k \in 0 .. MaxBucket, NEW j \in DOMAIN pool'[q][k]
        PROVE  \E l \in DOMAIN pool[q][k] :
                 /\ pool'[q][k][j] = pool[q][k][l] /\ l = (IF q = p /\ k = i THEN j + 1 ELSE j)
    BY <2>2, <2>4a
  <2>6. \A q \in Pools : \A k \in 0 .. MaxBucket : \A j \in DOMAIN pool'[q][k] :
              <<q, pool'[q][k][j]>> # c.block
    <3>1. SUFFICES ASSUME NEW q \in Pools, NEW k \in 0 .. MaxBucket, NEW j \in DOMAIN pool'[q][k],
                          q = p, pool'[q][k][j] = b
                   PROVE  FALSE
      BY <1>4
    <3>2. PICK l \in DOMAIN pool[q][k] :
                 /\ pool'[q][k][j] = pool[q][k][l] /\ l = (IF q = p /\ k = i THEN j + 1 ELSE j)
      BY <2>5
    <3>3. k = i /\ l = 1
      <4>1. QueuedOnce
        BY DEF TempInv
      <4>2. /\ pool[p][k][l] = pool[p][i][1]
            /\ l \in DOMAIN pool[p][k] /\ 1 \in DOMAIN pool[p][i]
            /\ p \in Pools /\ i \in 0 .. MaxBucket
        BY <1>1, <2>4, <3>1, <3>2
      <4> HIDE DEF p
      <4>3. QED
        BY <4>1, <4>2 DEF QueuedOnce
    <3>4. j \in Nat \ {0}
      BY <2>4a, <3>1, <3>3
    <3>5. QED
      BY <3>1, <3>2, <3>3, <3>4
  <2>7. QueuedOnce'
    <3>1. SUFFICES ASSUME NEW q \in Pools, NEW k \in 0 .. MaxBucket, NEW m \in 0 .. MaxBucket,
                          NEW j \in DOMAIN pool'[q][k], NEW l \in DOMAIN pool'[q][m],
                          pool'[q][k][j] = pool'[q][m][l]
                   PROVE  k = m /\ j = l
      BY DEF QueuedOnce
    <3>2. PICK jj \in DOMAIN pool[q][k] :
                 /\ pool'[q][k][j] = pool[q][k][jj] /\ jj = (IF q = p /\ k = i THEN j + 1 ELSE j)
      BY <2>5
    <3>3. PICK ll \in DOMAIN pool[q][m] :
                 /\ pool'[q][m][l] = pool[q][m][ll] /\ ll = (IF q = p /\ m = i THEN l + 1 ELSE l)
      BY <2>5
    <3>4. k = m /\ jj = ll
      <4>1. QueuedOnce
        BY DEF TempInv
      <4>2. pool[q][k][jj] = pool[q][m][ll]
        BY <3>1, <3>2, <3>3
      <4>3. QED
        BY <4>1, <4>2 DEF QueuedOnce
    <3>5. j \in Nat /\ l \in Nat
      <4>1. pool'[q][k] \in Seq(Nat) /\ pool'[q][m] \in Seq(Nat)
        BY <2>3a
      <4>2. QED
        BY <4>1, SeqFacts
    <3>6. QED
      BY <3>2, <3>3, <3>4, <3>5
  <2>8. \A q \in Pools : \A k \in 0 .. MaxBucket : \A j \in DOMAIN pool'[q][k] :
              /\ pool'[q][k][j] \in 1 .. Len(capacity'[q])
              /\ capacity'[q][pool'[q][k][j]] = 2 ^ k
              /\ <<q, pool'[q][k][j]>> \notin freed
              /\ ~ InUse(<<q, pool'[q][k][j]>>) /\ <<q, pool'[q][k][j]>> # c.block
    <3>1. QueuedFree
      BY DEF TempInv
    <3>2. SUFFICES ASSUME NEW q \in Pools, NEW k \in 0 .. MaxBucket, NEW j \in DOMAIN pool'[q][k]
                   PROVE  /\ pool'[q][k][j] \in 1 .. Len(capacity'[q])
                          /\ capacity'[q][pool'[q][k][j]] = 2 ^ k
                          /\ <<q, pool'[q][k][j]>> \notin freed
                          /\ ~ InUse(<<q, pool'[q][k][j]>>) /\ <<q, pool'[q][k][j]>> # c.block
      OBVIOUS
    <3>3. PICK l \in DOMAIN pool[q][k] : pool'[q][k][j] = pool[q][k][l]
      BY <2>5
    <3>4. capacity' = capacity
      BY <2>1
    <3>5. QED
      BY <2>6, <3>1, <3>3, <3>4 DEF QueuedFree
  <2>9. /\ b \in 1 .. Len(capacity[p]) /\ capacity[p][b] = 2 ^ i
        /\ <<p, b>> \notin freed /\ ~ InUse(<<p, b>>)
    BY <1>1, <2>4 DEF TempInv, QueuedFree
  <2>10. Provided(t, c)'
    BY <1>1, <1>4, <2>1, <2>9 DEF Provided, Capacity, InClass, i
  <2>11. \A s \in Thread, d \in MemContext :
              Provided(s, d) => Provided(s, d)' /\ LastTag(d)' = LastTag(d)
    BY <2>1 DEF Provided, Capacity, InClass, LastTag
  <2>12. FreedKnown'
    BY <2>1 DEF TempInv, FreedKnown
  <2>13. QED
    BY <1>2, <1>3, <1>4, <2>1, <2>3a, <2>7, <2>8, <2>9, <2>10, <2>11, <2>12 DEF MallocGives
<1>6. CASE ~ (env = "cached" /\ pool[p][i] # <<>>)
  <2> DEFINE cap == IF env = "cached" THEN 2 ^ i ELSE size
  <2> HIDE DEF i
  <2>1. /\ b = Len(capacity[p]) + 1
        /\ capacity' = [capacity EXCEPT ![p] = Append(@, cap)]
        /\ memory' = [memory EXCEPT ![p] = Append(@, <<>>)]
        /\ UNCHANGED pool
    BY <1>6 DEF Malloc, i
  <2>2. cap \in Bytes
    BY <1>1 DEF Bytes
  <2>3. cap >= size
    BY <1>1
  <2> HIDE DEF cap
  <2>4. capacity[p] \in Seq(Bytes) /\ memory[p] \in Seq((Thread \X Nat) \cup {<<>>})
    BY <1>1, <1>2
  <2>5. capacity' \in [Pools -> Seq(Bytes)] /\ memory' \in [Pools -> Seq((Thread \X Nat) \cup {<<>>})]
    <3>1. Append(capacity[p], cap) \in Seq(Bytes)
      BY <2>2, <2>4
    <3>2. Append(memory[p], <<>>) \in Seq((Thread \X Nat) \cup {<<>>})
      BY <2>4
    <3>3. QED
      BY <1>1, <1>2, <2>1, <3>1, <3>2
  <2>6. \A q \in Pools : q # p => capacity'[q] = capacity[q] /\ memory'[q] = memory[q]
    BY <1>2, <2>1
  <2>7. /\ Len(capacity'[p]) = Len(capacity[p]) + 1 /\ Len(memory'[p]) = Len(memory[p]) + 1
        /\ capacity'[p][b] = cap
        /\ \A n \in 1 .. Len(capacity[p]) :
             capacity'[p][n] = capacity[p][n] /\ memory'[p][n] = memory[p][n]
    <3>1. capacity'[p] = Append(capacity[p], cap) /\ memory'[p] = Append(memory[p], <<>>)
      BY <1>1, <1>2, <2>1
    <3>2. Len(memory[p]) = Len(capacity[p])
      BY <1>1, <1>2
    <3>3. QED
      BY <2>1, <2>2, <2>4, <3>1, <3>2
  <2>8. \A q \in Pools : \A n \in 1 .. Len(capacity[q]) :
          /\ n \in 1 .. Len(capacity'[q])
          /\ capacity'[q][n] = capacity[q][n] /\ memory'[q][n] = memory[q][n]
    <3>1. \A q \in Pools : Len(capacity[q]) \in Nat
      BY <1>2
    <3>2. SUFFICES ASSUME NEW q \in Pools, NEW n \in 1 .. Len(capacity[q])
                   PROVE  /\ n \in 1 .. Len(capacity'[q])
                          /\ capacity'[q][n] = capacity[q][n] /\ memory'[q][n] = memory[q][n]
      OBVIOUS
    <3>3. CASE q = p
      BY <2>7, <3>1, <3>3
    <3>4. CASE q # p
      BY <2>6, <3>4
    <3>5. QED
      BY <3>3, <3>4
  <2>9. \A q \in Pools : Len(memory'[q]) = Len(capacity'[q])
    BY <1>2, <2>6, <2>7
  <2>10. b \notin 1 .. Len(capacity[p])
    BY <2>1, <2>4
  <2>11. <<p, b>> \notin freed
    BY <2>10 DEF TempInv, FreedKnown
  <2>12. ~ InUse(<<p, b>>)
    <3>1. SUFFICES ASSUME NEW s \in Thread, NEW d \in MemContext, Provided(s, d), d.block = <<p, b>>
                   PROVE  FALSE
      <4>1. \A s \in Thread : held[s] \in Seq(MemContext) /\ output[s] \in Seq(MemContext)
        BY DEF TempInv, TempTypeOK
      <4>2. \A s \in Thread : /\ \A n \in DOMAIN held[s] : Provided(s, held[s][n]) /\ held[s][n] \in MemContext
                              /\ \A n \in DOMAIN output[s] : Provided(s, output[s][n]) /\ output[s][n] \in MemContext
        BY <4>1 DEF TempInv, AllProvided
      <4>3. QED
        BY <3>1, <4>2 DEF InUse
    <3>2. QED
      BY <2>10, <3>1 DEF Provided
  <2>13. b \in 1 .. Len(capacity'[p])
    BY <2>1, <2>4, <2>7
  <2>14. Provided(t, c)'
    <3>1. c.block[1] = p /\ c.block[2] = b
      BY <1>4
    <3>2. Capacity(c)' = cap
      BY <2>7, <3>1 DEF Capacity
    <3>3. (env = "cached")' => Capacity(c)' = 2 ^ BucketIndex(c.size)
      BY <1>4, <3>2 DEF cap, i
    <3>4. QED
      BY <1>4, <2>3, <2>11, <2>13, <3>1, <3>2, <3>3 DEF Provided, InClass
  <2>15. ASSUME NEW s \in Thread, NEW d \in MemContext, Provided(s, d)
         PROVE  Provided(s, d)' /\ LastTag(d)' = LastTag(d)
    <3>1. d.block[1] \in Pools /\ d.block[2] \in 1 .. Len(capacity[d.block[1]])
      BY <2>15 DEF Provided, MemContext
    <3>2. Capacity(d)' = Capacity(d) /\ LastTag(d)' = LastTag(d)
      BY <2>8, <3>1 DEF Capacity, LastTag
    <3>3. QED
      BY <2>8, <2>15, <3>1, <3>2 DEF Provided, InClass
  <2>16. ASSUME NEW q \in Pools, NEW k \in 0 .. MaxBucket, NEW j \in DOMAIN pool'[q][k]
         PROVE  /\ pool'[q][k][j] \in 1 .. Len(capacity'[q])
                /\ capacity'[q][pool'[q][k][j]] = 2 ^ k
                /\ <<q, pool'[q][k][j]>> \notin freed
                /\ ~ InUse(<<q, pool'[q][k][j]>>) /\ <<q, pool'[q][k][j]>> # c.block
    <3>1. /\ pool'[q][k][j] \in 1 .. Len(capacity[q])
          /\ capacity[q][pool'[q][k][j]] = 2 ^ k
          /\ <<q, pool'[q][k][j]>> \notin freed
          /\ ~ InUse(<<q, pool'[q][k][j]>>)
      BY <2>1, <2>16 DEF TempInv, QueuedFree
    <3>2. <<q, pool'[q][k][j]>> # c.block
      BY <1>4, <2>10, <3>1
    <3>3. QED
      BY <2>8, <3>1, <3>2
  <2>17. FreedKnown' /\ QueuedOnce'
    <3>1. \A x \in freed : x[1] \in Pools /\ x[2] \in 1 .. Len(capacity[x[1]])
      BY DEF TempInv, TempTypeOK, FreedKnown
    <3>2. FreedKnown'
      BY <2>8, <3>1 DEF FreedKnown
    <3>3. QED
      BY <2>1, <3>2 DEF TempInv, QueuedOnce
  <2>18. QED
    BY <1>2, <1>3, <1>4, <2>1, <2>5, <2>9, <2>12, <2>14, <2>15, <2>16, <2>17 DEF MallocGives
<1>7. QED
  BY <1>5, <1>6

\* What is queued then is free, but for the block of context c, which is given back.
QueuesBut(c) ==
  \A p \in Pools : \A i \in 0 .. MaxBucket : \A j \in DOMAIN pool'[p][i] :
    /\ pool'[p][i][j] \in 1 .. Len(capacity[p])
    /\ capacity[p][pool'[p][i][j]] = 2 ^ i
    /\ <<p, pool'[p][i][j]>> \notin freed'
    /\ <<p, pool'[p][i][j]>> # c.block => ~ InUse(<<p, pool'[p][i][j]>>)

\* The effects of free_fn on the block of context c.
FreeLeaves(c) ==
  /\ pool' \in [Pools -> [0 .. MaxBucket -> Seq(Nat)]]
  /\ freed' \subseteq Pools \X Nat /\ FreedKnown'
  /\ \A s \in Thread, d \in MemContext :
       /\ Provided(s, d)
       /\ d.block # c.block \/ \E j \in DOMAIN stream[s] : stream[s][j].on = d
       => Provided(s, d)'
  /\ QueuesBut(c) /\ QueuedOnce'

\* They are these when the thread has the block, and no kernel uses it if it is pinned
\* memory.
LEMMA FreeEffect ==
  ASSUME TempInv, NEW t \in Thread, NEW c \in MemContext, Free(t, c), Provided(t, c),
         InUse(c.block), UNCHANGED <<env, capacity>>,
         \A s \in Thread : \A j \in DOMAIN stream[s] :
           stream[s][j].on.kind = "pinned" => stream[s][j].on.block # c.block
  PROVE  FreeLeaves(c)
<1> DEFINE p == PoolOf(t, c.kind)
           i == BucketIndex(c.size)
<1>1. /\ pool \in [Pools -> [0 .. MaxBucket -> Seq(Nat)]]
      /\ capacity \in [Pools -> Seq(Bytes)]
      /\ freed \subseteq Pools \X Nat
      /\ \A s \in Thread : stream[s] \in Seq(KernelCall)
  BY DEF TempInv, TempTypeOK
<1>2. c.kind \in BlockKind /\ c.block \in Pools \X Nat
  BY DEF MemContext
<1>3. /\ p \in Pools /\ i \in 0 .. MaxBucket
      /\ c.block = <<p, c.block[2]>> /\ c.block[2] \in Nat
  BY <1>2, PoolsApart, ClassOf DEF Provided
<1>4. /\ c.block[2] \in 1 .. Len(capacity[p]) /\ c.block \notin freed
      /\ env = "cached" => capacity[p][c.block[2]] = 2 ^ i
  BY DEF Provided, Capacity
<1>5. QueuedFree /\ QueuedOnce /\ FreedKnown
  BY DEF TempInv
<1>6. CASE env = "cached"
  <2> HIDE DEF i
  <2>1. /\ pool' = [pool EXCEPT ![p] = [pool[p] EXCEPT ![i] = Append(pool[p][i], c.block[2])]]
        /\ UNCHANGED <<freed, capacity, env>>
    BY <1>6 DEF Free, i
  <2>2. pool[p][i] \in Seq(Nat) /\ pool[p] \in [0 .. MaxBucket -> Seq(Nat)]
    BY <1>1, <1>3
  <2>3. Append(pool[p][i], c.block[2]) \in Seq(Nat)
    BY <1>3, <2>2
  <2>4. pool' \in [Pools -> [0 .. MaxBucket -> Seq(Nat)]]
    <3>1. [pool[p] EXCEPT ![i] = Append(pool[p][i], c.block[2])] \in [0 .. MaxBucket -> Seq(Nat)]
      BY <1>3, <2>2, <2>3
    <3>2. QED
      BY <1>1, <1>3, <2>1, <3>1
  <2>5. /\ pool'[p][i] = Append(pool[p][i], c.block[2])
        /\ \A q \in Pools, k \in 0 .. MaxBucket : q # p \/ k # i => pool'[q][k] = pool[q][k]
    <3>1. pool'[p] = [pool[p] EXCEPT ![i] = Append(pool[p][i], c.block[2])]
      BY <1>1, <1>3, <2>1
    <3>2. \A q \in Pools : q # p => pool'[q] = pool[q]
      BY <1>1, <2>1
    <3>3. QED
      BY <1>3, <2>2, <3>1, <3>2
  <2>6. \A j \in DOMAIN pool'[p][i] :
          \/ j \in DOMAIN pool[p][i] /\ pool'[p][i][j] = pool[p][i][j]
          \/ j = Len(pool[p][i]) + 1 /\ pool'[p][i][j] = c.block[2]
    BY <1>3, <2>2, <2>5
  <2>7. ASSUME NEW q \in Pools, NEW k \in 0 .. MaxBucket, NEW j \in DOMAIN pool'[q][k]
        PROVE  \/ j \in DOMAIN pool[q][k] /\ pool'[q][k][j] = pool[q][k][j]
               \/ q = p /\ k = i /\ j = Len(pool[p][i]) + 1 /\ pool'[q][k][j] = c.block[2]
    <3>1. CASE q = p /\ k = i
      BY <2>6, <3>1
    <3>2. CASE q # p \/ k # i
      BY <2>5, <3>2
    <3>3. QED
      BY <3>1, <3>2
  <2>8. ASSUME NEW k \in 0 .. MaxBucket, NEW j \in DOMAIN pool[p][k] PROVE pool[p][k][j] # c.block[2]
    <3>1. ~ InUse(<<p, pool[p][k][j]>>)
      BY <1>3, <1>5 DEF QueuedFree
    <3>2. QED
      BY <1>3, <3>1
  <2>9. QueuedOnce'
    <3>1. SUFFICES ASSUME NEW q \in Pools, NEW k \in 0 .. MaxBucket, NEW m \in 0 .. MaxBucket,
                          NEW j \in DOMAIN pool'[q][k], NEW l \in DOMAIN pool'[q][m],
                          pool'[q][k][j] = pool'[q][m][l]
                   PROVE  k = m /\ j = l
      BY DEF QueuedOnce
    <3>2. \/ j \in DOMAIN pool[q][k] /\ pool'[q][k][j] = pool[q][k][j]
          \/ q = p /\ k = i /\ j = Len(pool[p][i]) + 1 /\ pool'[q][k][j] = c.block[2]
      BY <2>7
    <3>3. \/ l \in DOMAIN pool[q][m] /\ pool'[q][m][l] = pool[q][m][l]
          \/ q = p /\ m = i /\ l = Len(pool[p][i]) + 1 /\ pool'[q][m][l] = c.block[2]
      BY <2>7
    <3>4. QED
      BY <1>5, <2>8, <3>1, <3>2, <3>3 DEF QueuedOnce
  <2>10. ASSUME NEW q \in Pools, NEW k \in 0 .. MaxBucket, NEW j \in DOMAIN pool'[q][k]
         PROVE  /\ pool'[q][k][j] \in 1 .. Len(capacity[q])
                /\ capacity[q][pool'[q][k][j]] = 2 ^ k
                /\ <<q, pool'[q][k][j]>> \notin freed'
                /\ <<q, pool'[q][k][j]>> # c.block => ~ InUse(<<q, pool'[q][k][j]>>)
    <3>1. CASE j \in DOMAIN pool[q][k] /\ pool'[q][k][j] = pool[q][k][j]
      <4>1. /\ pool[q][k][j] \in 1 .. Len(capacity[q]) /\ capacity[q][pool[q][k][j]] = 2 ^ k
            /\ <<q, pool[q][k][j]>> \notin freed /\ ~ InUse(<<q, pool[q][k][j]>>)
        BY <1>5, <3>1 DEF QueuedFree
      <4>2. freed' = freed
        BY <2>1
      <4>3. QED
        BY <3>1, <4>1, <4>2
    <3>2. CASE q = p /\ k = i /\ pool'[q][k][j] = c.block[2]
      <4>1. <<q, pool'[q][k][j]>> = c.block
        BY <1>3, <3>2
      <4>2. QED
        <5>1. freed' = freed
          BY <2>1
        <5>2. QED
          BY <1>4, <1>6, <3>2, <4>1, <5>1
    <3>3. QED
      BY <2>7, <3>1, <3>2
  <2>11. \A s \in Thread, d \in MemContext : Provided(s, d) => Provided(s, d)'
    BY <2>1 DEF Provided, Capacity, InClass
  <2>12. FreedKnown'
    BY <1>5, <2>1 DEF FreedKnown
  <2>13. QED
    BY <1>1, <2>1, <2>4, <2>9, <2>10, <2>11, <2>12 DEF FreeLeaves, QueuesBut
<1>7. CASE env # "cached"
  <2>1. /\ c.kind = "host" \/ stream[t] = <<>>
        /\ freed' = freed \cup {c.block}
        /\ UNCHANGED <<pool, capacity, env>>
    BY <1>7 DEF Free
  <2>2. FreedKnown' /\ freed' \subseteq Pools \X Nat
    <3>1. c.block[1] = p
      BY DEF Provided
    <3>2. QED
      BY <1>1, <1>2, <1>4, <1>5, <2>1, <3>1 DEF FreedKnown
  <2>3. ASSUME NEW s \in Thread, NEW j \in DOMAIN stream[s] PROVE stream[s][j].on.block # c.block
    <3>1. stream[s][j].on \in MemContext
      <4>1. stream[s][j] \in KernelCall
        BY <1>1, SeqFacts
      <4>2. QED
        BY <4>1 DEF KernelCall
    <3>2. Provided(s, stream[s][j].on) /\ stream[s][j].on.kind # "host"
      BY DEF TempInv, AllProvided
    <3>3. stream[s][j].on.kind \in BlockKind
      BY <3>1 DEF MemContext
    <3>4. SUFFICES ASSUME stream[s][j].on.block = c.block PROVE FALSE
      OBVIOUS
    <3>5. PoolOf(s, stream[s][j].on.kind) = p
      BY <3>2, <3>4 DEF Provided
    <3>6. stream[s][j].on.kind = "device"
      BY <3>2, <3>3, <3>4 DEF BlockKind
    <3>7. s = t /\ c.kind = "device"
      BY <1>2, <3>3, <3>5, <3>6, PoolsApart
    <3>8. QED
      BY <2>1, <3>7
  <2>4. ASSUME NEW s \in Thread, NEW d \in MemContext, Provided(s, d),
               d.block # c.block \/ \E j \in DOMAIN stream[s] : stream[s][j].on = d
        PROVE  Provided(s, d)'
    <3>1. d.block # c.block
      BY <2>3, <2>4
    <3>2. QED
      BY <2>1, <2>4, <3>1 DEF Provided, Capacity, InClass
  <2>5. ASSUME NEW q \in Pools, NEW k \in 0 .. MaxBucket, NEW j \in DOMAIN pool'[q][k]
        PROVE  /\ pool'[q][k][j] \in 1 .. Len(capacity[q])
               /\ capacity[q][pool'[q][k][j]] = 2 ^ k
               /\ <<q, pool'[q][k][j]>> \notin freed'
               /\ ~ InUse(<<q, pool'[q][k][j]>>)
    <3>1. /\ pool[q][k][j] \in 1 .. Len(capacity[q])
          /\ capacity[q][pool[q][k][j]] = 2 ^ k
          /\ <<q, pool[q][k][j]>> \notin freed
          /\ ~ InUse(<<q, pool[q][k][j]>>)
      BY <1>5, <2>1, <2>5 DEF QueuedFree
    <3>2. <<q, pool[q][k][j]>> # c.block
      BY <3>1
    <3>3. QED
      BY <2>1, <3>1, <3>2
  <2>6. QueuedOnce'
    BY <1>5, <2>1 DEF QueuedOnce
  <2>7. QED
    <3>1. QueuesBut(c)
      BY <2>5 DEF QueuesBut
    <3>2. QED
      BY <1>1, <2>1, <2>2, <2>4, <2>6, <3>1 DEF FreeLeaves
<1>8. QED
  BY <1>6, <1>7

-----------------------------------------------------------------------------
\* What is concatenated up to each place of a sequence of sequences.
Joined(f, seqs) ==
  f = [i \in 1 .. Len(seqs) |-> IF i = 1 THEN seqs[i] ELSE f[i - 1] \o seqs[i]]

LEMMA JoinExists ==
  ASSUME NEW seqs, Len(seqs) \in Nat
  PROVE  \E f : Joined(f, seqs)
<1> DEFINE Up(n, f) == f = [i \in 1 .. n |-> IF i = 1 THEN seqs[i] ELSE f[i - 1] \o seqs[i]]
           Missing == {n \in 0 .. Len(seqs) : \A f : ~ Up(n, f)}
<1>1. SUFFICES ASSUME Missing # {} PROVE FALSE
  <2>1. Len(seqs) \notin Missing
    BY <1>1
  <2> HIDE DEF Up
  <2>2. PICK f : Up(Len(seqs), f)
    BY <2>1
  <2> USE DEF Up
  <2>3. QED
    BY <2>2 DEF Joined
<1>2. PICK m \in Missing : \A n \in Missing : m <= n
  <2> HIDE DEF Up
  <2>1. Missing \in SUBSET Nat
    OBVIOUS
  <2> HIDE DEF Missing
  <2>2. QED
    BY <1>1, <2>1, LeastElement
<1>3. CASE m = 0
  <2>1. Up(0, [i \in 1 .. 0 |-> 0])
    OBVIOUS
  <2>2. QED
    BY <1>2, <1>3, <2>1
<1>4. CASE m # 0
  <2>1. m - 1 \in 0 .. Len(seqs) /\ m - 1 \notin Missing
    <3>1. m \in 1 .. Len(seqs)
      BY <1>4
    <3>2. m - 1 \in 0 .. Len(seqs) /\ ~ (m <= m - 1)
      BY <3>1
    <3>3. QED
      BY <1>2, <3>2
  <2>2. PICK f : Up(m - 1, f)
    BY <2>1
  <2> DEFINE g == [i \in 1 .. m |-> IF i < m THEN f[i]
                                    ELSE IF i = 1 THEN seqs[i] ELSE f[i - 1] \o seqs[i]]
  <2>3. m \in Nat \ {0}
    BY <1>2, <1>4
  <2>4. \A i \in 1 .. m : g[i] = (IF i = 1 THEN seqs[i] ELSE g[i - 1] \o seqs[i])
    <3>1. TAKE i \in 1 .. m
    <3>2. CASE i = m
      BY <2>3, <3>2
    <3>3. CASE i < m
      <4>1. i \in 1 .. m - 1 /\ g[i] = f[i] /\ (i # 1 => i - 1 \in 1 .. m /\ g[i - 1] = f[i - 1])
        BY <2>3, <3>3
      <4>2. f[i] = (IF i = 1 THEN seqs[i] ELSE f[i - 1] \o seqs[i])
        BY <2>2, <4>1
      <4>3. QED
        BY <4>1, <4>2
    <3>4. QED
      BY <2>3, <3>2, <3>3
  <2>5. Up(m, g)
    <3> DEFINE h == [i \in 1 .. m |-> IF i = 1 THEN seqs[i] ELSE g[i - 1] \o seqs[i]]
    <3>1. DOMAIN g = 1 .. m /\ DOMAIN h = 1 .. m /\ \A i \in 1 .. m : g[i] = h[i]
      BY <2>4
    <3>2. g = [i \in 1 .. m |-> g[i]]
      OBVIOUS
    <3>3. h = [i \in 1 .. m |-> h[i]]
      OBVIOUS
    <3> HIDE DEF g, h
    <3>4. g = h
      BY <3>1, <3>2, <3>3
    <3>5. QED
      BY <3>4 DEF h
  <2> HIDE DEF g
  <2>6. QED
    BY <1>2, <2>5
<1>5. QED
  BY <1>3, <1>4

LEMMA FlattenUnfolded ==
  ASSUME NEW seqs
  PROVE  FlattenSeq(seqs) = IF Len(seqs) = 0 THEN seqs
                            ELSE (CHOOSE f : Joined(f, seqs))[Len(seqs)]
  BY DEF FlattenSeq, Joined

\* A kernel of an operation: what it works on, and what comes before it.
Launched(s, j, contexts) ==
  /\ s[j].on.kind # "host" /\ \E n \in DOMAIN contexts : contexts[n] = s[j].on
  /\ s[j].op = "read" => j > 1 /\ s[j - 1] = [op |-> "write", on |-> s[j].on]

LEMMA KernelsOfOne ==
  ASSUME NEW contexts \in Seq(MemContext), NEW n \in DOMAIN contexts
  PROVE  /\ Kernels(contexts[n]) \in Seq(KernelCall)
         /\ \A j \in DOMAIN Kernels(contexts[n]) : Launched(Kernels(contexts[n]), j, contexts)
<1>1. contexts[n] \in MemContext
  BY SeqFacts
<1>2. CASE contexts[n].kind = "host"
  BY <1>2 DEF Kernels
<1>3. CASE contexts[n].kind # "host"
  <2> DEFINE w == [op |-> "write", on |-> contexts[n]]
             r == [op |-> "read", on |-> contexts[n]]
  <2>1. w \in KernelCall /\ r \in KernelCall /\ Kernels(contexts[n]) = <<w, r>>
    BY <1>1, <1>3 DEF KernelCall, Kernels
  <2>2. /\ w.op = "write" /\ w.on = contexts[n] /\ r.op = "read" /\ r.on = contexts[n]
        /\ w = [op |-> "write", on |-> contexts[n]]
    OBVIOUS
  <2> HIDE DEF w, r
  <2>3. <<w, r>> \in Seq(KernelCall) /\ DOMAIN <<w, r>> = 1 .. 2 /\ <<w, r>>[1] = w /\ <<w, r>>[2] = r
    BY <2>1
  <2>4. \A j \in 1 .. 2 : Launched(<<w, r>>, j, contexts)
    <3>1. Launched(<<w, r>>, 1, contexts)
      BY <1>3, <2>2, <2>3 DEF Launched
    <3>2. Launched(<<w, r>>, 2, contexts)
      BY <1>3, <2>2, <2>3 DEF Launched
    <3>3. QED
      BY <3>1, <3>2
  <2>5. QED
    BY <2>1, <2>3, <2>4
<1>4. QED
  BY <1>2, <1>3

LEMMA KernelsOfAll ==
  ASSUME NEW contexts \in Seq(MemContext)
  PROVE  /\ KernelsOn(contexts) \in Seq(KernelCall)
         /\ \A j \in DOMAIN KernelsOn(contexts) : Launched(KernelsOn(contexts), j, contexts)
<1> DEFINE seqs == [n \in DOMAIN contexts |-> Kernels(contexts[n])]
<1>1. /\ Len(contexts) \in Nat /\ DOMAIN contexts = 1 .. Len(contexts)
      /\ Len(seqs) = Len(contexts) /\ DOMAIN seqs = 1 .. Len(contexts)
  BY SeqFacts
<1>2. KernelsOn(contexts) = FlattenSeq(seqs)
  BY DEF KernelsOn
<1>3. CASE Len(contexts) = 0
  <2>1. seqs = <<>>
    BY <1>1, <1>3
  <2>2. KernelsOn(contexts) = <<>>
    BY <1>1, <1>2, <1>3, <2>1, FlattenUnfolded
  <2>3. QED
    BY <2>2
<1>4. CASE Len(contexts) # 0
  <2> DEFINE f == CHOOSE f : Joined(f, seqs)
  <2>1. Joined(f, seqs)
    BY <1>1, JoinExists
  <2>2. KernelsOn(contexts) = f[Len(contexts)]
    BY <1>1, <1>2, <1>4, FlattenUnfolded
  <2> HIDE DEF f
  <2>3. \A n \in 1 .. Len(contexts) : f[n] = (IF n = 1 THEN seqs[n] ELSE f[n - 1] \o seqs[n])
    BY <1>1, <2>1 DEF Joined
  <2> DEFINE Good(s) == s \in Seq(KernelCall) /\ \A j \in DOMAIN s : Launched(s, j, contexts)
  <2>4. \A n \in 1 .. Len(contexts) : Good(seqs[n])
    BY <1>1, KernelsOfOne
  <2> HIDE DEF seqs
  <2>5. ASSUME NEW s, NEW u, Good(s), Good(u) PROVE Good(s \o u)
    <3>1. s \in Seq(KernelCall) /\ u \in Seq(KernelCall)
      BY <2>5
    <3>2. s \o u \in Seq(KernelCall)
      BY <3>1, ConcatFacts
    <3>3. ASSUME NEW j \in DOMAIN (s \o u) PROVE Launched(s \o u, j, contexts)
      <4>0. j \in Nat /\ Len(s) \in Nat
        BY <3>1, <3>2, SeqFacts
      <4>1. CASE j \in DOMAIN s /\ (s \o u)[j] = s[j]
        <5>1. Launched(s, j, contexts)
          BY <2>5, <4>1
        <5>2. j > 1 => j - 1 \in DOMAIN s /\ (s \o u)[j - 1] = s[j - 1]
          <6>1. j > 1 => j - 1 \in DOMAIN s
            BY <3>1, <4>1, SeqFacts
          <6>2. QED
            BY <3>1, <6>1, ConcatFacts
        <5>3. QED
          BY <4>1, <5>1, <5>2 DEF Launched
      <4>2. CASE j - Len(s) \in DOMAIN u /\ j > Len(s) /\ (s \o u)[j] = u[j - Len(s)]
        <5>1. Launched(u, j - Len(s), contexts)
          BY <2>5, <4>2
        <5>2. j - Len(s) > 1 => (s \o u)[j - 1] = u[j - Len(s) - 1]
          <6>1. j - Len(s) > 1 => j - Len(s) - 1 \in DOMAIN u
            BY <3>1, <4>0, <4>2, SeqFacts
          <6>2. Len(s) + (j - Len(s) - 1) = j - 1
            BY <4>0
          <6>3. QED
            BY <3>1, <6>1, <6>2, ConcatFacts
        <5>3. j - Len(s) > 1 => j > 1
          BY <4>0
        <5>4. QED
          BY <4>2, <5>1, <5>2, <5>3 DEF Launched
      <4>3. QED
        BY <3>1, <4>1, <4>2, ConcatFacts
    <3>4. QED
      BY <3>2, <3>3
  <2> DEFINE Bad == {n \in 1 .. Len(contexts) : ~ Good(f[n])}
  <2> HIDE DEF Good
  <2>6. Bad = {}
    <3>1. SUFFICES ASSUME Bad # {} PROVE FALSE
      OBVIOUS
    <3>2. PICK n \in Bad : \A m \in Bad : n <= m
      <4>1. Bad \in SUBSET Nat
        OBVIOUS
      <4> HIDE DEF Bad
      <4>2. QED
        BY <3>1, <4>1, LeastElement
    <3>3. n \in 1 .. Len(contexts) /\ ~ Good(f[n])
      OBVIOUS
    <3>4. CASE n = 1
      BY <2>3, <2>4, <3>3, <3>4
    <3>5. CASE n # 1
      <4>1. n - 1 \in 1 .. Len(contexts) /\ ~ (n <= n - 1)
        BY <1>1, <3>3, <3>5
      <4>2. Good(f[n - 1])
        BY <3>2, <4>1
      <4>3. f[n] = f[n - 1] \o seqs[n]
        BY <2>3, <3>3, <3>5
      <4>4. QED
        BY <2>4, <2>5, <3>3, <4>2, <4>3
    <3>6. QED
      BY <3>4, <3>5
  <2>7. Good(f[Len(contexts)])
    <3>1. Len(contexts) \in 1 .. Len(contexts)
      BY <1>1, <1>4
    <3>2. QED
      BY <2>6, <3>1
  <2>8. QED
    BY <2>2, <2>7 DEF Good
<1>5. QED
  BY <1>3, <1>4

-----------------------------------------------------------------------------
LEMMA TempTypes ==
  ASSUME TempTypeOK, NEW s \in Thread
  PROVE  /\ held[s] \in Seq(MemContext) /\ output[s] \in Seq(MemContext)
         /\ stream[s] \in Seq(KernelCall)
         /\ \A n \in DOMAIN held[s]   : held[s][n] \in MemContext
         /\ \A n \in DOMAIN output[s] : output[s][n] \in MemContext
         /\ \A j \in DOMAIN stream[s] : /\ stream[s][j] \in KernelCall /\ j \in Nat \ {0}
                                        /\ stream[s][j].on \in MemContext
<1>1. /\ held[s] \in Seq(MemContext) /\ output[s] \in Seq(MemContext)
      /\ stream[s] \in Seq(KernelCall)
  BY DEF TempTypeOK
<1>2. \A j \in DOMAIN stream[s] : stream[s][j] \in KernelCall /\ j \in Nat \ {0}
  BY <1>1, SeqFacts
<1>3. \A k \in KernelCall : k.on \in MemContext
  BY DEF KernelCall
<1>4. QED
  BY <1>1, <1>2, <1>3, SeqFacts

LEMMA ContextKinds ==
  ASSUME NEW d \in MemContext
  PROVE  /\ d.kind \in BlockKind /\ d.block \in Pools \X Nat /\ d.size \in Nat
         /\ d.tag \in Thread \X Nat /\ d.block[1] \in Pools /\ d.block[2] \in Nat
         /\ d.block = <<d.block[1], d.block[2]>>
  BY DEF MemContext

\* A step that only goes from one part of the operation to the next.
LEMMA ControlStep ==
  ASSUME TempInv, UNCHANGED <<env, held, output, pool, capacity, freed, stream, memory>>,
         TempTypeOK', PinnedHeld'
  PROVE  TempInv'
<1>1. AllProvided'
  <2>1. AllProvided
    BY DEF TempInv
  <2>2. \A s \in Thread : \A n \in DOMAIN held[s] : Provided(s, held[s][n])'
    BY <2>1, ZenonT(30) DEF AllProvided, Provided, Capacity
  <2>3. \A s \in Thread : \A n \in DOMAIN output[s] : Provided(s, output[s][n])'
    BY <2>1, ZenonT(30) DEF AllProvided, Provided, Capacity
  <2>4. \A s \in Thread : \A j \in DOMAIN stream[s] : Provided(s, stream[s][j].on)'
    BY <2>1, ZenonT(30) DEF AllProvided, Provided, Capacity
  <2>5. QED
    BY <2>1, <2>2, <2>3, <2>4 DEF AllProvided
<1>2. HeldApart' /\ OutputApart' /\ KeptApart'
  BY DEF TempInv, HeldApart, OutputApart, KeptApart
<1>3. QueuedFree'
  BY DEF TempInv, QueuedFree, InUse
<1>4. QueuedOnce' /\ FreedKnown'
  BY DEF TempInv, QueuedOnce, FreedKnown
<1>5. ReadsFollow'
  BY DEF TempInv, ReadsFollow, LastTag
<1>6. ResultsLast'
  BY DEF TempInv, ResultsLast, LastOn, LastTag
<1>7. QED
  BY <1>1, <1>2, <1>3, <1>4, <1>5, <1>6 DEF TempInv

LEMMA BeginCallKeeps ==
  ASSUME TempInv, NEW t \in Thread, BeginCall(t)
  PROVE  TempInv'
<1>1. PICK o \in Operations : operation' = [operation EXCEPT ![t] = o]
  BY DEF BeginCall
<1>2. TempTypeOK'
  BY <1>1 DEF BeginCall, TempInv, TempTypeOK
<1>3. PinnedHeld'
  BY DEF BeginCall, TempInv, TempTypeOK, PinnedHeld
<1>4. QED
  BY <1>2, <1>3, ControlStep DEF BeginCall

LEMMA ReturnResultKeeps ==
  ASSUME TempInv, NEW t \in Thread, ReturnResult(t)
  PROVE  TempInv'
<1>1. TempTypeOK'
  BY DEF ReturnResult, TempInv, TempTypeOK
<1>2. PinnedHeld'
  <2>1. SUFFICES ASSUME NEW s \in Thread, NEW j \in DOMAIN stream[s], stream[s][j].on.kind = "pinned"
                 PROVE  doing'[s] = "launched" /\ \E n \in DOMAIN held[s] : held[s][n] = stream[s][j].on
    BY DEF PinnedHeld, ReturnResult
  <2>2. doing[s] = "launched" /\ \E n \in DOMAIN held[s] : held[s][n] = stream[s][j].on
    BY <2>1 DEF TempInv, PinnedHeld
  <2>3. s # t
    BY <2>1, <2>2 DEF ReturnResult
  <2>4. QED
    BY <2>2, <2>3 DEF ReturnResult, TempInv, TempTypeOK
<1>3. QED
  BY <1>1, <1>2, ControlStep DEF ReturnResult

LEMMA ReturnedKeeps ==
  ASSUME TempInv, NEW t \in Thread, Returned(t)
  PROVE  TempInv'
<1>1. TempTypeOK'
  BY DEF Returned, TempInv, TempTypeOK
<1>2. PinnedHeld'
  BY DEF Returned, TempInv, TempTypeOK, PinnedHeld
<1>3. QED
  BY <1>1, <1>2, ControlStep DEF Returned

LEMMA DropCachesKeeps ==
  ASSUME TempInv, NEW t \in Thread, DropCaches(t)
  PROVE  TempInv'
<1>1. TempTypeOK'
  BY DEF DropCaches, TempInv, TempTypeOK
<1>2. PinnedHeld'
  BY DEF DropCaches, TempInv, PinnedHeld
<1>3. QED
  BY <1>1, <1>2, ControlStep DEF DropCaches

LEMMA TempStutterKeeps ==
  ASSUME TempInv, UNCHANGED tempVars
  PROVE  TempInv'
<1>1. TempTypeOK'
  BY DEF tempVars, TempInv, TempTypeOK
<1>2. PinnedHeld'
  BY DEF tempVars, TempInv, PinnedHeld
<1>3. QED
  BY <1>1, <1>2, ControlStep DEF tempVars

-----------------------------------------------------------------------------
LEMMA AllocateTempKeeps ==
  ASSUME TempInv, NEW t \in Thread, AllocateTemp(t)
  PROVE  TempInv'
<1> DEFINE temp == operation[t].temps[Len(held[t]) + 1]
<1>0. TempTypeOK
  BY DEF TempInv
<1>1. PICK b \in 1 .. Len(capacity[PoolOf(t, temp.kind)]) + 1 :
        /\ Malloc(t, temp.kind, temp.size, b)
        /\ held' = [held EXCEPT ![t] = Append(@, Context(t, temp.kind, temp.size, b))]
  BY DEF AllocateTemp
<1>2. /\ Len(held[t]) < Len(operation[t].temps) /\ doing[t] = "allocate"
      /\ UNCHANGED <<env, calls, operation, doing, output, freed, dropping, stream>>
  BY DEF AllocateTemp
<1>3. temp.kind \in BlockKind /\ temp.size \in Nat /\ InClass(temp.size)
  <2>1. Len(operation[t].temps) \in Nat /\ DOMAIN operation[t].temps = 1 .. Len(operation[t].temps)
    <3>1. operation[t] \in Operations \/ operation[t] = NoCall
      BY <1>0 DEF TempTypeOK
    <3>2. operation[t] \in Operations => operation[t].temps \in Seq([kind : BlockKind, size : Nat])
      BY OperationsAssumption DEF BlockKind
    <3>3. operation[t] = NoCall => operation[t].temps = <<>>
      BY DEF NoCall
    <3>4. QED
      BY <3>1, <3>2, <3>3, SeqFacts
  <2>2. Len(held[t]) \in Nat
    BY <1>0, TempTypes, SeqFacts
  <2>3. Len(held[t]) + 1 \in DOMAIN operation[t].temps
    BY <1>2, <2>1, <2>2
  <2>4. QED
    BY <1>0, <2>3, Asked
<1> HIDE DEF temp
<1>4. PICK c : c = Context(t, temp.kind, temp.size, b)
  OBVIOUS
<1>5. MallocGives(t, c)
  BY <1>1, <1>2, <1>3, <1>4, MallocEffect
<1>6. /\ held[t] \in Seq(MemContext) /\ held \in [Thread -> Seq(MemContext)]
      /\ held' = [held EXCEPT ![t] = Append(held[t], c)] /\ Append(held[t], c) \in Seq(MemContext)
  <2>1. held[t] \in Seq(MemContext) /\ held \in [Thread -> Seq(MemContext)]
    BY <1>0 DEF TempTypeOK
  <2>2. QED
    BY <1>1, <1>4, <1>5, <2>1, AppendFacts DEF MallocGives
<1>7. /\ \A s \in Thread : s # t => held'[s] = held[s]
      /\ held'[t] = Append(held[t], c)
  BY <1>6
<1>8. /\ \A n \in DOMAIN held'[t] : \/ n \in DOMAIN held[t] /\ held'[t][n] = held[t][n]
                                    \/ n = Len(held[t]) + 1 /\ held'[t][n] = c
      /\ \A n \in DOMAIN held[t] : n \in DOMAIN held'[t] /\ held'[t][n] = held[t][n]
  BY <1>5, <1>6, <1>7, AppendFacts
<1>9. ASSUME NEW s \in Thread, NEW n \in DOMAIN held'[s]
      PROVE  \/ n \in DOMAIN held[s] /\ held'[s][n] = held[s][n]
             \/ s = t /\ n = Len(held[t]) + 1 /\ held'[s][n] = c
  BY <1>7, <1>8
<1>10. TempTypeOK'
  BY <1>0, <1>2, <1>5, <1>6 DEF TempTypeOK, MallocGives
<1>11. AllProvided'
  <2>1. AllProvided
    BY DEF TempInv
  <2>2. ASSUME NEW s \in Thread, NEW n \in DOMAIN held'[s] PROVE Provided(s, held[s][n])'
    <3>1. CASE n \in DOMAIN held[s] /\ held'[s][n] = held[s][n]
      <4>1. PICK d \in MemContext : d = held[s][n]
        BY <1>0, <3>1, TempTypes
      <4>2. Provided(s, d)'
        BY <1>5, <2>1, <3>1, <4>1 DEF AllProvided, MallocGives
      <4>3. QED
        BY <3>1, <4>1, <4>2 DEF Provided, Capacity
    <3>2. CASE s = t /\ held'[s][n] = c
      BY <1>5, <3>2 DEF Provided, Capacity, MallocGives
    <3>3. QED
      BY <1>9, <3>1, <3>2
  <2>3. ASSUME NEW s \in Thread, NEW n \in DOMAIN output[s]
        PROVE  Provided(s, output[s][n])' /\ output[s][n].kind = "device"
    <3>1. PICK d \in MemContext : d = output[s][n]
      BY <1>0, TempTypes
    <3>2. Provided(s, d)'
      BY <1>5, <2>1, <3>1 DEF AllProvided, MallocGives
    <3>3. QED
      BY <1>2, <2>1, <3>1, <3>2 DEF Provided, Capacity, AllProvided
  <2>4. ASSUME NEW s \in Thread, NEW j \in DOMAIN stream[s]
        PROVE  Provided(s, stream[s][j].on)' /\ stream[s][j].on.kind # "host"
    <3>1. PICK d \in MemContext : d = stream[s][j].on
      BY <1>0, TempTypes
    <3>2. Provided(s, d)'
      BY <1>5, <2>1, <3>1 DEF AllProvided, MallocGives
    <3>3. QED
      BY <1>2, <2>1, <3>1, <3>2 DEF Provided, Capacity, AllProvided
  <2>5. QED
    BY <1>2, <2>2, <2>3, <2>4 DEF AllProvided
<1>12. HeldApart'
  <2>1. HeldApart
    BY DEF TempInv
  <2>2. SUFFICES ASSUME NEW r \in Thread, NEW s \in Thread,
                        NEW m \in DOMAIN held'[r], NEW n \in DOMAIN held'[s],
                        held'[r][m].block = held'[s][n].block
                 PROVE  r = s /\ m = n
    BY DEF HeldApart
  <2>3. \A q \in Thread : \A k \in DOMAIN held[q] : held[q][k].block # c.block
    BY <1>5 DEF InUse, MallocGives
  <2>4. QED
    BY <1>9, <2>1, <2>2, <2>3 DEF HeldApart
<1>13. OutputApart' /\ KeptApart'
  <2>1. OutputApart /\ KeptApart
    BY DEF TempInv
  <2>2. OutputApart'
    BY <1>2, <2>1 DEF OutputApart
  <2>3. ASSUME NEW s \in Thread, NEW m \in DOMAIN held'[s], NEW n \in DOMAIN output[s]
        PROVE  held'[s][m].block # output[s][n].block
    <3>1. output[s][n].block # c.block
      BY <1>5 DEF InUse, MallocGives
    <3>2. QED
      BY <1>9, <2>1, <3>1 DEF KeptApart
  <2>4. QED
    BY <1>2, <2>2, <2>3 DEF KeptApart
<1>14. QueuedFree'
  <2>1. ASSUME NEW x, InUse(x)' PROVE InUse(x) \/ x = c.block
    BY <1>2, <1>9, <2>1 DEF InUse
  <2>2. ASSUME NEW p \in Pools, NEW i \in 0 .. MaxBucket, NEW j \in DOMAIN pool'[p][i]
        PROVE  /\ pool'[p][i][j] \in 1 .. Len(capacity'[p])
               /\ capacity'[p][pool'[p][i][j]] = 2 ^ i
               /\ <<p, pool'[p][i][j]>> \notin freed'
               /\ ~ InUse(<<p, pool[p][i][j]>>)'
    <3>1. PICK x : x = <<p, pool'[p][i][j]>>
      OBVIOUS
    <3>2. ~ InUse(x) /\ x # c.block
      BY <1>5, <3>1 DEF MallocGives
    <3>3. ~ InUse(x)'
      BY <2>1, <3>2
    <3>4. ~ InUse(<<p, pool[p][i][j]>>)'
      BY <3>1, <3>3 DEF InUse
    <3>5. QED
      BY <1>2, <1>5, <3>4 DEF MallocGives
  <2>3. QED
    BY ONLY <2>2 DEF QueuedFree
<1>15. ReadsFollow'
  <2>1. ReadsFollow /\ AllProvided
    BY DEF TempInv
  <2>2. ASSUME NEW s \in Thread, NEW j \in DOMAIN stream[s]
        PROVE  LastTag(stream[s][j].on)' = LastTag(stream[s][j].on)
    <3>1. PICK d \in MemContext : d = stream[s][j].on
      BY <1>0, TempTypes
    <3>2. LastTag(d)' = LastTag(d)
      BY <1>5, <2>1, <3>1 DEF AllProvided, MallocGives
    <3>3. QED
      BY <1>2, <3>1, <3>2 DEF LastTag
  <2>3. QED
    <3>1. SUFFICES ASSUME NEW s \in Thread, NEW j \in DOMAIN stream[s], stream[s][j].op = "read"
                   PROVE  IF j = 1 THEN LastTag(stream[s][j].on)' = stream[s][j].on.tag
                          ELSE stream[s][j - 1] = [op |-> "write", on |-> stream[s][j].on]
      BY <1>2 DEF ReadsFollow
    <3>2. IF j = 1 THEN LastTag(stream[s][j].on) = stream[s][j].on.tag
          ELSE stream[s][j - 1] = [op |-> "write", on |-> stream[s][j].on]
      BY <2>1, <3>1 DEF ReadsFollow
    <3>3. QED
      BY <2>2, <3>1, <3>2
<1>16. PinnedHeld'
  <2>1. SUFFICES ASSUME NEW s \in Thread, NEW j \in DOMAIN stream[s], stream[s][j].on.kind = "pinned"
                 PROVE  doing[s] = "launched" /\ \E n \in DOMAIN held'[s] : held'[s][n] = stream[s][j].on
    BY <1>2 DEF PinnedHeld
  <2>2. doing[s] = "launched" /\ \E n \in DOMAIN held[s] : held[s][n] = stream[s][j].on
    BY <2>1 DEF TempInv, PinnedHeld
  <2>3. QED
    BY <1>7, <1>8, <2>2
<1>17. ResultsLast'
  <2>1. ResultsLast /\ AllProvided
    BY DEF TempInv
  <2>2. ASSUME NEW s \in Thread, NEW n \in DOMAIN output[s]
        PROVE  LastTag(output[s][n])' = LastTag(output[s][n])
    <3>1. PICK d \in MemContext : d = output[s][n]
      BY <1>0, TempTypes
    <3>2. LastTag(d)' = LastTag(d)
      BY <1>5, <2>1, <3>1 DEF AllProvided, MallocGives
    <3>3. QED
      BY <1>2, <3>1, <3>2 DEF LastTag
  <2>3. QED
    BY <1>2, <2>1, <2>2 DEF ResultsLast, LastOn
<1>18. QED
  BY <1>5, <1>10, <1>11, <1>12, <1>13, <1>14, <1>15, <1>16, <1>17 DEF TempInv, MallocGives

-----------------------------------------------------------------------------
LEMMA LaunchKernelsKeeps ==
  ASSUME TempInv, NEW t \in Thread, LaunchKernels(t)
  PROVE  TempInv'
<1>0. TempTypeOK
  BY DEF TempInv
<1> DEFINE size == operation[t].output
           K    == KernelsOn(held[t])
<1>1. PICK b \in 1 .. Len(capacity[PoolOf(t, "device")]) + 1 :
        LET result == Context(t, "device", size, b)
        IN  /\ Malloc(t, "device", size, b)
            /\ output' = [output EXCEPT ![t] = Append(@, result)]
            /\ stream' = [stream EXCEPT ![t] = @ \o K \o <<[op |-> "write", on |-> result]>>]
  BY DEF LaunchKernels
<1>2. /\ doing[t] = "allocate" /\ Len(held[t]) = Len(operation[t].temps)
      /\ doing' = [doing EXCEPT ![t] = "launched"]
      /\ UNCHANGED <<env, calls, operation, held, freed, dropping>>
  BY DEF LaunchKernels
<1>3. size \in Nat /\ InClass(size) /\ "device" \in BlockKind
  <2>1. operation[t] \in Operations
    BY <1>0, <1>2 DEF TempTypeOK
  <2>2. QED
    BY <2>1, OperationsAssumption DEF BlockKind
<1> HIDE DEF size
<1>4. PICK c : c = Context(t, "device", size, b)
  OBVIOUS
<1>5. MallocGives(t, c)
  <2>1. Malloc(t, "device", size, b) /\ UNCHANGED <<env, freed>>
    BY <1>1, <1>2
  <2>2. QED
    BY <1>3, <1>4, <2>1, MallocEffect
<1>6. c.kind = "device"
  BY <1>4 DEF Context
<1> DEFINE w == [op |-> "write", on |-> c]
<1>7. w \in KernelCall /\ w.op = "write" /\ w.on = c
  BY <1>5 DEF KernelCall, MallocGives
<1>8. /\ output \in [Thread -> Seq(MemContext)] /\ output[t] \in Seq(MemContext)
      /\ output' = [output EXCEPT ![t] = Append(output[t], c)] /\ Append(output[t], c) \in Seq(MemContext)
  <2>1. output[t] \in Seq(MemContext) /\ output \in [Thread -> Seq(MemContext)]
    BY <1>0 DEF TempTypeOK
  <2>2. QED
    BY <1>1, <1>4, <1>5, <2>1, AppendFacts DEF MallocGives
<1>9. ASSUME NEW s \in Thread, NEW n \in DOMAIN output'[s]
      PROVE  \/ n \in DOMAIN output[s] /\ output'[s][n] = output[s][n]
             \/ s = t /\ n = Len(output[t]) + 1 /\ output'[s][n] = c
  <2>1. CASE s = t
    <3>1. output'[s] = Append(output[t], c)
      BY <1>8, <2>1
    <3>2. QED
      BY <1>5, <1>8, <2>1, <3>1, AppendFacts
  <2>2. CASE s # t
    BY <1>8, <2>2
  <2>3. QED
    BY <2>1, <2>2
<1>10. /\ held[t] \in Seq(MemContext) /\ K \in Seq(KernelCall)
       /\ \A j \in DOMAIN K : Launched(K, j, held[t])
  BY <1>0, TempTypes, KernelsOfAll
<1> HIDE DEF K, w
<1>11. /\ stream \in [Thread -> Seq(KernelCall)] /\ stream[t] \in Seq(KernelCall)
       /\ stream[t] \o K \in Seq(KernelCall)
       /\ (stream[t] \o K) \o <<w>> \in Seq(KernelCall)
       /\ stream' = [stream EXCEPT ![t] = (stream[t] \o K) \o <<w>>]
       /\ Len((stream[t] \o K) \o <<w>>) = Len(stream[t]) + Len(K) + 1
       /\ Len(stream[t]) \in Nat /\ Len(K) \in Nat
  <2>1. stream \in [Thread -> Seq(KernelCall)] /\ stream[t] \in Seq(KernelCall)
    BY <1>0 DEF TempTypeOK
  <2>2. <<w>> \in Seq(KernelCall) /\ Len(<<w>>) = 1
    BY <1>7
  <2>3. Len(stream[t]) \in Nat /\ Len(K) \in Nat
    BY <1>10, <2>1, SeqFacts
  <2>4. stream[t] \o K \in Seq(KernelCall) /\ Len(stream[t] \o K) = Len(stream[t]) + Len(K)
    BY <1>10, <2>1, ConcatFacts
  <2>5. /\ (stream[t] \o K) \o <<w>> \in Seq(KernelCall)
        /\ Len((stream[t] \o K) \o <<w>>) = Len(stream[t]) + Len(K) + 1
    <3>1. Len((stream[t] \o K) \o <<w>>) = Len(stream[t] \o K) + Len(<<w>>)
      BY <2>2, <2>4, ConcatFacts
    <3>2. QED
      BY <2>2, <2>4, <3>1, ConcatFacts
  <2>6. stream' = [stream EXCEPT ![t] = (stream[t] \o K) \o <<w>>]
    BY <1>1, <1>4 DEF w
  <2>7. QED
    BY <2>1, <2>3, <2>4, <2>5, <2>6
<1> DEFINE L == Len(stream[t])
<1>12. /\ \A s \in Thread : s # t => stream'[s] = stream[s]
       /\ stream'[t] = (stream[t] \o K) \o <<w>> /\ stream'[t] \in Seq(KernelCall)
       /\ Len(stream'[t]) = L + Len(K) + 1
  BY <1>11
<1>13. /\ DOMAIN stream'[t] = 1 .. L + Len(K) + 1 /\ DOMAIN stream[t] = 1 .. L /\ DOMAIN K = 1 .. Len(K)
       /\ \A j \in DOMAIN stream[t] : stream'[t][j] = stream[t][j]
       /\ \A j \in DOMAIN K : stream'[t][L + j] = K[j]
       /\ stream'[t][L + Len(K) + 1] = w
  <2>1. DOMAIN stream'[t] = 1 .. L + Len(K) + 1
    BY <1>12, SeqFacts
  <2>2. DOMAIN stream[t] = 1 .. L /\ DOMAIN K = 1 .. Len(K)
    BY <1>10, <1>11, SeqFacts
  <2>3. DOMAIN (stream[t] \o K) = 1 .. L + Len(K) /\ Len(stream[t] \o K) = L + Len(K)
    <3>1. Len(stream[t] \o K) = L + Len(K)
      BY <1>10, <1>11, ConcatFacts
    <3>2. QED
      BY <1>11, <3>1, SeqFacts
  <2>4. <<w>> \in Seq(KernelCall) /\ 1 \in DOMAIN <<w>> /\ <<w>>[1] = w
    BY <1>7
  <2>5. \A j \in DOMAIN (stream[t] \o K) : stream'[t][j] = (stream[t] \o K)[j]
    BY <1>11, <1>12, <2>4, ConcatFacts
  <2>6. \A j \in DOMAIN stream[t] : j \in DOMAIN (stream[t] \o K) /\ (stream[t] \o K)[j] = stream[t][j]
    BY <1>10, <1>11, ConcatFacts
  <2>7. \A j \in DOMAIN K : L + j \in DOMAIN (stream[t] \o K) /\ (stream[t] \o K)[L + j] = K[j]
    BY <1>10, <1>11, ConcatFacts
  <2>8. stream'[t][L + Len(K) + 1] = w
    BY <1>11, <1>12, <2>3, <2>4, ConcatFacts
  <2>9. QED
    BY <2>1, <2>2, <2>5, <2>6, <2>7, <2>8
\* What a kernel in the stream of t is.
<1>14. ASSUME NEW j \in DOMAIN stream'[t]
       PROVE  \/ j \in DOMAIN stream[t] /\ stream'[t][j] = stream[t][j]
              \/ j - L \in DOMAIN K /\ j > L /\ stream'[t][j] = K[j - L]
              \/ j = L + Len(K) + 1 /\ stream'[t][j] = w
  <2>1. CASE j \in 1 .. L
    BY <1>13, <2>1
  <2>2. CASE j \in L + 1 .. L + Len(K)
    <3>1. j - L \in DOMAIN K /\ L + (j - L) = j /\ j > L
      BY <1>11, <1>13, <2>2
    <3>2. QED
      BY <1>13, <3>1
  <2>3. CASE j = L + Len(K) + 1
    BY <1>13, <2>3
  <2>4. QED
    BY <1>11, <1>13, <2>1, <2>2, <2>3
<1>15. ASSUME NEW j \in DOMAIN K
       PROVE  /\ K[j].on.kind # "host" /\ \E n \in DOMAIN held[t] : held[t][n] = K[j].on
              /\ K[j].op = "read" => j > 1 /\ K[j - 1] = [op |-> "write", on |-> K[j].on]
  BY <1>10 DEF Launched
<1>15a. L \in Nat /\ Len(K) \in Nat
  BY <1>11
<1> HIDE DEF L
<1>16. TempTypeOK'
  <2>1. doing' \in [Thread -> {"ready", "allocate", "launched", "freeing"}]
    BY <1>0, <1>2 DEF TempTypeOK
  <2>2. output' \in [Thread -> Seq(MemContext)] /\ stream' \in [Thread -> Seq(KernelCall)]
    BY <1>8, <1>11
  <2>3. QED
    BY <1>0, <1>2, <1>5, <2>1, <2>2 DEF TempTypeOK, MallocGives
<1>17. AllProvided /\ HeldApart /\ OutputApart /\ KeptApart /\ ReadsFollow /\ PinnedHeld /\ ResultsLast
  BY DEF TempInv
<1>18. AllProvided'
  <2>1. ASSUME NEW s \in Thread, NEW n \in DOMAIN held[s] PROVE Provided(s, held[s][n])'
    <3>1. PICK d \in MemContext : d = held[s][n]
      BY <1>0, TempTypes
    <3>2. Provided(s, d)'
      BY <1>5, <1>17, <3>1 DEF AllProvided, MallocGives
    <3>3. QED
      BY <1>2, <3>1, <3>2 DEF Provided, Capacity
  <2>2. ASSUME NEW s \in Thread, NEW n \in DOMAIN output'[s]
        PROVE  Provided(s, output[s][n])' /\ output'[s][n].kind = "device"
    <3>1. CASE n \in DOMAIN output[s] /\ output'[s][n] = output[s][n]
      <4>1. PICK d \in MemContext : d = output[s][n]
        BY <1>0, <3>1, TempTypes
      <4>2. Provided(s, d)' /\ d.kind = "device"
        BY <1>5, <1>17, <3>1, <4>1 DEF AllProvided, MallocGives
      <4>3. QED
        BY <3>1, <4>1, <4>2 DEF Provided, Capacity
    <3>2. CASE s = t /\ output'[s][n] = c
      BY <1>5, <1>6, <3>2 DEF Provided, Capacity, MallocGives
    <3>3. QED
      BY <1>9, <3>1, <3>2
  <2>3. ASSUME NEW s \in Thread, NEW j \in DOMAIN stream'[s]
        PROVE  Provided(s, stream[s][j].on)' /\ stream'[s][j].on.kind # "host"
    <3>1. CASE j \in DOMAIN stream[s] /\ stream'[s][j] = stream[s][j]
      <4>1. PICK d \in MemContext : d = stream[s][j].on
        BY <1>0, <3>1, TempTypes
      <4>2. Provided(s, d)' /\ d.kind # "host"
        BY <1>5, <1>17, <3>1, <4>1 DEF AllProvided, MallocGives
      <4>3. QED
        BY <3>1, <4>1, <4>2 DEF Provided, Capacity
    <3>2. CASE s = t /\ j - L \in DOMAIN K /\ stream'[s][j] = K[j - L]
      <4>1. PICK n \in DOMAIN held[t] : held[t][n] = K[j - L].on
        BY <1>15, <3>2
      <4>2. PICK d \in MemContext : d = held[t][n]
        BY <1>0, TempTypes
      <4>3. Provided(t, d)' /\ d.kind # "host"
        BY <1>5, <1>15, <1>17, <3>2, <4>1, <4>2 DEF AllProvided, MallocGives
      <4>4. QED
        BY <3>2, <4>1, <4>2, <4>3 DEF Provided, Capacity
    <3>3. CASE s = t /\ stream'[s][j] = w
      BY <1>5, <1>6, <1>7, <3>3 DEF Provided, Capacity, MallocGives
    <3>4. QED
      BY <1>12, <1>14, <3>1, <3>2, <3>3
  <2>4. QED
    BY <1>2, <2>1, <2>2, <2>3 DEF AllProvided
<1>19. HeldApart' /\ OutputApart' /\ KeptApart'
  <2>1. HeldApart'
    BY <1>2, <1>17 DEF HeldApart
  <2>2. \A s \in Thread : /\ \A n \in DOMAIN held[s] : held[s][n].block # c.block
                          /\ \A n \in DOMAIN output[s] : output[s][n].block # c.block
    BY <1>5 DEF InUse, MallocGives
  <2>3. ASSUME NEW s \in Thread, NEW m \in DOMAIN output'[s], NEW n \in DOMAIN output'[s],
               output'[s][m].block = output'[s][n].block
        PROVE  m = n
    BY <1>9, <1>17, <2>2, <2>3 DEF OutputApart
  <2>4. ASSUME NEW s \in Thread, NEW m \in DOMAIN held[s], NEW n \in DOMAIN output'[s]
        PROVE  held[s][m].block # output'[s][n].block
    BY <1>9, <1>17, <2>2 DEF KeptApart
  <2>5. QED
    BY <1>2, <2>1, <2>3, <2>4 DEF OutputApart, KeptApart
<1>20. QueuedFree'
  <2>1. ASSUME NEW x, InUse(x)' PROVE InUse(x) \/ x = c.block
    BY <1>2, <1>9, <2>1 DEF InUse
  <2>2. ASSUME NEW p \in Pools, NEW i \in 0 .. MaxBucket, NEW j \in DOMAIN pool'[p][i]
        PROVE  /\ pool'[p][i][j] \in 1 .. Len(capacity'[p])
               /\ capacity'[p][pool'[p][i][j]] = 2 ^ i
               /\ <<p, pool'[p][i][j]>> \notin freed'
               /\ ~ InUse(<<p, pool[p][i][j]>>)'
    <3>1. PICK x : x = <<p, pool'[p][i][j]>>
      OBVIOUS
    <3>2. ~ InUse(x) /\ x # c.block
      BY <1>5, <3>1 DEF MallocGives
    <3>3. ~ InUse(x)'
      BY <2>1, <3>2
    <3>4. ~ InUse(<<p, pool[p][i][j]>>)'
      BY <3>1, <3>3 DEF InUse
    <3>5. QED
      BY <1>2, <1>5, <3>4 DEF MallocGives
  <2>3. QED
    BY ONLY <2>2 DEF QueuedFree
\* Kernels are where they were, or new.
<1>21. ASSUME NEW s \in Thread, s # t
       PROVE  /\ stream'[s] = stream[s] /\ output'[s] = output[s]
              /\ doing'[s] = doing[s] /\ held'[s] = held[s]
  BY <1>0, <1>2, <1>8, <1>12, <1>21 DEF TempTypeOK
<1>22. doing'[t] = "launched" /\ held'[t] = held[t]
  BY <1>0, <1>2 DEF TempTypeOK
<1>23. ASSUME NEW s \in Thread, NEW d \in MemContext, Provided(s, d)
       PROVE  LastTag(d)' = LastTag(d)
  BY <1>5, <1>23 DEF MallocGives
<1>24. ReadsFollow'
  <2>1. SUFFICES ASSUME NEW s \in Thread, NEW j \in DOMAIN stream'[s], stream'[s][j].op = "read"
                 PROVE  IF j = 1 THEN LastTag(stream[s][j].on)' = stream'[s][j].on.tag
                        ELSE stream'[s][j - 1] = [op |-> "write", on |-> stream'[s][j].on]
    BY DEF ReadsFollow
  <2>2. CASE j \in DOMAIN stream[s] /\ stream'[s][j] = stream[s][j]
    <3>1. PICK d \in MemContext : d = stream[s][j].on
      BY <1>0, <2>2, TempTypes
    <3>2. LastTag(d)' = LastTag(d)
      BY <1>17, <1>23, <2>2, <3>1 DEF AllProvided
    <3>3. j # 1 => stream'[s][j - 1] = stream[s][j - 1]
      <4>1. CASE s = t
        <5>1. j \in 1 .. L /\ (j # 1 => j - 1 \in 1 .. L)
          BY <1>13, <2>2, <4>1 DEF L
        <5>2. QED
          BY <1>13, <4>1, <5>1
      <4>2. CASE s # t
        BY <1>21, <4>2
      <4>3. QED
        BY <4>1, <4>2
    <3>4. IF j = 1 THEN LastTag(d) = d.tag ELSE stream[s][j - 1] = [op |-> "write", on |-> d]
      <4>1. IF j = 1 THEN LastTag(stream[s][j].on) = stream[s][j].on.tag
            ELSE stream[s][j - 1] = [op |-> "write", on |-> stream[s][j].on]
        BY <1>17, <2>1, <2>2 DEF ReadsFollow
      <4>2. QED
        BY <3>1, <4>1
    <3>5. CASE j = 1
      BY <2>2, <3>1, <3>2, <3>4, <3>5 DEF LastTag
    <3>6. CASE j # 1
      BY <2>2, <3>1, <3>3, <3>4, <3>6
    <3>7. QED
      BY <3>5, <3>6
  <2>3. CASE s = t /\ j - L \in DOMAIN K /\ j > L /\ stream'[s][j] = K[j - L]
    <3>1. j - L > 1 /\ K[j - L - 1] = [op |-> "write", on |-> stream'[s][j].on]
      BY <1>15, <2>1, <2>3
    <3>2. /\ j \in Nat /\ L \in Nat /\ j # 1
          /\ j - L - 1 \in DOMAIN K /\ L + (j - L - 1) = j - 1
      <4>1. j \in 1 .. L + Len(K) + 1 /\ j - L \in 1 .. Len(K) /\ DOMAIN K = 1 .. Len(K)
        BY <1>13, <2>1, <2>3
      <4>2. QED
        BY <1>15a, <3>1, <4>1
    <3>3. stream'[s][j - 1] = K[j - L - 1]
      BY <1>13, <2>3, <3>2
    <3>4. QED
      BY <3>1, <3>2, <3>3
  <2>4. CASE s = t /\ stream'[s][j] = w
    BY <1>7, <2>1, <2>4
  <2>5. QED
    BY <1>14, <1>21, <2>1, <2>2, <2>3, <2>4
<1>25. PinnedHeld'
  <2>1. SUFFICES ASSUME NEW s \in Thread, NEW j \in DOMAIN stream'[s], stream'[s][j].on.kind = "pinned"
                 PROVE  /\ doing'[s] = "launched"
                        /\ \E n \in DOMAIN held'[s] : held'[s][n] = stream'[s][j].on
    BY DEF PinnedHeld
  <2>2. CASE j \in DOMAIN stream[s] /\ stream'[s][j] = stream[s][j]
    <3>1. doing[s] = "launched" /\ \E n \in DOMAIN held[s] : held[s][n] = stream[s][j].on
      BY <1>17, <2>1, <2>2 DEF PinnedHeld
    <3>2. QED
      BY <1>21, <1>22, <2>2, <3>1
  <2>3. CASE s = t /\ j - L \in DOMAIN K /\ stream'[s][j] = K[j - L]
    BY <1>15, <1>22, <2>3
  <2>4. CASE s = t /\ stream'[s][j] = w
    BY <1>6, <1>7, <2>1, <2>4
  <2>5. QED
    BY <1>14, <1>21, <2>1, <2>2, <2>3, <2>4
<1>26. ResultsLast'
  <2>1. SUFFICES ASSUME NEW s \in Thread, NEW n \in DOMAIN output'[s], NEW o, o = output'[s][n]
                 PROVE  \/ LastTag(o)' = o.tag /\ LastOn(stream'[s], 0, o)
                        \/ \E j \in DOMAIN stream'[s] :
                             /\ stream'[s][j] = [op |-> "write", on |-> o]
                             /\ LastOn(stream'[s], j, o)
    BY DEF ResultsLast, LastTag
  <2>2. CASE n \in DOMAIN output[s] /\ output'[s][n] = output[s][n]
    <3>1. o \in MemContext /\ Provided(s, o)
      BY <1>0, <1>17, <2>1, <2>2, TempTypes DEF AllProvided
    <3>2. LastTag(o)' = LastTag(o)
      BY <1>23, <3>1
    <3>3. ASSUME NEW j \in DOMAIN stream'[s], stream'[s][j].on.block = o.block
          PROVE  j \in DOMAIN stream[s] /\ stream'[s][j] = stream[s][j]
      <4>1. CASE s = t /\ j - L \in DOMAIN K /\ stream'[s][j] = K[j - L]
        <5>1. PICK m \in DOMAIN held[t] : held[t][m] = stream'[s][j].on
          BY <1>15, <4>1
        <5>2. QED
          BY <1>17, <2>1, <2>2, <3>3, <4>1, <5>1 DEF KeptApart
      <4>2. CASE s = t /\ stream'[s][j] = w
        BY <1>5, <1>7, <2>1, <2>2, <3>3, <4>2 DEF InUse, MallocGives
      <4>3. QED
        BY <1>14, <1>21, <4>1, <4>2
    <3>4. \/ LastTag(o) = o.tag /\ LastOn(stream[s], 0, o)
          \/ \E j \in DOMAIN stream[s] :
               /\ stream[s][j] = [op |-> "write", on |-> o]
               /\ LastOn(stream[s], j, o)
      BY <1>17, <2>1, <2>2 DEF ResultsLast
    <3>5. \A j : LastOn(stream[s], j, o) => LastOn(stream'[s], j, o)
      BY <3>3 DEF LastOn
    <3>6. \A j \in DOMAIN stream[s] : j \in DOMAIN stream'[s] /\ stream'[s][j] = stream[s][j]
      <4>1. CASE s = t
        <5>1. \A j \in DOMAIN stream[t] : j \in DOMAIN stream'[t]
          BY <1>11, <1>13 DEF L
        <5>2. QED
          BY <1>13, <4>1, <5>1
      <4>2. CASE s # t
        BY <1>21, <4>2
      <4>3. QED
        BY <4>1, <4>2
    <3>7. CASE LastTag(o) = o.tag /\ LastOn(stream[s], 0, o)
      BY <3>2, <3>5, <3>7
    <3>8. CASE \E j \in DOMAIN stream[s] : /\ stream[s][j] = [op |-> "write", on |-> o]
                                           /\ LastOn(stream[s], j, o)
      <4>1. PICK j \in DOMAIN stream[s] : /\ stream[s][j] = [op |-> "write", on |-> o]
                                          /\ LastOn(stream[s], j, o)
        BY <3>8
      <4>2. j \in DOMAIN stream'[s] /\ stream'[s][j] = [op |-> "write", on |-> o]
        BY <3>6, <4>1
      <4>3. LastOn(stream'[s], j, o)
        BY <3>5, <4>1
      <4>4. QED
        BY <4>2, <4>3
    <3>9. QED
      BY <3>4, <3>7, <3>8
  <2>3. CASE s = t /\ output'[s][n] = c
    <3> DEFINE e == L + Len(K) + 1
    <3>1. e \in DOMAIN stream'[t] /\ stream'[t][e] = w /\ \A i \in DOMAIN stream'[t] : ~ (i > e)
      BY <1>11, <1>13 DEF L
    <3>2. LastOn(stream'[t], e, c)
      BY <3>1 DEF LastOn
    <3>3. w = [op |-> "write", on |-> c]
      BY DEF w
    <3>4. QED
      BY <2>1, <2>3, <3>1, <3>2, <3>3
  <2>4. QED
    BY <1>9, <2>2, <2>3
<1>27. QED
  BY <1>5, <1>16, <1>18, <1>19, <1>20, <1>24, <1>25, <1>26 DEF TempInv, MallocGives

-----------------------------------------------------------------------------
\* The device memory of a thread is of no other one.
LEMMA OwnDevice ==
  ASSUME NEW s \in Thread, NEW t \in Thread, NEW d \in MemContext, NEW e \in MemContext,
         Provided(s, d), Provided(t, e), d.kind = "device", d.block = e.block
  PROVE  s = t /\ e.kind = "device"
<1>1. d.kind \in BlockKind /\ e.kind \in BlockKind
  BY ContextKinds
<1>2. PoolOf(s, d.kind) = PoolOf(t, e.kind)
  BY DEF Provided
<1>3. QED
  BY <1>1, <1>2, PoolsApart

\* The kernels of two threads, and those of a thread and the results of another, are on
\* different blocks.
LEMMA StreamsApart ==
  ASSUME TempInv, NEW s \in Thread, NEW t \in Thread, s # t,
         NEW i \in DOMAIN stream[s], NEW j \in DOMAIN stream[t]
  PROVE  stream[s][i].on.block # stream[t][j].on.block
<1>1. TempTypeOK /\ AllProvided /\ HeldApart /\ PinnedHeld
  BY DEF TempInv
<1>2. PICK d \in MemContext : d = stream[s][i].on
  BY <1>1, TempTypes
<1>3. PICK e \in MemContext : e = stream[t][j].on
  BY <1>1, TempTypes
<1>4. Provided(s, d) /\ Provided(t, e) /\ d.kind # "host" /\ e.kind # "host"
  BY <1>1, <1>2, <1>3 DEF AllProvided
<1>5. d.kind \in BlockKind /\ e.kind \in BlockKind
  BY ContextKinds
<1>6. SUFFICES ASSUME d.block = e.block PROVE FALSE
  BY <1>2, <1>3
<1>7. d.kind = "pinned" /\ e.kind = "pinned"
  BY <1>4, <1>5, <1>6, OwnDevice DEF BlockKind
<1>8. PICK m \in DOMAIN held[s] : held[s][m] = d
  BY <1>1, <1>2, <1>7 DEF PinnedHeld
<1>9. PICK n \in DOMAIN held[t] : held[t][n] = e
  BY <1>1, <1>3, <1>7 DEF PinnedHeld
<1>10. QED
  BY <1>1, <1>6, <1>8, <1>9 DEF HeldApart

\* Giving back a block keeps the invariant, if nobody else has the block.
LEMMA FreeKeeps ==
  ASSUME TempInv, TempTypeOK', PinnedHeld', NEW t \in Thread, NEW c \in MemContext,
         Free(t, c), Provided(t, c), InUse(c.block), UNCHANGED <<env, capacity, memory, stream>>,
         \A s \in Thread : \A j \in DOMAIN stream[s] :
           stream[s][j].on.kind = "pinned" => stream[s][j].on.block # c.block,
         \A s \in Thread : \A n \in DOMAIN held'[s] :
           n \in DOMAIN held[s] /\ held'[s][n] = held[s][n] /\ held[s][n].block # c.block,
         NEW shift \in [Thread -> {0, 1}],
         \A s \in Thread : \A n \in DOMAIN output'[s] :
           /\ n \in Nat /\ n + shift[s] \in DOMAIN output[s]
           /\ output'[s][n] = output[s][n + shift[s]] /\ output'[s][n].block # c.block
  PROVE  TempInv'
<1>1. /\ TempTypeOK /\ AllProvided /\ HeldApart /\ OutputApart /\ KeptApart
      /\ ReadsFollow /\ ResultsLast
  BY DEF TempInv
<1>2. FreeLeaves(c)
  BY FreeEffect
<1>3. ASSUME NEW s \in Thread, NEW n \in DOMAIN held'[s] PROVE Provided(s, held[s][n])'
  <2>1. n \in DOMAIN held[s] /\ held'[s][n] = held[s][n] /\ held[s][n].block # c.block
    OBVIOUS
  <2>2. PICK d \in MemContext : d = held[s][n]
    BY <1>1, <2>1, TempTypes
  <2>3. Provided(s, d)'
    BY <1>1, <1>2, <2>1, <2>2 DEF AllProvided, FreeLeaves
  <2>4. QED
    BY <2>1, <2>2, <2>3 DEF Provided, Capacity
<1>4. ASSUME NEW s \in Thread, NEW n \in DOMAIN output'[s]
      PROVE  Provided(s, output[s][n])' /\ output'[s][n].kind = "device"
  <2>1. PICK m \in DOMAIN output[s] : output'[s][n] = output[s][m] /\ output[s][m].block # c.block
    OBVIOUS
  <2>2. PICK d \in MemContext : d = output[s][m]
    BY <1>1, TempTypes
  <2>3. Provided(s, d)' /\ d.kind = "device"
    BY <1>1, <1>2, <2>1, <2>2 DEF AllProvided, FreeLeaves
  <2>4. QED
    BY <2>1, <2>2, <2>3 DEF Provided, Capacity
<1>5. ASSUME NEW s \in Thread, NEW j \in DOMAIN stream[s]
      PROVE  Provided(s, stream[s][j].on)' /\ stream[s][j].on.kind # "host"
  <2>1. PICK d \in MemContext : d = stream[s][j].on
    BY <1>1, TempTypes
  <2>2. Provided(s, d)' /\ d.kind # "host"
    BY <1>1, <1>2, <2>1 DEF AllProvided, FreeLeaves
  <2>3. QED
    BY <2>1, <2>2 DEF Provided, Capacity
<1>6. AllProvided'
  BY <1>3, <1>4, <1>5 DEF AllProvided
<1>7. HeldApart'
  BY <1>1 DEF HeldApart
<1>8. OutputApart'
  <2>1. SUFFICES ASSUME NEW s \in Thread, NEW m \in DOMAIN output'[s], NEW n \in DOMAIN output'[s],
                        output'[s][m].block = output'[s][n].block
                 PROVE  m = n
    BY DEF OutputApart
  <2>2. m + shift[s] = n + shift[s]
    BY <1>1, <2>1 DEF OutputApart
  <2>3. m \in Nat /\ n \in Nat /\ shift[s] \in Int
    OBVIOUS
  <2>4. QED
    BY ONLY <2>2, <2>3
<1>9. KeptApart'
  <2>1. SUFFICES ASSUME NEW s \in Thread, NEW m \in DOMAIN held'[s], NEW n \in DOMAIN output'[s]
                 PROVE  held'[s][m].block # output'[s][n].block
    BY DEF KeptApart
  <2>2. QED
    BY <1>1 DEF KeptApart
<1>10. QueuedFree'
  <2>1. ASSUME NEW x, InUse(x)' PROVE InUse(x) /\ x # c.block
    BY <2>1 DEF InUse
  <2>2. QED
    <3>0. \A p \in Pools : \A i \in 0 .. MaxBucket : \A j \in DOMAIN pool'[p][i] :
            /\ pool'[p][i][j] \in 1 .. Len(capacity[p]) /\ capacity[p][pool'[p][i][j]] = 2 ^ i
            /\ <<p, pool'[p][i][j]>> \notin freed'
      <4>1. QueuesBut(c)
        BY <1>2 DEF FreeLeaves
      <4>2. QED
        BY ONLY <4>1 DEF QueuesBut
    <3>1. ASSUME NEW p \in Pools, NEW i \in 0 .. MaxBucket, NEW j \in DOMAIN pool'[p][i]
          PROVE  /\ pool'[p][i][j] \in 1 .. Len(capacity'[p])
                 /\ capacity'[p][pool'[p][i][j]] = 2 ^ i
                 /\ <<p, pool'[p][i][j]>> \notin freed'
                 /\ ~ InUse(<<p, pool[p][i][j]>>)'
      <4>1. PICK x : x = <<p, pool'[p][i][j]>>
        OBVIOUS
      <4>2. ~ InUse(x)'
        BY <1>2, <2>1, <4>1 DEF FreeLeaves, QueuesBut
      <4>3. ~ InUse(<<p, pool[p][i][j]>>)'
        BY <4>1, <4>2 DEF InUse
      <4>4. capacity' = capacity
        OBVIOUS
      <4>5. /\ pool'[p][i][j] \in 1 .. Len(capacity[p]) /\ capacity[p][pool'[p][i][j]] = 2 ^ i
            /\ <<p, pool'[p][i][j]>> \notin freed'
        BY <3>0, <3>1
      <4>6. QED
        BY ONLY <4>3, <4>4, <4>5
    <3>2. QED
      BY ONLY <3>1 DEF QueuedFree
<1>11. ReadsFollow'
  BY <1>1 DEF ReadsFollow, LastTag
<1>12. ResultsLast'
  <2>1. SUFFICES ASSUME NEW s \in Thread, NEW n \in DOMAIN output'[s]
                 PROVE  \/ LastTag(output[s][n])' = output'[s][n].tag /\ LastOn(stream[s], 0, output'[s][n])
                        \/ \E j \in DOMAIN stream[s] :
                             /\ stream[s][j] = [op |-> "write", on |-> output'[s][n]]
                             /\ LastOn(stream[s], j, output'[s][n])
    BY DEF ResultsLast
  <2>2. PICK m \in DOMAIN output[s] : output'[s][n] = output[s][m]
    OBVIOUS
  <2>3. LastTag(output[s][n])' = LastTag(output[s][m])
    BY <2>2 DEF LastTag
  <2>4. QED
    <3>1. PICK o : o = output[s][m]
      OBVIOUS
    <3>2. \/ LastTag(output[s][m]) = o.tag /\ LastOn(stream[s], 0, o)
          \/ \E j \in DOMAIN stream[s] :
               stream[s][j] = [op |-> "write", on |-> o] /\ LastOn(stream[s], j, o)
      BY <1>1, <3>1 DEF ResultsLast
    <3>3. output'[s][n] = o
      BY <2>2, <3>1
    <3>4. QED
      BY <2>3, <3>2, <3>3
<1>13. QED
  BY <1>2, <1>6, <1>7, <1>8, <1>9, <1>10, <1>11, <1>12 DEF TempInv, FreeLeaves

LEMMA FreeTempKeeps ==
  ASSUME TempInv, NEW t \in Thread, FreeTemp(t)
  PROVE  TempInv'
<1>1. /\ TempTypeOK /\ AllProvided /\ HeldApart /\ KeptApart /\ PinnedHeld
  BY DEF TempInv
<1>2. /\ doing[t] = "freeing" /\ held[t] # <<>>
      /\ Free(t, Last(held[t]))
      /\ held' = [held EXCEPT ![t] = Front(@)]
      /\ UNCHANGED <<env, calls, operation, doing, output, capacity, dropping, stream, memory>>
  BY DEF FreeTemp
<1> DEFINE n == Len(held[t])
<1>3. /\ held \in [Thread -> Seq(MemContext)] /\ held[t] \in Seq(MemContext)
      /\ Front(held[t]) \in Seq(MemContext) /\ n \in DOMAIN held[t] /\ Last(held[t]) = held[t][n]
      /\ \A m \in DOMAIN Front(held[t]) :
           m \in DOMAIN held[t] /\ m # n /\ Front(held[t])[m] = held[t][m]
  <2>1. held \in [Thread -> Seq(MemContext)] /\ held[t] \in Seq(MemContext)
    BY <1>1 DEF TempTypeOK
  <2>2. QED
    BY <1>2, <2>1, FrontFacts
<1> HIDE DEF n
<1>4. PICK c \in MemContext : c = held[t][n]
  BY <1>1, <1>3, TempTypes
<1>5. Free(t, c) /\ Provided(t, c) /\ InUse(c.block)
  BY <1>1, <1>2, <1>3, <1>4 DEF AllProvided, InUse
<1>6. /\ held'[t] = Front(held[t]) /\ \A s \in Thread : s # t => held'[s] = held[s]
      /\ held' \in [Thread -> Seq(MemContext)]
  BY <1>2, <1>3
<1>7. ASSUME NEW s \in Thread, NEW j \in DOMAIN stream[s], stream[s][j].on.kind = "pinned"
      PROVE  s # t /\ stream[s][j].on.block # c.block
  <2>1. doing[s] = "launched" /\ \E m \in DOMAIN held[s] : held[s][m] = stream[s][j].on
    BY <1>1, <1>7 DEF PinnedHeld
  <2>2. s # t
    BY <1>2, <2>1
  <2>3. QED
    BY <1>1, <1>3, <1>4, <2>1, <2>2 DEF HeldApart
<1>8. ASSUME NEW s \in Thread, NEW m \in DOMAIN held'[s]
      PROVE  m \in DOMAIN held[s] /\ held'[s][m] = held[s][m] /\ held[s][m].block # c.block
  <2>1. CASE s = t
    BY <1>1, <1>3, <1>4, <1>6, <2>1 DEF HeldApart
  <2>2. CASE s # t
    BY <1>1, <1>3, <1>4, <1>6, <2>2 DEF HeldApart
  <2>3. QED
    BY <2>1, <2>2
<1>9. ASSUME NEW s \in Thread, NEW m \in DOMAIN output[s]
      PROVE  m \in Nat /\ output[s][m].block # c.block
  <2>1. PICK d \in MemContext : d = output[s][m]
    BY <1>1, TempTypes
  <2>2. Provided(s, d) /\ d.kind = "device"
    BY <1>1, <2>1 DEF AllProvided
  <2>3. d.block = c.block => s = t
    BY <1>5, <2>2, OwnDevice
  <2>4. m \in Nat
    <3>1. output[s] \in Seq(MemContext)
      BY <1>1 DEF TempTypeOK
    <3>2. QED
      BY <3>1, SeqFacts
  <2>5. QED
    BY <1>1, <1>3, <1>4, <2>1, <2>3, <2>4 DEF KeptApart
<1> DEFINE shift == [s \in Thread |-> 0]
<1>10. /\ shift \in [Thread -> {0, 1}]
       /\ \A s \in Thread : \A m \in DOMAIN output'[s] :
            /\ m \in Nat /\ m + shift[s] \in DOMAIN output[s]
            /\ output'[s][m] = output[s][m + shift[s]] /\ output'[s][m].block # c.block
  <2>1. \A s \in Thread : shift[s] = 0
    OBVIOUS
  <2>2. \A s \in Thread : \A m \in DOMAIN output[s] : m \in Nat /\ m + shift[s] = m
    BY <1>9, <2>1
  <2>3. shift \in [Thread -> {0, 1}]
    OBVIOUS
  <2> HIDE DEF shift
  <2>4. QED
    BY <1>2, <1>9, <2>2, <2>3
<1> HIDE DEF shift
<1>11. PinnedHeld'
  <2>1. SUFFICES ASSUME NEW s \in Thread, NEW j \in DOMAIN stream[s], stream[s][j].on.kind = "pinned"
                 PROVE  doing[s] = "launched" /\ \E m \in DOMAIN held'[s] : held'[s][m] = stream[s][j].on
    BY <1>2 DEF PinnedHeld
  <2>2. QED
    BY <1>1, <1>6, <1>7, <2>1 DEF PinnedHeld
<1>12. pool' \in [Pools -> [0 .. MaxBucket -> Seq(Nat)]] /\ freed' \subseteq Pools \X Nat
  <2>1. FreeLeaves(c)
    BY <1>2, <1>5, <1>7, FreeEffect
  <2>2. QED
    BY <2>1 DEF FreeLeaves
<1>13. TempTypeOK'
  BY <1>1, <1>2, <1>6, <1>12 DEF TempTypeOK
<1>14. QED
  BY <1>2, <1>5, <1>7, <1>8, <1>10, <1>11, <1>13, FreeKeeps

LEMMA FreeOutputKeeps ==
  ASSUME TempInv, NEW t \in Thread, FreeOutput(t)
  PROVE  TempInv'
<1>1. /\ TempTypeOK /\ AllProvided /\ OutputApart /\ KeptApart /\ PinnedHeld
  BY DEF TempInv
<1>2. /\ output[t] # <<>>
      /\ Free(t, Head(output[t]))
      /\ output' = [output EXCEPT ![t] = Tail(@)]
      /\ UNCHANGED <<env, calls, operation, doing, held, capacity, dropping, stream, memory>>
  BY DEF FreeOutput
<1>3. /\ output \in [Thread -> Seq(MemContext)] /\ output[t] \in Seq(MemContext)
      /\ Tail(output[t]) \in Seq(MemContext) /\ 1 \in DOMAIN output[t] /\ Head(output[t]) = output[t][1]
      /\ \A m \in DOMAIN Tail(output[t]) :
           m \in Nat \ {0} /\ m + 1 \in DOMAIN output[t] /\ Tail(output[t])[m] = output[t][m + 1]
  <2>1. output \in [Thread -> Seq(MemContext)] /\ output[t] \in Seq(MemContext)
    BY <1>1 DEF TempTypeOK
  <2>2. QED
    BY <1>2, <2>1, TailFacts
<1>4. PICK c \in MemContext : c = output[t][1]
  BY <1>1, <1>3, TempTypes
<1>5. Free(t, c) /\ Provided(t, c) /\ InUse(c.block) /\ c.kind = "device"
  BY <1>1, <1>2, <1>3, <1>4 DEF AllProvided, InUse
<1>6. /\ output'[t] = Tail(output[t]) /\ \A s \in Thread : s # t => output'[s] = output[s]
      /\ output' \in [Thread -> Seq(MemContext)]
  BY <1>2, <1>3
<1>7. ASSUME NEW s \in Thread, NEW d \in MemContext, Provided(s, d), d.block = c.block
      PROVE  s = t /\ d.kind = "device"
  BY <1>5, <1>7, OwnDevice
<1>8. ASSUME NEW s \in Thread, NEW j \in DOMAIN stream[s], stream[s][j].on.kind = "pinned"
      PROVE  stream[s][j].on.block # c.block
  <2>1. PICK d \in MemContext : d = stream[s][j].on
    BY <1>1, TempTypes
  <2>2. QED
    BY <1>1, <1>7, <1>8, <2>1 DEF AllProvided
<1>9. ASSUME NEW s \in Thread, NEW m \in DOMAIN held'[s]
      PROVE  m \in DOMAIN held[s] /\ held'[s][m] = held[s][m] /\ held[s][m].block # c.block
  <2>1. m \in DOMAIN held[s] /\ held'[s][m] = held[s][m]
    BY <1>2
  <2>2. PICK d \in MemContext : d = held[s][m]
    BY <1>1, <2>1, TempTypes
  <2>3. d.block = c.block => s = t
    BY <1>1, <1>7, <2>1, <2>2 DEF AllProvided
  <2>4. QED
    BY <1>1, <1>3, <1>4, <2>1, <2>2, <2>3 DEF KeptApart
<1> DEFINE shift == [s \in Thread |-> IF s = t THEN 1 ELSE 0]
<1>10. /\ shift \in [Thread -> {0, 1}] /\ shift[t] = 1
       /\ \A s \in Thread : s # t => shift[s] = 0
  OBVIOUS
<1> HIDE DEF shift
<1>11. ASSUME NEW s \in Thread, NEW m \in DOMAIN output'[s]
       PROVE  /\ m \in Nat /\ m + shift[s] \in DOMAIN output[s]
              /\ output'[s][m] = output[s][m + shift[s]] /\ output'[s][m].block # c.block
  <2>1. CASE s = t
    <3>1. /\ m \in Nat \ {0} /\ m + 1 \in DOMAIN output[t]
          /\ output'[s][m] = output[t][m + 1] /\ m + 1 # 1
      BY <1>3, <1>6, <2>1
    <3>2. output[t][m + 1].block # c.block
      BY <1>1, <1>3, <1>4, <3>1 DEF OutputApart
    <3>3. QED
      BY <1>10, <2>1, <3>1, <3>2
  <2>2. CASE s # t
    <3>1. m \in DOMAIN output[s] /\ output'[s][m] = output[s][m]
      BY <1>6, <2>2
    <3>2. m \in Nat
      BY <1>3, <3>1, SeqFacts
    <3>3. PICK d \in MemContext : d = output[s][m]
      BY <1>1, <3>1, TempTypes
    <3>4. d.block # c.block
      BY <1>1, <1>7, <2>2, <3>1, <3>3 DEF AllProvided
    <3>5. m + shift[s] = m
      BY <1>10, <2>2, <3>2
    <3>6. QED
      BY <3>1, <3>2, <3>3, <3>4, <3>5
  <2>3. QED
    BY <2>1, <2>2
<1>12. PinnedHeld'
  BY <1>1, <1>2 DEF PinnedHeld
<1>13. pool' \in [Pools -> [0 .. MaxBucket -> Seq(Nat)]] /\ freed' \subseteq Pools \X Nat
  <2>1. FreeLeaves(c)
    BY <1>2, <1>5, <1>8, FreeEffect
  <2>2. QED
    BY <2>1 DEF FreeLeaves
<1>14. TempTypeOK'
  BY <1>1, <1>2, <1>6, <1>13 DEF TempTypeOK
<1>15. QED
  BY <1>2, <1>5, <1>8, <1>9, <1>10, <1>11, <1>12, <1>14, FreeKeeps

-----------------------------------------------------------------------------
LEMMA EmptyCacheKeeps ==
  ASSUME TempInv, NEW p \in Pools, EmptyCache(p)
  PROVE  TempInv'
<1>1. /\ TempTypeOK /\ AllProvided /\ QueuedFree /\ QueuedOnce /\ FreedKnown
  BY DEF TempInv
<1>2. /\ freed' = freed \cup ({p} \X Queued(p))
      /\ pool' = [pool EXCEPT ![p] = [i \in 0 .. MaxBucket |-> <<>>]]
      /\ dropping' = dropping \ {p}
      /\ UNCHANGED <<env, calls, operation, doing, held, output, capacity, stream, memory>>
      /\ p # <<"host">> /\ Queued(p) # {} =>
           \A t \in Thread : p \in {<<"device", t>>, <<"pinned">>} => stream[t] = <<>>
  BY DEF EmptyCache
<1>3. ASSUME NEW x \in Queued(p)
      PROVE  /\ x \in 1 .. Len(capacity[p]) /\ x \in Nat
             /\ \A t \in Thread : /\ \A n \in DOMAIN held[t]   : held[t][n].block # <<p, x>>
                                  /\ \A n \in DOMAIN output[t] : output[t][n].block # <<p, x>>
  <2>0. PICK i \in 0 .. MaxBucket : x \in Range(pool[p][i])
    BY DEF Queued
  <2>1. PICK j \in DOMAIN pool[p][i] : x = pool[p][i][j]
    BY <2>0 DEF Range
  <2>2. x \in 1 .. Len(capacity[p]) /\ ~ InUse(<<p, x>>)
    BY <1>1, <2>1 DEF QueuedFree
  <2>3. x \in Nat
    <3>1. capacity[p] \in Seq(Bytes)
      BY <1>1 DEF TempTypeOK
    <3>2. QED
      BY <2>2, <3>1, SeqFacts
  <2>4. QED
    BY <2>2, <2>3 DEF InUse
<1>4. /\ pool'[p] = [i \in 0 .. MaxBucket |-> <<>>]
      /\ \A q \in Pools : q # p => pool'[q] = pool[q]
      /\ pool' \in [Pools -> [0 .. MaxBucket -> Seq(Nat)]]
  <2>1. pool \in [Pools -> [0 .. MaxBucket -> Seq(Nat)]]
    BY <1>1 DEF TempTypeOK
  <2>2. [i \in 0 .. MaxBucket |-> <<>>] \in [0 .. MaxBucket -> Seq(Nat)]
    OBVIOUS
  <2>3. QED
    BY <1>2, <2>1, <2>2
<1>5. TempTypeOK'
  <2>1. freed' \subseteq Pools \X Nat
    BY <1>1, <1>2, <1>3 DEF TempTypeOK
  <2>2. dropping' \subseteq Pools
    BY <1>1, <1>2 DEF TempTypeOK
  <2>3. QED
    BY <1>1, <1>2, <1>4, <2>1, <2>2 DEF TempTypeOK
<1>6. ASSUME NEW s \in Thread, NEW d \in MemContext, Provided(s, d),
             \A x \in Queued(p) : d.block # <<p, x>>
      PROVE  Provided(s, d)'
  BY <1>2, <1>6 DEF Provided, Capacity
<1>7. ASSUME NEW s \in Thread, NEW n \in DOMAIN held[s] PROVE Provided(s, held[s][n])'
  <2>1. PICK d \in MemContext : d = held[s][n]
    BY <1>1, TempTypes
  <2>2. Provided(s, d)'
    BY <1>1, <1>3, <1>6, <2>1 DEF AllProvided
  <2>3. QED
    BY <1>2, <2>1, <2>2 DEF Provided, Capacity
<1>8. ASSUME NEW s \in Thread, NEW n \in DOMAIN output[s]
      PROVE  Provided(s, output[s][n])' /\ output[s][n].kind = "device"
  <2>1. PICK d \in MemContext : d = output[s][n]
    BY <1>1, TempTypes
  <2>2. Provided(s, d)'
    BY <1>1, <1>3, <1>6, <2>1 DEF AllProvided
  <2>3. QED
    BY <1>1, <1>2, <2>1, <2>2 DEF Provided, Capacity, AllProvided
<1>9. ASSUME NEW s \in Thread, NEW j \in DOMAIN stream[s]
      PROVE  Provided(s, stream[s][j].on)' /\ stream[s][j].on.kind # "host"
  <2>1. PICK d \in MemContext : d = stream[s][j].on
    BY <1>1, TempTypes
  <2>2. Provided(s, d) /\ d.kind \in {"device", "pinned"}
    BY <1>1, <2>1, ContextKinds DEF AllProvided, BlockKind
  <2>3. ASSUME NEW x \in Queued(p), d.block = <<p, x>> PROVE FALSE
    <3>1. p = PoolOf(s, d.kind)
      BY <2>2, <2>3 DEF Provided
    <3>2. p # PoolOf(s, "host")
      BY <2>2, <3>1, PoolsApart DEF BlockKind
    <3>3. p # <<"host">>
      BY <3>2 DEF PoolOf
    <3>4. p \in {<<"device", s>>, <<"pinned">>}
      BY <2>2, <3>1 DEF PoolOf
    <3>5. stream[s] = <<>>
      BY <1>2, <2>3, <3>3, <3>4
    <3>6. QED
      BY <3>5
  <2>4. Provided(s, d)'
    BY <1>6, <2>2, <2>3
  <2>5. QED
    BY <1>2, <2>1, <2>2, <2>4 DEF Provided, Capacity
<1>10. AllProvided'
  BY <1>2, <1>7, <1>8, <1>9 DEF AllProvided
<1>11. HeldApart' /\ OutputApart' /\ KeptApart'
  BY <1>2 DEF TempInv, HeldApart, OutputApart, KeptApart
<1>12. ASSUME NEW q \in Pools, NEW i \in 0 .. MaxBucket, NEW j \in DOMAIN pool'[q][i]
       PROVE  q # p /\ j \in DOMAIN pool[q][i] /\ pool'[q][i][j] = pool[q][i][j]
  <2>1. DOMAIN <<>> = {}
    OBVIOUS
  <2>2. q = p => pool'[q][i] = <<>>
    BY <1>4
  <2>3. q # p
    BY <2>1, <2>2
  <2>4. QED
    BY <1>4, <2>3
<1>13. QueuedFree'
  <2>1. ASSUME NEW q \in Pools, NEW i \in 0 .. MaxBucket, NEW j \in DOMAIN pool'[q][i]
        PROVE  /\ pool'[q][i][j] \in 1 .. Len(capacity[q])
               /\ capacity[q][pool'[q][i][j]] = 2 ^ i
               /\ <<q, pool'[q][i][j]>> \notin freed' /\ ~ InUse(<<q, pool[q][i][j]>>)'
    <3>1. q # p /\ j \in DOMAIN pool[q][i] /\ pool'[q][i][j] = pool[q][i][j]
      BY <1>12
    <3>2. /\ pool[q][i][j] \in 1 .. Len(capacity[q])
          /\ capacity[q][pool[q][i][j]] = 2 ^ i
          /\ <<q, pool[q][i][j]>> \notin freed /\ ~ InUse(<<q, pool[q][i][j]>>)
      BY <1>1, <3>1 DEF QueuedFree
    <3>3. <<q, pool[q][i][j]>> \notin freed'
      BY <1>2, <3>1, <3>2
    <3>4. ~ InUse(<<q, pool[q][i][j]>>)'
      BY <1>2, <3>1, <3>2 DEF InUse
    <3>5. QED
      BY <3>1, <3>2, <3>3, <3>4
  <2>2. QED
    BY <1>2, <2>1 DEF QueuedFree
<1>14. QueuedOnce'
  <2>1. SUFFICES ASSUME NEW q \in Pools, NEW i \in 0 .. MaxBucket, NEW k \in 0 .. MaxBucket,
                        NEW j \in DOMAIN pool'[q][i], NEW l \in DOMAIN pool'[q][k],
                        pool'[q][i][j] = pool'[q][k][l]
                 PROVE  i = k /\ j = l
    BY DEF QueuedOnce
  <2>2. /\ j \in DOMAIN pool[q][i] /\ pool'[q][i][j] = pool[q][i][j]
        /\ l \in DOMAIN pool[q][k] /\ pool'[q][k][l] = pool[q][k][l]
    BY <1>12
  <2>3. pool[q][i][j] = pool[q][k][l]
    BY <2>1, <2>2
  <2>4. QED
    BY <1>1, <2>2, <2>3 DEF QueuedOnce
<1>15. FreedKnown'
  <2>1. \A x \in {p} \X Queued(p) : x[2] \in 1 .. Len(capacity[x[1]])
    BY <1>3
  <2>2. QED
    BY <1>1, <1>2, <2>1 DEF FreedKnown
<1>16. ReadsFollow' /\ PinnedHeld' /\ ResultsLast'
  <2>1. ReadsFollow'
    BY <1>2 DEF TempInv, ReadsFollow, LastTag
  <2>2. PinnedHeld'
    BY <1>2 DEF TempInv, PinnedHeld
  <2>3. ResultsLast'
    <3>1. UNCHANGED <<output, stream, memory>>
      BY <1>2
    <3>2. ResultsLast
      BY DEF TempInv
    <3>3. QED
      BY <3>1, <3>2, SMTT(30) DEF ResultsLast, LastOn, LastTag
  <2>4. QED
    BY <2>1, <2>2, <2>3
<1>17. QED
  BY <1>5, <1>10, <1>11, <1>13, <1>14, <1>15, <1>16 DEF TempInv

-----------------------------------------------------------------------------
LEMMA RunKernelKeeps ==
  ASSUME TempInv, NEW t \in Thread, RunKernel(t)
  PROVE  TempInv'
<1>1. /\ TempTypeOK /\ AllProvided /\ HeldApart /\ ReadsFollow /\ PinnedHeld /\ ResultsLast
  BY DEF TempInv
<1>2. stream[t] \in Seq(KernelCall) /\ stream[t] # <<>>
  BY <1>1 DEF RunKernel, TempTypeOK
<1>3. /\ Tail(stream[t]) \in Seq(KernelCall) /\ 1 \in DOMAIN stream[t] /\ Head(stream[t]) = stream[t][1]
      /\ \A n \in DOMAIN Tail(stream[t]) :
           n \in Nat \ {0} /\ n + 1 \in DOMAIN stream[t] /\ Tail(stream[t])[n] = stream[t][n + 1]
  BY <1>2, TailFacts
<1>4. PICK k \in KernelCall : k = stream[t][1]
  BY <1>1, <1>3, TempTypes
<1>5. PICK c \in MemContext : c = k.on
  BY DEF KernelCall
<1>6. /\ memory' = IF k.op = "write" THEN [memory EXCEPT ![c.block[1]][c.block[2]] = c.tag] ELSE memory
      /\ stream' = [stream EXCEPT ![t] = Tail(@)]
      /\ UNCHANGED <<env, calls, operation, doing, held, output, pool, capacity, freed, dropping>>
  BY <1>3, <1>4, <1>5 DEF RunKernel
<1>7. /\ stream'[t] = Tail(stream[t]) /\ \A s \in Thread : s # t => stream'[s] = stream[s]
      /\ stream' \in [Thread -> Seq(KernelCall)]
  BY <1>1, <1>3, <1>6 DEF TempTypeOK
\* Behind the kernel that has run all are one place further.
<1>8. ASSUME NEW n \in DOMAIN stream'[t]
      PROVE  /\ n \in Nat \ {0} /\ n + 1 \in DOMAIN stream[t] /\ stream'[t][n] = stream[t][n + 1]
  BY <1>3, <1>7
<1>9. ASSUME NEW n \in DOMAIN stream[t], n # 1
      PROVE  n - 1 \in DOMAIN stream'[t] /\ stream'[t][n - 1] = stream[t][n]
  <2>1. Len(Tail(stream[t])) = Len(stream[t]) - 1
    BY <1>2
  <2>2. n \in 1 .. Len(stream[t]) /\ DOMAIN Tail(stream[t]) = 1 .. Len(stream[t]) - 1 /\ Len(stream[t]) \in Nat
    BY <1>2, <1>3, <2>1, SeqFacts
  <2>3. n - 1 \in DOMAIN Tail(stream[t]) /\ (n - 1) + 1 = n
    BY <1>9, <2>2
  <2>4. QED
    BY <1>3, <1>7, <2>3
<1>10. /\ Provided(t, c) /\ c.kind # "host" /\ c.block[1] \in Pools
       /\ c.block[2] \in 1 .. Len(capacity[c.block[1]]) /\ c.tag \in Thread \X Nat
  <2>1. Provided(t, c) /\ c.kind # "host"
    BY <1>1, <1>3, <1>4, <1>5 DEF AllProvided
  <2>2. QED
    BY <2>1, ContextKinds DEF Provided
<1>11. /\ memory \in [Pools -> Seq((Thread \X Nat) \cup {<<>>})]
       /\ \A p \in Pools : Len(memory[p]) = Len(capacity[p])
  BY <1>1 DEF TempTypeOK
<1> DEFINE row  == memory[c.block[1]]
           next == [row EXCEPT ![c.block[2]] = c.tag]
<1>12. row \in Seq((Thread \X Nat) \cup {<<>>}) /\ DOMAIN row = 1 .. Len(row) /\ c.block[2] \in 1 .. Len(row)
  BY <1>10, <1>11, SeqFacts
<1>13. next \in Seq((Thread \X Nat) \cup {<<>>}) /\ Len(next) = Len(row) /\ next[c.block[2]] = c.tag
       /\ \A n \in DOMAIN row : n # c.block[2] => next[n] = row[n]
  <2> DEFINE S == (Thread \X Nat) \cup {<<>>}
  <2>1. row \in Seq(S) /\ c.tag \in S /\ c.block[2] \in 1 .. Len(row)
    BY <1>10, <1>12
  <2> HIDE DEF S, row
  <2>2. [row EXCEPT ![c.block[2]] = c.tag] \in Seq(S) /\ Len([row EXCEPT ![c.block[2]] = c.tag]) = Len(row)
    BY <2>1
  <2>3. QED
    BY <2>1, <2>2, SeqFacts DEF S
<1> HIDE DEF next
<1>14. /\ k.op = "write" => memory' = [memory EXCEPT ![c.block[1]] = next]
       /\ k.op # "write" => memory' = memory
  BY <1>6 DEF next
<1> HIDE DEF row
<1>15. /\ memory' \in [Pools -> Seq((Thread \X Nat) \cup {<<>>})]
       /\ \A p \in Pools : Len(memory'[p]) = Len(memory[p])
       /\ \A p \in Pools : p # c.block[1] => memory'[p] = memory[p]
       /\ k.op = "write" => memory'[c.block[1]] = next
  <2>1. CASE k.op = "write"
    <3>1. row = memory[c.block[1]]
      BY DEF row
    <3>2. QED
      BY <1>10, <1>11, <1>13, <1>14, <2>1, <3>1
  <2>2. CASE k.op # "write"
    BY <1>11, <1>14, <2>2
  <2>3. QED
    BY <2>1, <2>2
<1>16. TempTypeOK'
  BY <1>1, <1>6, <1>7, <1>11, <1>15 DEF TempTypeOK
\* What a block holds changes if it is the one that is written.
<1>17. ASSUME NEW s \in Thread, NEW d \in MemContext, Provided(s, d),
              d.block # c.block \/ k.op # "write"
       PROVE  LastTag(d)' = LastTag(d)
  <2>1. CASE k.op # "write"
    BY <1>14, <2>1 DEF LastTag
  <2>2. CASE k.op = "write" /\ d.block[1] # c.block[1]
    <3>1. d.block[1] \in Pools
      BY ContextKinds
    <3>2. QED
      BY <1>15, <2>2, <3>1 DEF LastTag
  <2>3. CASE k.op = "write" /\ d.block[1] = c.block[1]
    <3>1. d.block[2] # c.block[2]
      BY <1>17, <2>3, ContextKinds
    <3>2. d.block[2] \in DOMAIN row
      BY <1>10, <1>11, <1>12, <1>17, <2>3 DEF Provided, row
    <3>3. QED
      BY <1>13, <1>15, <2>3, <3>1, <3>2 DEF LastTag, row
  <2>4. QED
    BY <2>1, <2>2, <2>3
<1>18. ASSUME NEW d \in MemContext, d.block = c.block, k.op = "write"
       PROVE  LastTag(d)' = c.tag
  BY <1>13, <1>15, <1>18 DEF LastTag
<1>19. ASSUME NEW s \in Thread, NEW j \in DOMAIN stream'[s]
       PROVE  \E i \in DOMAIN stream[s] : stream'[s][j] = stream[s][i]
  BY <1>7, <1>8
<1>20. AllProvided'
  <2>1. ASSUME NEW s \in Thread, NEW d \in MemContext, Provided(s, d) PROVE Provided(s, d)'
    BY <1>6, <2>1 DEF Provided, Capacity
  <2>2. ASSUME NEW s \in Thread, NEW n \in DOMAIN held[s] PROVE Provided(s, held[s][n])'
    BY <1>1, <1>6 DEF AllProvided, Provided, Capacity
  <2>3. ASSUME NEW s \in Thread, NEW n \in DOMAIN output[s]
        PROVE  Provided(s, output[s][n])' /\ output[s][n].kind = "device"
    BY <1>1, <1>6 DEF AllProvided, Provided, Capacity
  <2>4. ASSUME NEW s \in Thread, NEW j \in DOMAIN stream'[s]
        PROVE  Provided(s, stream[s][j].on)' /\ stream'[s][j].on.kind # "host"
    <3>1. PICK i \in DOMAIN stream[s] : stream'[s][j] = stream[s][i]
      BY <1>19
    <3>2. PICK d \in MemContext : d = stream[s][i].on
      BY <1>1, TempTypes
    <3>3. Provided(s, d)' /\ d.kind # "host"
      BY <1>1, <2>1, <3>2 DEF AllProvided
    <3>4. QED
      BY <3>1, <3>2, <3>3 DEF Provided, Capacity
  <2>5. QED
    BY <1>6, <2>2, <2>3, <2>4 DEF AllProvided
<1>21. HeldApart' /\ OutputApart' /\ KeptApart'
  BY <1>6 DEF TempInv, HeldApart, OutputApart, KeptApart
<1>22. QueuedFree' /\ QueuedOnce' /\ FreedKnown'
  <2>1. QueuedFree'
    <3>1. ASSUME NEW p \in Pools, NEW i \in 0 .. MaxBucket, NEW j \in DOMAIN pool'[p][i]
          PROVE  /\ pool'[p][i][j] \in 1 .. Len(capacity'[p])
                 /\ capacity'[p][pool'[p][i][j]] = 2 ^ i
                 /\ <<p, pool'[p][i][j]>> \notin freed'
                 /\ ~ InUse(<<p, pool[p][i][j]>>)'
      <4>1. /\ pool[p][i][j] \in 1 .. Len(capacity[p])
            /\ capacity[p][pool[p][i][j]] = 2 ^ i
            /\ <<p, pool[p][i][j]>> \notin freed /\ ~ InUse(<<p, pool[p][i][j]>>)
        BY <1>6, <3>1 DEF TempInv, QueuedFree
      <4>2. ~ InUse(<<p, pool[p][i][j]>>)'
        BY <1>6, <4>1 DEF InUse
      <4>3. QED
        BY <1>6, <4>1, <4>2
    <3>2. QED
      BY ONLY <3>1 DEF QueuedFree
  <2>2. QueuedOnce'
    BY <1>6 DEF TempInv, QueuedOnce
  <2>3. FreedKnown'
    BY <1>6 DEF TempInv, FreedKnown
  <2>4. QED
    BY <2>1, <2>2, <2>3
<1>23. ReadsFollow'
  <2>1. SUFFICES ASSUME NEW s \in Thread, NEW j \in DOMAIN stream'[s], stream'[s][j].op = "read",
                        NEW d, d = stream'[s][j].on
                 PROVE  IF j = 1 THEN LastTag(d)' = d.tag
                        ELSE stream'[s][j - 1] = [op |-> "write", on |-> d]
    BY DEF ReadsFollow, LastTag
  <2>2. CASE s = t
    <3>1. /\ j \in Nat \ {0} /\ j + 1 \in DOMAIN stream[t] /\ stream'[t][j] = stream[t][j + 1]
          /\ j + 1 # 1 /\ (j + 1) - 1 = j
      BY <1>8, <2>1, <2>2
    <3>2. stream[t][j] = [op |-> "write", on |-> d]
      BY <1>1, <2>1, <2>2, <3>1 DEF ReadsFollow
    <3>3. CASE j = 1
      <4>1. k.op = "write" /\ c = d
        BY <1>4, <1>5, <3>2, <3>3
      <4>2. QED
        BY <1>18, <3>3, <4>1
    <3>4. CASE j # 1
      <4>1. stream'[t][j - 1] = stream[t][j]
        <5>1. j \in DOMAIN stream[t]
          <6>1. j + 1 \in 1 .. Len(stream[t]) /\ DOMAIN stream[t] = 1 .. Len(stream[t]) /\ Len(stream[t]) \in Nat
            BY <1>2, <3>1, SeqFacts
          <6>2. QED
            BY <3>1, <6>1
        <5>2. QED
          BY <1>9, <3>4, <5>1
      <4>2. QED
        BY <2>2, <3>2, <3>4, <4>1
    <3>5. QED
      BY <3>3, <3>4
  <2>3. CASE s # t
    <3>1. stream'[s] = stream[s] /\ j \in DOMAIN stream[s]
      BY <1>7, <2>1, <2>3
    <3>2. IF j = 1 THEN LastTag(d) = d.tag ELSE stream[s][j - 1] = [op |-> "write", on |-> d]
      BY <1>1, <2>1, <3>1 DEF ReadsFollow
    <3>3. d \in MemContext /\ Provided(s, d)
      BY <1>1, <2>1, <3>1, TempTypes DEF AllProvided
    <3>4. d.block # c.block
      BY <1>3, <1>4, <1>5, <2>1, <2>3, <3>1, StreamsApart
    <3>5. LastTag(d)' = LastTag(d)
      BY <1>17, <3>3, <3>4
    <3>6. QED
      BY <3>1, <3>2, <3>5
  <2>4. QED
    BY <2>2, <2>3
<1>24. PinnedHeld'
  <2>1. SUFFICES ASSUME NEW s \in Thread, NEW j \in DOMAIN stream'[s], stream'[s][j].on.kind = "pinned"
                 PROVE  doing[s] = "launched" /\ \E n \in DOMAIN held[s] : held[s][n] = stream'[s][j].on
    BY <1>6 DEF PinnedHeld
  <2>2. PICK i \in DOMAIN stream[s] : stream'[s][j] = stream[s][i]
    BY <1>19
  <2>3. QED
    BY <1>1, <2>1, <2>2 DEF PinnedHeld
<1>25. ResultsLast'
  <2>1. SUFFICES ASSUME NEW s \in Thread, NEW n \in DOMAIN output[s], NEW o, o = output[s][n]
                 PROVE  \/ LastTag(o)' = o.tag /\ LastOn(stream'[s], 0, o)
                        \/ \E j \in DOMAIN stream'[s] :
                             /\ stream'[s][j] = [op |-> "write", on |-> o]
                             /\ LastOn(stream'[s], j, o)
    BY <1>6 DEF ResultsLast, LastTag
  <2>2. o \in MemContext /\ Provided(s, o) /\ o.kind = "device"
    BY <1>1, <2>1, TempTypes DEF AllProvided
  <2>3. \/ LastTag(o) = o.tag /\ LastOn(stream[s], 0, o)
        \/ \E j \in DOMAIN stream[s] :
             stream[s][j] = [op |-> "write", on |-> o] /\ LastOn(stream[s], j, o)
    BY <1>1, <2>1 DEF ResultsLast
  <2>4. CASE s # t
    <3>1. o.block # c.block
      BY <1>10, <2>2, <2>4, OwnDevice
    <3>2. LastTag(o)' = LastTag(o) /\ stream'[s] = stream[s]
      BY <1>7, <1>17, <2>2, <2>4, <3>1
    <3>3. QED
      BY <2>3, <3>2
  <2>5. CASE s = t
    <3>1. ASSUME NEW j \in Nat, LastOn(stream[t], j + 1, o) PROVE LastOn(stream'[t], j, o)
      <4>1. SUFFICES ASSUME NEW i \in DOMAIN stream'[t], i > j PROVE stream'[t][i].on.block # o.block
        BY DEF LastOn
      <4>2. i \in Nat /\ i + 1 \in DOMAIN stream[t] /\ stream'[t][i] = stream[t][i + 1] /\ i + 1 > j + 1
        BY <1>8, <4>1
      <4>3. QED
        BY <3>1, <4>2 DEF LastOn
    <3>2. CASE LastTag(o) = o.tag /\ LastOn(stream[t], 0, o)
      <4>1. o.block # c.block
        BY <1>3, <1>4, <1>5, <3>2 DEF LastOn
      <4>2. LastOn(stream[t], 1, o)
        <5>1. ASSUME NEW i \in DOMAIN stream[t], i > 1 PROVE i > 0
          <6>1. i \in Nat
            BY <1>2, SeqFacts
          <6>2. QED
            BY <5>1, <6>1
        <5>2. QED
          BY <3>2, <5>1 DEF LastOn
      <4>3. LastOn(stream'[t], 0, o)
        BY <3>1, <4>2
      <4>4. QED
        BY <1>17, <2>2, <2>5, <3>2, <4>1, <4>3
    <3>3. ASSUME NEW j \in DOMAIN stream[t], stream[t][j] = [op |-> "write", on |-> o], LastOn(stream[t], j, o)
          PROVE  \/ LastTag(o)' = o.tag /\ LastOn(stream'[t], 0, o)
                 \/ \E i \in DOMAIN stream'[t] :
                      /\ stream'[t][i] = [op |-> "write", on |-> o]
                      /\ LastOn(stream'[t], i, o)
      <4>1. CASE j = 1
        <5>1. k.op = "write" /\ c = o
          BY <1>4, <1>5, <3>3, <4>1
        <5>2. LastTag(o)' = o.tag
          BY <1>18, <5>1
        <5>3. LastOn(stream'[t], 0, o)
          BY <3>1, <3>3, <4>1
        <5>4. QED
          BY <5>2, <5>3
      <4>2. CASE j # 1
        <5>1. j - 1 \in DOMAIN stream'[t] /\ stream'[t][j - 1] = stream[t][j]
          BY <1>9, <4>2
        <5>2. j - 1 \in Nat /\ (j - 1) + 1 = j
          <6>1. j \in Nat \ {0}
            BY <1>2, SeqFacts
          <6>2. QED
            BY <6>1
        <5>3. LastOn(stream'[t], j - 1, o)
          BY <3>1, <3>3, <5>2
        <5>4. QED
          BY <3>3, <5>1, <5>3
      <4>3. QED
        BY <4>1, <4>2
    <3>4. QED
      BY <2>3, <2>5, <3>2, <3>3
  <2>6. QED
    BY <2>4, <2>5
<1>26. QED
  BY <1>16, <1>20, <1>21, <1>22, <1>23, <1>24, <1>25 DEF TempInv

-----------------------------------------------------------------------------
\* The invariant of the temporary memory: every block is with one holder, in one queue
\* or back at CUDA, and the kernels of a thread find in order what they work on.
THEOREM TempInvariance == Temporary => []TempInv
<1>1. TempInit => TempInv
  <2>1. SUFFICES ASSUME TempInit PROVE TempInv
    OBVIOUS
  <2>2. \A t \in Thread : held[t] = <<>> /\ output[t] = <<>> /\ stream[t] = <<>>
    BY <2>1 DEF TempInit
  <2>3. \A p \in Pools : \A i \in 0 .. MaxBucket : pool[p][i] = <<>>
    BY <2>1 DEF TempInit
  <2>4. TempTypeOK
    <3>1. held \in [Thread -> Seq(MemContext)] /\ output \in [Thread -> Seq(MemContext)]
      BY <2>1 DEF TempInit
    <3>2. stream \in [Thread -> Seq(KernelCall)]
      BY <2>1 DEF TempInit
    <3>3. pool \in [Pools -> [0 .. MaxBucket -> Seq(Nat)]]
      BY <2>1 DEF TempInit
    <3>4. capacity \in [Pools -> Seq(Bytes)] /\ memory \in [Pools -> Seq((Thread \X Nat) \cup {<<>>})]
      BY <2>1 DEF TempInit
    <3>5. \A p \in Pools : Len(memory[p]) = Len(capacity[p])
      BY <2>1 DEF TempInit
    <3>6. QED
      BY <2>1, <3>1, <3>2, <3>3, <3>4, <3>5 DEF TempInit, TempTypeOK
  <2>5. AllProvided /\ HeldApart /\ OutputApart /\ KeptApart
    BY <2>2 DEF AllProvided, HeldApart, OutputApart, KeptApart
  <2>6. QueuedFree /\ QueuedOnce /\ FreedKnown
    BY <2>1, <2>3 DEF QueuedFree, QueuedOnce, FreedKnown, TempInit
  <2>7. ReadsFollow /\ PinnedHeld /\ ResultsLast
    BY <2>2 DEF ReadsFollow, PinnedHeld, ResultsLast
  <2>8. QED
    BY <2>4, <2>5, <2>6, <2>7 DEF TempInv
<1>2. TempInv /\ [TempNext]_tempVars => TempInv'
  <2>1. SUFFICES ASSUME TempInv, [TempNext]_tempVars PROVE TempInv'
    OBVIOUS
  <2>2. CASE UNCHANGED tempVars \/ TempDone
    BY <2>1, <2>2, TempStutterKeeps DEF TempDone
  <2>3. ASSUME NEW p \in Pools, EmptyCache(p) PROVE TempInv'
    BY <2>1, <2>3, EmptyCacheKeeps
  <2>4. ASSUME NEW t \in Thread,
               \/ BeginCall(t) \/ AllocateTemp(t) \/ LaunchKernels(t) \/ ReturnResult(t)
               \/ FreeTemp(t) \/ Returned(t) \/ FreeOutput(t) \/ DropCaches(t) \/ RunKernel(t)
        PROVE  TempInv'
    BY <2>1, <2>4, BeginCallKeeps, AllocateTempKeeps, LaunchKernelsKeeps, ReturnResultKeeps,
       FreeTempKeeps, ReturnedKeeps, FreeOutputKeeps, DropCachesKeeps, RunKernelKeeps
  <2>5. QED
    BY <2>1, <2>2, <2>3, <2>4 DEF TempNext
<1>3. QED
  BY <1>1, <1>2, PTL DEF Temporary

\* A kernel finds in a block what the kernel before it in its operation wrote, although
\* the operation has given the block back, and a result stays until it is freed: for any
\* threads, operations and size classes.
THEOREM MemoryOfItsOwnAlways == Temporary => []MemoryOfItsOwn
<1>1. TempInv => MemoryOfItsOwn
  <2>1. SUFFICES ASSUME TempInv, NEW t \in Thread
                 PROVE  /\ stream[t] # <<>> =>
                             LET k == Head(stream[t])
                             IN  /\ k.on.block \notin freed /\ Capacity(k.on) >= k.on.size
                                 /\ k.op = "read" => LastTag(k.on) = k.on.tag
                        /\ \A n \in DOMAIN output[t] :
                             LET c == output[t][n]
                             IN  LastTag(c) = c.tag \/ \E j \in DOMAIN stream[t] : stream[t][j].on = c
    BY DEF MemoryOfItsOwn
  <2>2. TempTypeOK /\ AllProvided /\ ReadsFollow /\ ResultsLast
    BY <2>1 DEF TempInv
  <2>3. ASSUME stream[t] # <<>>
        PROVE  LET k == Head(stream[t])
               IN  /\ k.on.block \notin freed /\ Capacity(k.on) >= k.on.size
                   /\ k.op = "read" => LastTag(k.on) = k.on.tag
    <3>1. 1 \in DOMAIN stream[t] /\ Head(stream[t]) = stream[t][1]
      BY <2>2, <2>3, TempTypes, TailFacts
    <3>2. stream[t][1].on.block \notin freed /\ Capacity(stream[t][1].on) >= stream[t][1].on.size
      BY <2>2, <3>1 DEF AllProvided, Provided
    <3>3. stream[t][1].op = "read" => LastTag(stream[t][1].on) = stream[t][1].on.tag
      BY <2>2, <3>1 DEF ReadsFollow
    <3>4. QED
      BY <3>1, <3>2, <3>3
  <2>4. ASSUME NEW n \in DOMAIN output[t]
        PROVE  LET c == output[t][n]
               IN  LastTag(c) = c.tag \/ \E j \in DOMAIN stream[t] : stream[t][j].on = c
    <3>1. PICK c : c = output[t][n]
      OBVIOUS
    <3>2. \/ LastTag(c) = c.tag
          \/ \E j \in DOMAIN stream[t] : stream[t][j] = [op |-> "write", on |-> c]
      BY <2>2, <3>1 DEF ResultsLast
    <3>3. LastTag(c) = c.tag \/ \E j \in DOMAIN stream[t] : stream[t][j].on = c
      BY <3>2
    <3>4. QED
      BY <3>1, <3>3
  <2>5. QED
    BY <2>3, <2>4
<1>2. QED
  BY <1>1, TempInvariance, PTL
=============================================================================
