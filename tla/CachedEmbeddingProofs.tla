------------------------ MODULE CachedEmbeddingProofs ------------------------
(***************************************************************************)
(* Proofs about the cached embedding of several ranks, for any number of   *)
(* ranks, any owner of an entry, any batches and any number of calls: a    *)
(* gather returns the rows of the last step before it (GathersSeeSteps), a *)
(* write-back leaves all rows in the raw embedding (WrittenBack), and the  *)
(* caches together are one table (CachesImplementTable).                   *)
(*                                                                         *)
(* The ranks meet in the exchange of ids and in barriers.  The number of   *)
(* meetings a rank has entered is that of the calls it has made, so a rank *)
(* that gets through one has all others there (Lockstep).  A rank waits    *)
(* for its stream before it enters one.  Therefore a kernel that is still  *)
(* on a stream is of the last meeting of its rank or later (Streams), and  *)
(* while a kernel reads, no kernel that loads, evicts or trains is on the  *)
(* stream of a rank whose lines it reads (Apart).                          *)
(*                                                                         *)
(* A line that is not modified is a copy of the raw embedding (Lines).  So *)
(* an update or a write-back changes no row, and a step changes only what  *)
(* its owner writes: the row of an entry is what some first steps on it    *)
(* have made, and these are the steps that have written it (Values).  What *)
(* a kernel has read is therefore right while it runs (Readers), and stays *)
(* so in the results (Results).  A rank that has saved its line does not   *)
(* modify it again before its next step (Clean).                           *)
(***************************************************************************)
EXTENDS CachedEmbedding, NaturalLemmas, SequenceTheorems

-----------------------------------------------------------------------------
(***************************************************************************)
(* The calls and where each rank is in them.                               *)
(***************************************************************************)
Op     == {"gather", "step", "writeback", "drop", "fence"}
CallOf == [op : Op, adjust : BOOLEAN, batch : [Rank -> SUBSET Entry]]

\* The calls that end with a barrier, or have one before their rows are read.
Barriers(call) ==
  \/ call.op \in {"drop", "fence"}
  \/ call.op = "writeback" /\ kind # "readonly"
  \/ call.op = "gather" /\ call.adjust

Quiet(call) == ~ Exchanges(call) /\ ~ Barriers(call)

Where ==
  \A r \in Rank : /\ done[r] <= Len(program)
                  /\ stage[r] # "idle" => Behind(r)
                  /\ stage[r] = "exchange" => Exchanges(Call(r))
                  /\ stage[r] \in {"stream", "barrier"} => Barriers(Call(r))

\* What the application does.
Program ==
  /\ program \in Seq(CallOf) /\ Len(program) <= MaxOps
  /\ kind = "readonly" => \A k \in 1 .. Len(program) : program[k].op # "step"
  /\ kind = "shared" =>
       \A k \in 1 .. Len(program) : program[k].op = "gather" /\ ~ program[k].adjust =>
         \A j \in 1 .. k - 1 : program[j].op = "step" =>
           \E s \in j + 1 .. k - 1 : Settles(program[s])

Control ==
  /\ kind \in {"shared", "distributed", "readonly"}
  /\ done \in [Rank -> Nat] /\ entered \in [Rank -> Nat]
  /\ stage \in [Rank -> {"idle", "exchange", "stream", "barrier"}]
  /\ Program /\ Where

\* The meetings of a call, and those of the call r is in that r has entered.
First(call) == IF Exchanges(call) THEN 1 ELSE 0
Meets(call) == First(call) + (IF Barriers(call) THEN 1 ELSE 0)

Met(r) == CASE stage[r] = "idle"     -> 0
            [] stage[r] = "exchange" -> 1
            [] stage[r] = "stream"   -> First(Call(r))
            [] stage[r] = "barrier"  -> First(Call(r)) + 1

\* m[k] is the number of meetings of the first k calls.
Counts(m) ==
  /\ m \in [0 .. Len(program) -> Nat]
  /\ \A k \in 1 .. Len(program) : m[k] = m[k - 1] + Meets(program[k])
  /\ \A k \in 0 .. Len(program) : \A l \in 0 .. k : m[l] <= m[k]
  /\ \A r \in Rank : entered[r] = m[done[r]] + Met(r)

PastExchange(r, k) == done[r] >= k \/ (done[r] = k - 1 /\ stage[r] \in {"stream", "barrier"})
AtExchange(r, k)   == done[r] >= k \/ (done[r] = k - 1 /\ stage[r] # "idle")
AtBarrier(r, k)    == done[r] >= k \/ (done[r] = k - 1 /\ stage[r] = "barrier")

\* No rank is past an exchange or a barrier that another has not come to.
Together ==
  \A k \in 1 .. Len(program), r \in Rank, q \in Rank :
    /\ Exchanges(program[k]) /\ PastExchange(r, k) => AtExchange(q, k)
    /\ Barriers(program[k]) /\ done[r] >= k => AtBarrier(q, k)

Lockstep == Together /\ \E m : Counts(m)

-----------------------------------------------------------------------------
\* What the host of a rank does to its place.
EntersExchange(r) ==
  /\ stage[r] = "idle" /\ Exchanges(Call(r)) /\ stream[r] = << >>
  /\ Enter(r, "exchange") /\ done' = done

EntersBarrier(r) ==
  /\ stage[r] = "stream" /\ stream[r] = << >>
  /\ Enter(r, "barrier") /\ done' = done

Waits(r) ==
  /\ Through(r, "exchange") \/ (stage[r] = "idle" /\ ~ Exchanges(Call(r)))
  /\ Barriers(Call(r))
  /\ stage' = [stage EXCEPT ![r] = "stream"]
  /\ UNCHANGED <<done, entered>>

Returns(r) ==
  /\ \/ Through(r, "barrier")
     \/ Through(r, "exchange") /\ ~ Barriers(Call(r))
     \/ stage[r] = "idle" /\ Quiet(Call(r))
  /\ stage' = [stage EXCEPT ![r] = "idle"]
  /\ done'  = [done EXCEPT ![r] = @ + 1]
  /\ UNCHANGED entered

Moves(r) ==
  /\ Behind(r)
  /\ UNCHANGED <<kind, program>>
  /\ EntersExchange(r) \/ EntersBarrier(r) \/ Waits(r) \/ Returns(r)

\* Every action of a host is one of these.
LEMMA HostMoves ==
  ASSUME Control, NEW r \in Rank, Host(r)
  PROVE  Moves(r)
<1>1. stage[r] # "idle" => Behind(r)
  BY DEF Control, Where
<1>2. CASE Exchange(r)
  BY <1>2 DEF Exchange, Moves, EntersExchange
<1>3. CASE Train(r)
  BY <1>1, <1>3 DEF Train, Return, Moves, Returns, Barriers, Through
<1>4. CASE AdjustCache(r)
  BY <1>1, <1>4 DEF AdjustCache, WaitForStream, Moves, Waits, Barriers, Through
<1>5. CASE Gather(r)
  BY <1>1, <1>5 DEF Gather, Return, Moves, Returns, Barriers, Through, Quiet
<1>6. CASE WriteBack(r)
  BY <1>6 DEF WriteBack, Return, WaitForStream, Moves, Returns, Waits, Barriers, Quiet, Exchanges
<1>7. CASE Fence(r)
  BY <1>7 DEF Fence, WaitForStream, Moves, Waits, Barriers, Exchanges
<1>8. CASE Barrier(r)
  BY <1>1, <1>8 DEF Barrier, Moves, EntersBarrier
<1>9. CASE AfterBarrier(r)
  BY <1>1, <1>9 DEF AfterBarrier, Return, Moves, Returns, Through
<1>10. QED
  BY <1>2, <1>3, <1>4, <1>5, <1>6, <1>7, <1>8, <1>9 DEF Host

\* The calls, and the one a rank is in.
LEMMA Calls ==
  ASSUME Program
  PROVE  /\ Len(program) \in Nat
         /\ \A k \in 1 .. Len(program) : /\ program[k] \in CallOf /\ program[k].op \in Op
                                         /\ program[k].batch \in [Rank -> SUBSET Entry]
         /\ \A r \in Rank : done[r] \in Nat /\ Behind(r) => /\ done[r] + 1 \in 1 .. Len(program)
                                                             /\ Call(r) = program[done[r] + 1]
<1>1. program \in Seq(CallOf)
  BY DEF Program
<1>2. \A k \in 1 .. Len(program) : program[k] \in CallOf
  BY <1>1
<1>3. Len(program) \in Nat
  BY <1>1
<1>4. QED
  BY <1>2, <1>3 DEF CallOf, Behind, Call

\* A rank that went through an exchange or a barrier is not ahead of the others.
LEMMA ThroughMet ==
  ASSUME Control, NEW m, Counts(m), NEW r \in Rank, NEW q \in Rank,
         NEW what \in {"exchange", "barrier"}, Through(r, what)
  PROVE  IF what = "exchange" THEN AtExchange(q, done[r] + 1) ELSE AtBarrier(q, done[r] + 1)
<1> DEFINE d == done[r]
           c == done[q]
<1>1. /\ Len(program) \in Nat /\ d \in Nat /\ c \in Nat
      /\ d + 1 \in 1 .. Len(program) /\ c <= Len(program)
      /\ Call(r) = program[d + 1] /\ Behind(r)
      /\ stage[r] = what /\ entered[q] >= entered[r]
  BY Calls DEF Control, Where, Through
<1>2. /\ entered[r] = m[d] + Met(r) /\ entered[q] = m[c] + Met(q)
      /\ m[d] \in Nat /\ m[c] \in Nat /\ m[d + 1] = m[d] + Meets(program[d + 1])
  BY <1>1 DEF Counts
<1>3. Met(q) \in Nat /\ (stage[q] # "idle" => c + 1 \in 1 .. Len(program) /\ Call(q) = program[c + 1])
  BY Calls DEF Control, Where, Met, First
<1>4. CASE c > d
  BY <1>1, <1>4 DEF AtExchange, AtBarrier
<1>5. CASE c = d
  <2>1. stage[q] \in {"idle", "exchange", "stream", "barrier"}
    BY DEF Control
  <2>2. CASE what = "exchange"
    <3>1. Met(r) = 1
      BY <1>1, <2>2 DEF Met
    <3>2. stage[q] # "idle"
      BY <1>2, <1>3, <1>1, <1>5, <3>1 DEF Met
    <3>3. QED
      BY <1>5, <1>1, <2>2, <3>2 DEF AtExchange
  <2>3. CASE what = "barrier"
    <3>1. Met(r) = First(Call(r)) + 1
      BY <1>1, <2>3 DEF Met
    <3>2. Met(q) >= First(Call(r)) + 1
      BY <1>1, <1>2, <1>3, <1>5, <3>1 DEF First
    <3>3. stage[q] = "exchange" => First(Call(r)) = 1
      BY <1>1, <1>3, <1>5 DEF First, Control, Where
    <3>4. stage[q] = "barrier"
      BY <1>1, <1>3, <1>5, <2>1, <3>2, <3>3 DEF Met, First
    <3>5. QED
      BY <1>5, <1>1, <2>3, <3>4 DEF AtBarrier
  <2>4. QED
    BY <2>2, <2>3
<1>6. CASE c < d
  <2>1. /\ c + 1 \in 1 .. Len(program) /\ m[c + 1] = m[c] + Meets(program[c + 1])
        /\ m[c + 1] <= m[d] /\ m[c + 1] \in Nat
    <3>1. c + 1 \in 1 .. Len(program) /\ c + 1 \in 0 .. d /\ (c + 1) - 1 = c /\ d \in 0 .. Len(program)
      BY <1>1, <1>6
    <3>2. QED
      BY <3>1 DEF Counts
  <2>2. Met(q) <= Meets(program[c + 1])
    BY <1>3, <1>6 DEF Met, Meets, First, Control, Where
  <2>3. Met(r) >= 1
    BY <1>1 DEF Met, First
  <2>4. Met(r) \in Nat
    BY <1>1 DEF Met, First
  <2>5. PICK x \in Nat, y \in Nat, z \in Nat : x = m[c] /\ y = m[c + 1] /\ z = m[d]
    BY <1>2, <2>1
  <2>6. PICK u \in Nat, v \in Nat : u = Met(q) /\ v = Met(r)
    BY <1>3, <2>4
  <2>7. PICK w \in Nat : w = Meets(program[c + 1])
    BY DEF Meets, First
  <2>8. y = x + w /\ y <= z /\ u <= w /\ v >= 1 /\ x + u >= z + v
    BY <1>1, <1>2, <2>1, <2>2, <2>3, <2>5, <2>6, <2>7
  <2>9. QED
    BY <2>8
<1>7. QED
  BY <1>1, <1>4, <1>5, <1>6

\* A host keeps to the calls and to where it can be in one.
LEMMA MovesControl ==
  ASSUME Control, NEW r \in Rank, Moves(r)
  PROVE  Control'
<1>1. Program'
  BY DEF Control, Program, Moves, Settles
<1>2. /\ done' \in [Rank -> Nat] /\ entered' \in [Rank -> Nat]
      /\ stage' \in [Rank -> {"idle", "exchange", "stream", "barrier"}]
  <2>1. CASE EntersExchange(r)
    BY <2>1 DEF Control, EntersExchange, Enter
  <2>2. CASE EntersBarrier(r)
    BY <2>2 DEF Control, EntersBarrier, Enter
  <2>3. CASE Waits(r)
    BY <2>3 DEF Control, Waits
  <2>4. CASE Returns(r)
    BY <2>4 DEF Control, Returns
  <2>5. QED
    BY <2>1, <2>2, <2>3, <2>4 DEF Moves
<1>3. Where'
  <2>1. \A c : /\ Exchanges(c)' = Exchanges(c) /\ Barriers(c)' = Barriers(c)
    BY DEF Moves, Exchanges, Barriers
  <2>2. /\ program' = program /\ Behind(r) /\ Len(program) \in Nat
        /\ \A q \in Rank : done[q] \in Nat
    BY Calls DEF Moves, Control
  <2>3. ASSUME NEW q \in Rank, q # r
        PROVE  done'[q] = done[q] /\ stage'[q] = stage[q]
    BY <2>3 DEF Control, Moves, EntersExchange, EntersBarrier, Waits, Returns, Enter
  <2>4. CASE Returns(r)
    <3>1. done'[r] = done[r] + 1 /\ stage'[r] = "idle"
      BY <2>4 DEF Control, Returns
    <3>2. QED
      BY <2>1, <2>2, <2>3, <3>1 DEF Control, Where, Behind, Call
  <2>5. CASE ~ Returns(r)
    <3>1. done'[r] = done[r]
      BY <2>5 DEF Moves, EntersExchange, EntersBarrier, Waits
    <3>2. /\ stage'[r] = "exchange" => Exchanges(Call(r))
          /\ stage'[r] \in {"stream", "barrier"} => Barriers(Call(r))
      BY <2>5 DEF Control, Where, Moves, EntersExchange, EntersBarrier, Waits, Enter
    <3>3. QED
      BY <2>1, <2>2, <2>3, <3>1, <3>2 DEF Control, Where, Behind, Call
  <2>6. QED
    BY <2>4, <2>5
<1>4. QED
  BY <1>1, <1>2, <1>3 DEF Control, Moves

\* No rank gets past a meeting to which another has not come: it would not have gone through.
LEMMA MovesTogether ==
  ASSUME Control, Lockstep, NEW r \in Rank, Moves(r)
  PROVE  Together'
<1>1. PICK m : Counts(m)
  BY DEF Lockstep
<1>2. \A c : /\ Exchanges(c)' = Exchanges(c) /\ Barriers(c)' = Barriers(c)
  BY DEF Moves, Exchanges, Barriers
<1>3. /\ program' = program /\ Behind(r) /\ Len(program) \in Nat
      /\ \A q \in Rank : done[q] \in Nat
      /\ done[r] + 1 \in 1 .. Len(program) /\ Call(r) = program[done[r] + 1]
  BY Calls DEF Moves, Control
<1>4. \A q \in Rank, k \in 1 .. Len(program) :
        /\ AtExchange(q, k) => AtExchange(q, k)'
        /\ AtBarrier(q, k) => AtBarrier(q, k)'
  <2>1. ASSUME NEW q \in Rank, q # r
        PROVE  done'[q] = done[q] /\ stage'[q] = stage[q]
    BY <2>1 DEF Control, Moves, EntersExchange, EntersBarrier, Waits, Returns, Enter
  <2>2. \/ done'[r] = done[r] + 1
        \/ done'[r] = done[r] /\ stage'[r] # "idle" /\ stage[r] # "barrier"
    BY DEF Control, Moves, EntersExchange, EntersBarrier, Waits, Returns, Enter, Through
  <2>3. QED
    BY <1>3, <2>1, <2>2 DEF AtExchange, AtBarrier
<1>5. \A k \in 1 .. Len(program), p \in Rank :
        Exchanges(program[k]) /\ PastExchange(p, k)' =>
          \/ PastExchange(p, k)
          \/ k = done[r] + 1 /\ Through(r, "exchange")
  <2>1. ASSUME NEW p \in Rank, p # r
        PROVE  done'[p] = done[p] /\ stage'[p] = stage[p]
    BY <2>1 DEF Control, Moves, EntersExchange, EntersBarrier, Waits, Returns, Enter
  <2>2. CASE EntersExchange(r)
    BY <1>3, <2>1, <2>2 DEF EntersExchange, Enter, PastExchange, Control
  <2>3. CASE EntersBarrier(r)
    BY <1>3, <2>1, <2>3 DEF EntersBarrier, Enter, PastExchange, Control
  <2>4. CASE Waits(r)
    BY <1>3, <2>1, <2>4 DEF Waits, PastExchange, Control
  <2>5. CASE Returns(r)
    BY <1>3, <2>1, <2>5 DEF Returns, PastExchange, Control, Quiet, Through
  <2>6. QED
    BY <2>2, <2>3, <2>4, <2>5 DEF Moves
<1>6. \A k \in 1 .. Len(program), p \in Rank :
        Barriers(program[k]) /\ done'[p] >= k =>
          done[p] >= k \/ (k = done[r] + 1 /\ Through(r, "barrier"))
  <2>1. ASSUME NEW p \in Rank, p # r
        PROVE  done'[p] = done[p]
    BY <2>1 DEF Control, Moves, EntersExchange, EntersBarrier, Waits, Returns, Enter
  <2>2. CASE Returns(r)
    BY <1>3, <2>1, <2>2 DEF Returns, Control, Quiet
  <2>3. CASE ~ Returns(r)
    BY <1>3, <2>1, <2>3 DEF Moves, EntersExchange, EntersBarrier, Waits
  <2>4. QED
    BY <2>2, <2>3
<1>7. ASSUME NEW k \in 1 .. Len(program), NEW p \in Rank, NEW q \in Rank
      PROVE  /\ Exchanges(program[k]) /\ PastExchange(p, k)' => AtExchange(q, k)
             /\ Barriers(program[k]) /\ done'[p] >= k => AtBarrier(q, k)
  <2>1. /\ Through(r, "exchange") => AtExchange(q, done[r] + 1)
        /\ Through(r, "barrier") => AtBarrier(q, done[r] + 1)
    BY <1>1, ThroughMet
  <2>2. QED
    BY <1>5, <1>6, <2>1 DEF Lockstep, Together
<1>8. QED
  BY <1>2, <1>3, <1>4, <1>7 DEF Together

\* A rank that enters a meeting counts it.
LEMMA MovesLockstep ==
  ASSUME Control, Lockstep, NEW r \in Rank, Moves(r)
  PROVE  Lockstep'
<1>1. PICK m : Counts(m)
  BY DEF Lockstep
<1>2. \A c : First(c)' = First(c) /\ Meets(c)' = Meets(c)
  BY DEF Moves, Exchanges, Barriers, First, Meets
<1>3. /\ program' = program /\ Behind(r) /\ Len(program) \in Nat
      /\ \A q \in Rank : done[q] \in Nat
      /\ done[r] + 1 \in 1 .. Len(program) /\ Call(r) = program[done[r] + 1]
  BY Calls DEF Moves, Control
<1>4. ASSUME NEW q \in Rank, q # r PROVE entered'[q] = m[done'[q]] + Met(q)'
  <2>1. done'[q] = done[q] /\ stage'[q] = stage[q] /\ entered'[q] = entered[q]
    BY <1>4 DEF Control, Moves, EntersExchange, EntersBarrier, Waits, Returns, Enter
  <2>2. Met(q)' = Met(q)
    BY <1>2, <1>3, <2>1 DEF Met, Call
  <2>3. QED
    BY <1>1, <2>1, <2>2 DEF Counts
<1>5. entered'[r] = m[done'[r]] + Met(r)'
  <2>1. /\ entered[r] = m[done[r]] + Met(r) /\ m[done[r]] \in Nat
        /\ m[done[r] + 1] = m[done[r]] + Meets(Call(r))
    <3>1. done[r] \in 0 .. Len(program) /\ (done[r] + 1) - 1 = done[r]
      BY <1>3
    <3>2. QED
      BY <1>1, <1>3, <3>1 DEF Counts
  <2>2. done'[r] = done[r] => Call(r)' = Call(r)
    BY <1>3 DEF Call
  <2>3. CASE EntersExchange(r)
    BY <1>2, <2>1, <2>2, <2>3 DEF EntersExchange, Enter, Met, Control, First
  <2>4. CASE EntersBarrier(r)
    BY <1>2, <2>1, <2>2, <2>4 DEF EntersBarrier, Enter, Met, Control, First
  <2>5. CASE Waits(r)
    BY <1>2, <2>1, <2>2, <2>5 DEF Waits, Met, Control, Where, First, Through
  <2>6. CASE Returns(r)
    BY <1>2, <2>1, <2>2, <2>6 DEF Returns, Met, Meets, Control, Where, First, Through, Quiet
  <2>7. QED
    BY <2>3, <2>4, <2>5, <2>6 DEF Moves
<1>6. Counts(m)'
  BY <1>1, <1>2, <1>3, <1>4, <1>5 DEF Counts
<1>7. QED
  BY <1>6, MovesTogether DEF Lockstep

-----------------------------------------------------------------------------
\* A call is added behind the others.
LEMMA Grown ==
  ASSUME Program, NEW c \in CallOf, program' = Append(program, c)
  PROVE  /\ program' \in Seq(CallOf) /\ Len(program') = Len(program) + 1
         /\ \A k \in 1 .. Len(program) : program'[k] = program[k]
         /\ program'[Len(program) + 1] = c
BY DEF Program

\* What a new call changes, and what it leaves.
LEMMA Issued ==
  ASSUME Control, NEW op \in Op, NEW adjust \in BOOLEAN, NEW batch \in [Rank -> SUBSET Entry],
         Issue(op, adjust, batch)
  PROVE  /\ [op |-> op, adjust |-> adjust, batch |-> batch] \in CallOf
         /\ program' \in Seq(CallOf) /\ Len(program') = Len(program) + 1
         /\ Len(program) \in Nat
         /\ \A k \in 1 .. Len(program) : program'[k] = program[k]
         /\ program'[Len(program) + 1] = [op |-> op, adjust |-> adjust, batch |-> batch]
         /\ \A c : Exchanges(c)' = Exchanges(c) /\ Barriers(c)' = Barriers(c)
         /\ \A r \in Rank : Behind(r) => Call(r)' = Call(r) /\ Behind(r)'
<1>1. [op |-> op, adjust |-> adjust, batch |-> batch] \in CallOf
  BY DEF CallOf
<1>2. /\ program' \in Seq(CallOf) /\ Len(program') = Len(program) + 1
      /\ \A k \in 1 .. Len(program) : program'[k] = program[k]
      /\ program'[Len(program) + 1] = [op |-> op, adjust |-> adjust, batch |-> batch]
  BY <1>1, Grown DEF Control, Issue
<1>3. Len(program) \in Nat
  BY Calls DEF Control
<1>4. \A c : Exchanges(c)' = Exchanges(c) /\ Barriers(c)' = Barriers(c)
  BY DEF Issue, Exchanges, Barriers
<1>5. \A r \in Rank : Behind(r) => Call(r)' = Call(r) /\ Behind(r)'
  <2>1. done' = done
    BY DEF Issue
  <2>2. QED
    BY <1>2, <1>3, <2>1 DEF Behind, Call, Control
<1>6. QED
  BY <1>1, <1>2, <1>3, <1>4, <1>5

\* The application issues a read of a shared cache only after the steps are settled.
LEMMA IssueControl ==
  ASSUME Control, NEW op \in Op, NEW adjust \in BOOLEAN, NEW batch \in [Rank -> SUBSET Entry],
         Issue(op, adjust, batch)
  PROVE  Control'
<1> DEFINE n == Len(program)
           new == [op |-> op, adjust |-> adjust, batch |-> batch]
<1>1. /\ program' \in Seq(CallOf) /\ Len(program') = n + 1 /\ n \in Nat
      /\ \A k \in 1 .. n : program'[k] = program[k]
      /\ program'[n + 1] = new
      /\ \A c : Exchanges(c)' = Exchanges(c) /\ Barriers(c)' = Barriers(c)
      /\ \A r \in Rank : Behind(r) => Call(r)' = Call(r) /\ Behind(r)'
  BY Issued
<1>2. Where'
  BY <1>1 DEF Control, Where, Issue
<1>3. Program'
  <2>1. Len(program') <= MaxOps
    BY <1>1, MaxOpsAssumption DEF Issue
  <2>2. ASSUME kind' = "readonly", NEW k \in 1 .. n + 1 PROVE program'[k].op # "step"
    BY <1>1, <2>2 DEF Issue, Control, Program
  <2>3. ASSUME kind' = "shared", NEW k \in 1 .. n + 1,
               program'[k].op = "gather", ~ program'[k].adjust,
               NEW j \in 1 .. k - 1, program'[j].op = "step"
        PROVE  \E s \in j + 1 .. k - 1 : Settles(program'[s])
    <3>1. j \in 1 .. n /\ program[j].op = "step" /\ kind = "shared"
      BY <1>1, <2>3 DEF Issue
    <3>2. CASE k = n + 1
      <4>1. StepsSettled
        BY <1>1, <2>3, <3>1, <3>2 DEF Issue
      <4>2. PICK s \in DOMAIN program : s > j /\ Settles(program[s])
        BY <3>1, <4>1 DEF StepsSettled, Control, Program
      <4>3. s \in 1 .. n
        BY <4>2 DEF Control, Program
      <4>4. QED
        BY <1>1, <3>2, <4>2, <4>3
    <3>3. CASE k # n + 1
      <4>1. k \in 1 .. n /\ program[k].op = "gather" /\ ~ program[k].adjust
        BY <1>1, <2>3, <3>3
      <4>2. PICK s \in j + 1 .. k - 1 : Settles(program[s])
        BY <2>3, <3>1, <4>1 DEF Control, Program
      <4>3. s \in 1 .. n
        BY <4>1, <4>2
      <4>4. QED
        BY <1>1, <4>2, <4>3
    <3>4. QED
      BY <3>2, <3>3
  <2>4. QED
    BY <1>1, <2>1, <2>2, <2>3 DEF Program, Settles
<1>4. QED
  BY <1>2, <1>3 DEF Control, Issue

\* The meetings of the new call come after all others.
LEMMA IssueLockstep ==
  ASSUME Control, Lockstep, NEW op \in Op, NEW adjust \in BOOLEAN,
         NEW batch \in [Rank -> SUBSET Entry], Issue(op, adjust, batch)
  PROVE  Lockstep'
<1> DEFINE n == Len(program)
           new == [op |-> op, adjust |-> adjust, batch |-> batch]
<1>1. /\ program' \in Seq(CallOf) /\ Len(program') = n + 1 /\ n \in Nat
      /\ \A k \in 1 .. n : program'[k] = program[k]
      /\ program'[n + 1] = new
      /\ \A c : Exchanges(c)' = Exchanges(c) /\ Barriers(c)' = Barriers(c)
      /\ \A r \in Rank : Behind(r) => Call(r)' = Call(r) /\ Behind(r)'
  BY Issued
<1> HIDE DEF new
<1>2. /\ done' = done /\ stage' = stage /\ entered' = entered
      /\ \A r \in Rank : done[r] \in Nat /\ done[r] <= n /\ (stage[r] # "idle" => Behind(r))
  BY DEF Issue, Control, Where
<1>3. Together'
  <2>1. ASSUME NEW k \in 1 .. n + 1, NEW r \in Rank, NEW q \in Rank
        PROVE  /\ Exchanges(program'[k]) /\ PastExchange(r, k) => AtExchange(q, k)
               /\ Barriers(program'[k]) /\ done[r] >= k => AtBarrier(q, k)
    <3>1. CASE k = n + 1
      BY <1>1, <1>2, <3>1 DEF PastExchange, Behind
    <3>2. CASE k # n + 1
      <4>1. k \in 1 .. n
        BY <1>1, <3>2
      <4>2. QED
        BY <1>1, <4>1 DEF Lockstep, Together
    <3>3. QED
      BY <3>1, <3>2
  <2>2. QED
    BY <1>1, <1>2, <2>1 DEF Together, PastExchange, AtExchange, AtBarrier
<1>4. PICK m : Counts(m)
  BY DEF Lockstep
<1> DEFINE more == [k \in 0 .. n + 1 |-> IF k = n + 1 THEN m[n] + Meets(new) ELSE m[k]]
<1>5. \A c : First(c)' = First(c) /\ Meets(c)' = Meets(c) /\ Meets(c) \in Nat
  BY <1>1 DEF First, Meets
<1>6. /\ \A k \in 0 .. n : m[k] \in Nat
      /\ \A k \in 1 .. n : m[k] = m[k - 1] + Meets(program[k])
      /\ \A k \in 0 .. n : \A l \in 0 .. k : m[l] <= m[k]
      /\ \A r \in Rank : entered[r] = m[done[r]] + Met(r)
  BY <1>1, <1>4 DEF Counts
<1>7. \A k \in 0 .. n : more[k] = m[k]
  BY <1>1
<1>8. more[n + 1] = m[n] + Meets(new) /\ n \in 0 .. n /\ Meets(new) \in Nat
  BY <1>1, <1>5
<1>9. more \in [0 .. n + 1 -> Nat]
  BY <1>1, <1>5, <1>6
<1>10. \A k \in 0 .. n + 1 : k \in 0 .. n \/ k = n + 1
  BY <1>1
<1> HIDE DEF more
<1>11. \A k \in 1 .. n + 1 : more[k] = more[k - 1] + Meets(program'[k])
  <2>1. ASSUME NEW k \in 1 .. n + 1
        PROVE  more[k] = more[k - 1] + Meets(program'[k])
    <3>1. k - 1 \in 0 .. n
      BY <1>1
    <3>2. CASE k = n + 1
      BY <1>1, <1>7, <1>8, <3>1, <3>2
    <3>3. CASE k # n + 1
      <4>1. k \in 1 .. n /\ k \in 0 .. n
        BY <1>1, <3>3
      <4>2. QED
        BY <1>1, <1>6, <1>7, <3>1, <4>1
    <3>4. QED
      BY <3>2, <3>3
  <2>2. QED
    BY <2>1
<1>12. \A k \in 0 .. n + 1 : \A l \in 0 .. k : more[l] <= more[k]
  <2>1. ASSUME NEW k \in 0 .. n + 1, NEW l \in 0 .. k
        PROVE  more[l] <= more[k]
    <3>1. CASE k # n + 1
      <4>1. k \in 0 .. n /\ l \in 0 .. n
        BY <1>1, <3>1
      <4>2. QED
        BY <1>6, <1>7, <4>1
    <3>2. CASE k = n + 1
      <4>1. CASE l = n + 1
        <5>1. more[l] \in Nat /\ l = k
          BY <1>9, <3>2, <4>1
        <5>2. QED
          BY <5>1
      <4>2. CASE l # n + 1
        <5>1. l \in 0 .. n
          BY <1>1, <4>2
        <5>2. m[l] <= m[n] /\ m[l] \in Nat /\ m[n] \in Nat /\ more[l] = m[l]
          BY <1>6, <1>7, <1>8, <5>1
        <5>3. QED
          BY <1>8, <3>2, <5>2
      <4>3. QED
        BY <4>1, <4>2
    <3>3. QED
      BY <3>1, <3>2
  <2>2. QED
    BY <2>1
<1>13. \A r \in Rank : entered'[r] = more[done'[r]] + Met(r)'
  <2>1. ASSUME NEW r \in Rank PROVE Met(r)' = Met(r) /\ done[r] \in 0 .. n
    <3>1. stage[r] # "idle" => Call(r)' = Call(r)
      BY <1>1, <1>2
    <3>2. Met(r)' = Met(r)
      BY <1>2, <1>5, <3>1 DEF Met, Control
    <3>3. QED
      BY <1>1, <1>2, <3>2
  <2>2. QED
    BY <1>2, <1>6, <1>7, <2>1
<1>14. PICK x : x = more
  OBVIOUS
<1>15. /\ x \in [0 .. n + 1 -> Nat]
       /\ \A k \in 1 .. n + 1 : x[k] = x[k - 1] + Meets(program'[k])
       /\ \A k \in 0 .. n + 1 : \A l \in 0 .. k : x[l] <= x[k]
       /\ \A r \in Rank : entered'[r] = x[done'[r]] + Met(r)'
  BY <1>9, <1>11, <1>12, <1>13, <1>14
<1>16. Counts(x)'
  BY <1>1, <1>5, <1>15 DEF Counts
<1>17. QED
  BY <1>3, <1>16 DEF Lockstep

\* At first there are no calls.
LEMMA InitControl == Init => Control /\ Lockstep
<1> SUFFICES ASSUME Init PROVE Control /\ Lockstep
  OBVIOUS
<1>1. Len(program) = 0 /\ program \in Seq(CallOf)
  BY DEF Init
<1>2. Program
  BY <1>1, MaxOpsAssumption DEF Program
<1>3. Control
  BY <1>1, <1>2, KindsAssumption DEF Init, Control, Where
<1>4. Together
  BY <1>1 DEF Together
<1> DEFINE m == [k \in 0 .. 0 |-> 0]
<1>5. Counts(m)
  BY <1>1 DEF Init, Counts, Met
<1>6. QED
  BY <1>3, <1>4, <1>5 DEF Lockstep

\* A step of a stream leaves them as they are.
LEMMA SameControl ==
  ASSUME Control, Lockstep, UNCHANGED host
  PROVE  Control' /\ Lockstep'
<1>1. /\ kind' = kind /\ program' = program /\ done' = done /\ stage' = stage
      /\ entered' = entered
  BY DEF host
<1>2. Control'
  BY <1>1 DEF Control, Program, Where, Settles, Behind, Call, Exchanges, Barriers
<1>3. Together'
  BY <1>1 DEF Lockstep, Together, Exchanges, Barriers, PastExchange, AtExchange, AtBarrier
<1>4. PICK m : Counts(m)
  BY DEF Lockstep
<1>5. Counts(m)'
  BY <1>1, <1>4 DEF Counts, Meets, First, Exchanges, Barriers, Met, Call
<1>6. QED
  BY <1>2, <1>3, <1>5 DEF Lockstep

-----------------------------------------------------------------------------
(***************************************************************************)
(* The kernels on the streams.                                             *)
(***************************************************************************)
Reads     == {"read", "try", "fetch"}
Adjusts   == {"update", "choose", "fill", "step"}
KernelSet ==
  [name : Reads \cup Adjusts \cup {"collect", "copy", "clean", "clear"}, call : Nat,
   ids : SUBSET Entry]

\* What a kernel is given.
KernelOf(r, x) ==
  LET c == x.call
  IN  /\ x.name \in {"read", "update", "step", "copy", "clean"} => kind # "readonly"
      /\ x.name \in {"try", "fetch", "choose", "fill"} => kind = "readonly"
      /\ x.name = "collect" => kind = "distributed"
      /\ x.name \in {"try", "fetch", "collect"} => x.ids = program[c].batch[r]
      /\ x.name = "read" =>
           x.ids = IF kind = "shared" THEN program[c].batch[r] ELSE Received(c, r)
      /\ x.name \in Adjusts => x.ids \subseteq Received(c, r)
      /\ x.name \in Reads \cup Adjusts => x.ids # {}

\* A kernel that has not ended is one of the last exchange or barrier of its rank, or
\* of a call after it.
Placed(r, x) ==
  LET c == x.call
  IN  /\ KernelOf(r, x)
      /\ \/ /\ c \in 1 .. done[r] /\ (stage[r] = "stream" => ~ Exchanges(Call(r)))
            /\ \A j \in c + 1 .. done[r] : Quiet(program[j])
            /\ \/ program[c].op = "gather" /\ x.name \in Reads \cup {"collect"}
               \/ program[c].op = "step" /\ x.name \in {"update", "step"}
         \/ /\ c = done[r] + 1 /\ stage[r] = "stream"
            /\ \/ program[c].op = "gather" /\ x.name \in {"update", "choose", "fill"}
               \/ program[c].op \in {"writeback", "drop"} /\ x.name \in {"copy", "clean", "clear"}

\* Which kernel comes after which, and there is only one of a step.
Follows(s, i) ==
  /\ s[i].name = "try"    => i + 1 \in 1 .. Len(s) /\ s[i + 1].name = "fetch"
                              /\ s[i + 1].call = s[i].call
  /\ s[i].name = "choose" => i + 1 \in 1 .. Len(s) /\ s[i + 1].name = "fill"
  /\ s[i].name = "fetch" /\ i # 1 => s[i - 1].name = "try"
  /\ s[i].name = "fill" /\ i # 1  => s[i - 1].name = "choose"
  /\ s[i].name \in {"clean", "clear"} /\ i # 1 /\ kind # "readonly" => s[i - 1].name = "copy"

Ordered(s) ==
  /\ \A i \in 1 .. Len(s) : Follows(s, i)
  /\ \A i, j \in 1 .. Len(s) : s[i].name = "step" /\ s[j].name = "step" => i = j

\* Nothing in s depends on what comes before it.
Starts(s) ==
  Len(s) > 0 => /\ s[1].name \notin {"fetch", "fill", "clean"}
                /\ s[1].name = "clear" => kind = "readonly"

On(r, x) == \E i \in 1 .. Len(stream[r]) : x = stream[r][i]

AllPlaced == \A r \in Rank : \A x : On(r, x) => Placed(r, x)

Streams ==
  /\ stream \in [Rank -> Seq(KernelSet)]
  /\ AllPlaced
  /\ \A r \in Rank : /\ stage[r] \in {"exchange", "barrier"} => stream[r] = << >>
                     /\ Ordered(stream[r])

-----------------------------------------------------------------------------
\* Kernels of a call are put behind those that are there, a step only on an empty stream.
LEMMA OrderedAppend ==
  ASSUME NEW s \in Seq(KernelSet), NEW t \in Seq(KernelSet), Ordered(s), Ordered(t), Starts(t),
         \/ \A i \in 1 .. Len(t) : t[i].name # "step"
         \/ s = << >>
  PROVE  Ordered(s \o t)
<1> DEFINE z == s \o t
<1>1. /\ Len(s) \in Nat /\ Len(t) \in Nat /\ Len(z) = Len(s) + Len(t)
      /\ \A i \in 1 .. Len(s) : z[i] = s[i]
      /\ \A i \in 1 .. Len(t) : z[Len(s) + i] = t[i]
  OBVIOUS
<1>2. PICK m \in Nat, n \in Nat : m = Len(s) /\ n = Len(t)
  BY <1>1
<1> HIDE DEF z
<1>3. \A i \in 1 .. Len(z) : i \in 1 .. m \/ \E j \in 1 .. n : i = m + j
  <2>1. ASSUME NEW i \in 1 .. Len(z), i \notin 1 .. m
        PROVE  i - m \in 1 .. n /\ i = m + (i - m)
    BY <1>1, <1>2, <2>1
  <2>2. QED
    BY <2>1
<1>4. ASSUME NEW i \in 1 .. m PROVE Follows(z, i)
  <2>1. z[i] = s[i] /\ (i # 1 => z[i - 1] = s[i - 1] /\ i - 1 \in 1 .. m)
    BY <1>1, <1>2
  <2>2. i + 1 \in 1 .. m => z[i + 1] = s[i + 1] /\ i + 1 \in 1 .. Len(z)
    BY <1>1, <1>2
  <2>3. Follows(s, i)
    BY <1>2 DEF Ordered
  <2>4. QED
    BY <1>2, <2>1, <2>2, <2>3 DEF Follows
<1>5. ASSUME NEW j \in 1 .. n PROVE Follows(z, m + j)
  <2>1. z[m + j] = t[j] /\ (j # 1 => z[(m + j) - 1] = t[j - 1])
    <3>1. j # 1 => j - 1 \in 1 .. n /\ (m + j) - 1 = m + (j - 1)
      OBVIOUS
    <3>2. QED
      BY <1>1, <1>2, <3>1
  <2>2. j + 1 \in 1 .. n => z[(m + j) + 1] = t[j + 1] /\ (m + j) + 1 \in 1 .. Len(z)
    <3>1. (m + j) + 1 = m + (j + 1)
      OBVIOUS
    <3>2. QED
      BY <1>1, <1>2, <3>1
  <2>3. Follows(t, j)
    BY <1>2 DEF Ordered
  <2>4. j = 1 => /\ t[j].name \notin {"fetch", "fill", "clean"}
                 /\ t[j].name = "clear" => kind = "readonly"
    BY <1>2 DEF Starts
  <2>5. QED
    BY <1>2, <2>1, <2>2, <2>3, <2>4 DEF Follows
<1>6. ASSUME NEW i \in 1 .. Len(z), NEW j \in 1 .. Len(z), z[i].name = "step", z[j].name = "step"
      PROVE  i = j
  <2>1. CASE s = << >>
    <3>1. i \in 1 .. n /\ j \in 1 .. n /\ z[i] = t[i] /\ z[j] = t[j]
      BY <1>1, <1>2, <2>1
    <3>2. QED
      BY <1>2, <1>6, <3>1 DEF Ordered
  <2>2. CASE s # << >>
    <3>1. \A k \in 1 .. n : z[m + k].name # "step"
      BY <1>1, <1>2, <2>2
    <3>2. i \in 1 .. m /\ j \in 1 .. m
      BY <1>3, <1>6, <3>1
    <3>3. QED
      BY <1>1, <1>2, <1>6, <3>2 DEF Ordered
  <2>3. QED
    BY <2>1, <2>2
<1>7. QED
  BY <1>3, <1>4, <1>5, <1>6 DEF Ordered, z

\* A stream stays ordered when its first kernel ends.
LEMMA OrderedTail ==
  ASSUME NEW s \in Seq(KernelSet), s # << >>, Ordered(s)
  PROVE  Ordered(Tail(s))
<1> DEFINE z == Tail(s)
<1>1. PICK n \in Nat : Len(s) = n + 1
  <2>1. Len(s) \in Nat /\ Len(s) # 0
    OBVIOUS
  <2>2. Len(s) - 1 \in Nat /\ Len(s) = (Len(s) - 1) + 1
    BY <2>1
  <2>3. QED
    BY <2>2
<1>2. Len(z) = n /\ \A i \in 1 .. n : z[i] = s[i + 1]
  BY <1>1
<1> HIDE DEF z
<1>3. ASSUME NEW i \in 1 .. n PROVE Follows(z, i)
  <2>1. /\ z[i] = s[i + 1] /\ i + 1 \in 1 .. Len(s) /\ i + 1 # 1
        /\ i # 1 => z[i - 1] = s[(i + 1) - 1]
        /\ (i + 1) + 1 \in 1 .. Len(s) => i + 1 \in 1 .. n /\ z[i + 1] = s[(i + 1) + 1]
    <3>1. i # 1 => i - 1 \in 1 .. n /\ (i - 1) + 1 = (i + 1) - 1
      OBVIOUS
    <3>2. QED
      BY <1>1, <1>2, <3>1
  <2>2. Follows(s, i + 1)
    BY <2>1 DEF Ordered
  <2>3. QED
    BY <1>2, <2>1, <2>2 DEF Follows
<1>4. ASSUME NEW i \in 1 .. n, NEW j \in 1 .. n, z[i].name = "step", z[j].name = "step"
      PROVE  i = j
  <2>1. i + 1 \in 1 .. Len(s) /\ j + 1 \in 1 .. Len(s)
    BY <1>1
  <2>2. i + 1 = j + 1
    BY <1>2, <1>4, <2>1 DEF Ordered
  <2>3. QED
    BY <2>2
<1>5. QED
  BY <1>2, <1>3, <1>4 DEF Ordered, z

\* A sequence with the same names and calls.
LEMMA OrderedAlike ==
  ASSUME NEW s, NEW t, Ordered(s), Len(t) = Len(s), Len(s) \in Nat,
         \A i \in 1 .. Len(s) : t[i].name = s[i].name /\ t[i].call = s[i].call
  PROVE  Ordered(t)
<1>1. ASSUME NEW i \in 1 .. Len(s) PROVE Follows(t, i)
  <2>1. i # 1 => i - 1 \in 1 .. Len(s)
    OBVIOUS
  <2>2. Follows(s, i)
    BY DEF Ordered
  <2>3. QED
    BY <2>1, <2>2 DEF Follows
<1>2. QED
  BY <1>1 DEF Ordered

-----------------------------------------------------------------------------
\* Where a kernel may be depends on the hosts only.
LEMMA SamePlaced ==
  ASSUME UNCHANGED host
  PROVE  \A r, x : Placed(r, x)' <=> Placed(r, x)
BY DEF host, Placed, KernelOf, Received, Named, Quiet, Exchanges, Barriers, Call

\* A kernel stays where it may be when a host moves: its rank does not enter a meeting before
\* it has ended, and other ranks do not matter.
LEMMA MovesPlaced ==
  ASSUME Control, Streams, NEW r \in Rank, Moves(r)
  PROVE  \A q \in Rank : \A x : On(q, x) => Placed(q, x)'
<1>1. \A c : Quiet(c)' = Quiet(c) /\ Exchanges(c)' = Exchanges(c)
  BY DEF Moves, Quiet, Exchanges, Barriers
<1>2. \A q, x : KernelOf(q, x)' = KernelOf(q, x)
  BY DEF Moves, KernelOf, Received, Named
<1>3. program' = program
  BY DEF Moves
<1>4. ASSUME NEW q \in Rank, NEW x, On(q, x) PROVE Placed(q, x)'
  <2>1. Placed(q, x)
    BY <1>4 DEF Streams, AllPlaced
  <2>2. CASE q # r
    <3>1. done'[q] = done[q] /\ stage'[q] = stage[q]
      BY <2>2 DEF Control, Moves, EntersExchange, EntersBarrier, Waits, Returns, Enter
    <3>2. QED
      BY <1>1, <1>2, <1>3, <2>1, <3>1 DEF Placed, Call
  <2>3. CASE q = r
    <3>1. stream[r] # << >> /\ stage[r] \notin {"exchange", "barrier"}
      BY <1>4, <2>3 DEF Streams, On
    <3>2. CASE Waits(r)
      <4>1. /\ done'[r] = done[r] /\ stage'[r] = "stream" /\ stage[r] = "idle"
            /\ ~ Exchanges(Call(r))
        BY <3>1, <3>2 DEF Waits, Control, Through
      <4>2. QED
        BY <1>1, <1>2, <1>3, <2>1, <2>3, <4>1 DEF Placed, Call
    <3>3. CASE Returns(r)
      <4>1. /\ done'[r] = done[r] + 1 /\ stage'[r] = "idle" /\ stage[r] = "idle"
            /\ Quiet(Call(r)) /\ done[r] \in Nat
        BY <3>1, <3>3 DEF Returns, Control, Through
      <4>2. \A j \in 1 .. done[r] + 1 : j \in 1 .. done[r] \/ j = done[r] + 1
        BY <4>1
      <4>3. /\ KernelOf(r, x) /\ x.call \in 1 .. done[r]
            /\ \A j \in x.call + 1 .. done[r] : Quiet(program[j])
            /\ \/ program[x.call].op = "gather" /\ x.name \in Reads \cup {"collect"}
               \/ program[x.call].op = "step" /\ x.name \in {"update", "step"}
        BY <2>1, <2>3, <4>1 DEF Placed
      <4>4. \A j \in x.call + 1 .. done[r] + 1 : Quiet(program[j])
        BY <4>1, <4>3 DEF Call
      <4>5. x.call \in 1 .. done[r] + 1
        BY <4>1, <4>3
      <4>6. QED
        BY <1>1, <1>2, <1>3, <2>3, <4>1, <4>3, <4>4, <4>5 DEF Placed
    <3>4. QED
      BY <3>1, <3>2, <3>3 DEF Moves, EntersExchange, EntersBarrier
  <2>4. QED
    BY <2>2, <2>3
<1>5. QED
  BY <1>4

-----------------------------------------------------------------------------
\* A sequence of kernels of call k that r may launch.
Batch(r, k, names, t) ==
  /\ t \in Seq(KernelSet) /\ Ordered(t) /\ Starts(t)
  /\ \A i \in 1 .. Len(t) : t[i].name \in names /\ t[i].call = k /\ KernelOf(r, t[i])

\* No kernels are a batch ...
LEMMA NoKernel ==
  ASSUME NEW r, NEW k, NEW names
  PROVE  Batch(r, k, names, << >>)
BY DEF Batch, Ordered, Starts

\* ... as is one that does not depend on another ...
LEMMA OneKernel ==
  ASSUME NEW r, NEW k, NEW names, NEW x \in KernelSet, x.name \in names, x.call = k,
         KernelOf(r, x), x.name \notin {"try", "choose", "fetch", "fill", "clean"},
         x.name = "clear" => kind = "readonly"
  PROVE  Batch(r, k, names, <<x>>)
<1>1. <<x>> \in Seq(KernelSet) /\ Len(<<x>>) = 1 /\ <<x>>[1] = x
  OBVIOUS
<1>2. Follows(<<x>>, 1) /\ Starts(<<x>>)
  BY <1>1 DEF Follows, Starts
<1>3. QED
  BY <1>1, <1>2 DEF Batch, Ordered

\* ... and two that may follow each other.
LEMMA TwoKernels ==
  ASSUME NEW r, NEW k, NEW names, NEW x \in KernelSet, NEW y \in KernelSet,
         x.name \in names, x.call = k, KernelOf(r, x),
         y.name \in names, y.call = k, KernelOf(r, y),
         \/ x.name = "try" /\ y.name = "fetch"
         \/ x.name = "choose" /\ y.name = "fill"
         \/ x.name = "copy" /\ y.name \in {"clean", "clear"}
         \/ x.name = "read" /\ y.name = "collect"
         \/ x.name = "update" /\ y.name = "step"
  PROVE  Batch(r, k, names, <<x, y>>)
<1> DEFINE t == <<x, y>>
<1>1. t \in Seq(KernelSet) /\ Len(t) = 2 /\ t[1] = x /\ t[2] = y
  OBVIOUS
<1> HIDE DEF t
<1>2. Follows(t, 1) /\ Starts(t)
  BY <1>1 DEF Follows, Starts
<1>3. Follows(t, 2)
  BY <1>1 DEF Follows
<1>4. Ordered(t)
  BY <1>1, <1>2, <1>3 DEF Ordered
<1>5. Batch(r, k, names, t)
  BY <1>1, <1>2, <1>4 DEF Batch
<1>6. QED
  BY <1>5 DEF t

\* The fields of a kernel.
LEMMA KernelFields ==
  ASSUME NEW name, NEW k, NEW ids
  PROVE  /\ Kernel(name, k, ids).name = name /\ Kernel(name, k, ids).call = k
         /\ Kernel(name, k, ids).ids = ids
         /\ name \in Reads \cup Adjusts \cup {"collect", "copy", "clean", "clear"} /\ k \in Nat
            /\ ids \in SUBSET Entry => Kernel(name, k, ids) \in KernelSet
BY DEF Kernel, KernelSet

\* Joining what is there if ids are.
LEMMA Joined ==
  ASSUME NEW x \in KernelSet, NEW y \in KernelSet
  PROVE  /\ << >> \o << >> = << >> /\ <<x>> \o <<y>> = <<x, y>>
         /\ << >> \o <<y>> = <<y>> /\ <<x>> \o << >> = <<x>>
<1>1. << >> \in Seq(KernelSet) /\ <<x>> \in Seq(KernelSet) /\ <<y>> \in Seq(KernelSet)
  OBVIOUS
<1>2. /\ << >> \o << >> = << >> /\ << >> \o <<y>> = <<y>> /\ <<x>> \o << >> = <<x>>
  BY <1>1, ConcatEmptySeq
<1>3. <<x>> \o <<y>> = <<x, y>>
  <2>1. PICK s : s = <<x>> \o <<y>>
    OBVIOUS
  <2>2. s \in Seq(KernelSet) /\ Len(s) = 2 /\ s[1] = x /\ s[2] = y
    BY <2>1
  <2>3. PICK t : t = <<x, y>>
    OBVIOUS
  <2>4. t \in Seq(KernelSet) /\ Len(t) = 2 /\ t[1] = x /\ t[2] = y
    BY <2>3
  <2>5. s = t
    BY <2>2, <2>4, SeqEqual
  <2>6. QED
    BY <2>1, <2>3, <2>5
<1>4. QED
  BY <1>2, <1>3

\* The ids of a call are entries.
LEMMA Ids ==
  ASSUME Control, NEW k \in 1 .. Len(program), NEW r \in Rank
  PROVE  /\ Received(k, r) \in SUBSET Entry /\ program[k].batch[r] \in SUBSET Entry
         /\ program[k].batch[r] \subseteq Named(k) /\ Named(k) \in SUBSET Entry
         /\ k \in Nat
<1>1. program[k].batch \in [Rank -> SUBSET Entry]
  BY Calls DEF Control
<1>2. QED
  BY <1>1 DEF Received, Named

\* What each call launches: the kernels of a gather, with one that reads if ids came, ...
LEMMA ReadKernelsFine ==
  ASSUME Control, NEW k \in 1 .. Len(program), NEW r \in Rank
  PROVE  /\ Batch(r, k, Reads \cup {"collect"}, ReadKernels(r, k))
         /\ kind = "distributed" /\ Received(k, r) # {} =>
              \E i \in 1 .. Len(ReadKernels(r, k)) : ReadKernels(r, k)[i].name = "read"
<1> DEFINE N == Reads \cup {"collect"}
           b == program[k].batch[r]
           R == Received(k, r)
<1>1. b \in SUBSET Entry /\ R \in SUBSET Entry /\ k \in Nat
  BY Ids
<1>2. CASE kind = "shared"
  <2> DEFINE x == Kernel("read", k, b)
  <2>1. x \in KernelSet /\ x.name = "read" /\ x.call = k /\ x.ids = b
    BY <1>1, KernelFields DEF Reads
  <2>2. ReadKernels(r, k) = IF b = {} THEN << >> ELSE <<x>>
    BY <1>2 DEF ReadKernels, KernelFor
  <2> HIDE DEF x
  <2>3. b # {} => KernelOf(r, x)
    BY <1>2, <2>1 DEF KernelOf, Adjusts
  <2>4. b # {} => Batch(r, k, N, <<x>>)
    BY <2>1, <2>3, OneKernel DEF Reads
  <2>5. QED
    BY <1>2, <2>2, <2>4, NoKernel
<1>3. CASE kind = "distributed"
  <2> DEFINE x == Kernel("read", k, R)
             y == Kernel("collect", k, b)
  <2>1. /\ x \in KernelSet /\ x.name = "read" /\ x.call = k /\ x.ids = R
        /\ y \in KernelSet /\ y.name = "collect" /\ y.call = k /\ y.ids = b
    BY <1>1, KernelFields DEF Reads
  <2>2. ReadKernels(r, k) = IF R = {} THEN << >> \o <<y>> ELSE <<x>> \o <<y>>
    BY <1>3 DEF ReadKernels, KernelFor
  <2> HIDE DEF x, y
  <2>3. KernelOf(r, y) /\ (R # {} => KernelOf(r, x))
    BY <1>3, <2>1 DEF KernelOf, Adjusts, Reads
  <2>4. R # {} => Batch(r, k, N, <<x, y>>)
    BY <2>1, <2>3, TwoKernels DEF Reads
  <2>5. Batch(r, k, N, <<y>>)
    BY <2>1, <2>3, OneKernel DEF Reads
  <2>6. R # {} => ReadKernels(r, k) = <<x, y>>
    BY <2>1, <2>2, Joined
  <2>7. Len(<<x, y>>) = 2 /\ <<x, y>>[1].name = "read" /\ 1 \in 1 .. 2
    BY <2>1
  <2>8. R # {} => \E i \in 1 .. Len(ReadKernels(r, k)) : ReadKernels(r, k)[i].name = "read"
    BY <2>6, <2>7
  <2>9. QED
    BY <2>1, <2>2, <2>4, <2>5, <2>8, Joined
<1>4. CASE kind = "readonly"
  <2> DEFINE x == Kernel("try", k, b)
             y == Kernel("fetch", k, b)
  <2>1. /\ x \in KernelSet /\ x.name = "try" /\ x.call = k /\ x.ids = b
        /\ y \in KernelSet /\ y.name = "fetch" /\ y.call = k /\ y.ids = b
    BY <1>1, KernelFields DEF Reads
  <2>2. ReadKernels(r, k) = IF b = {} THEN << >> \o << >> ELSE <<x>> \o <<y>>
    BY <1>4 DEF ReadKernels, KernelFor
  <2> HIDE DEF x, y
  <2>3. b # {} => KernelOf(r, y) /\ KernelOf(r, x)
    BY <1>4, <2>1 DEF KernelOf, Adjusts, Reads
  <2>4. b # {} => Batch(r, k, N, <<x, y>>)
    BY <2>1, <2>3, TwoKernels DEF Reads
  <2>5. QED
    BY <1>4, <2>1, <2>2, <2>4, NoKernel, Joined
<1>5. QED
  BY <1>2, <1>3, <1>4 DEF Control

\* ... of an update of the cache, ...
LEMMA UpdateKernelsFine ==
  ASSUME Control, NEW k \in 1 .. Len(program), NEW r \in Rank
  PROVE  Batch(r, k, {"update", "choose", "fill"}, UpdateKernels(r, k))
<1> DEFINE N == {"update", "choose", "fill"}
           R == Received(k, r)
<1>1. R \in SUBSET Entry /\ k \in Nat
  BY Ids
<1>2. CASE kind # "readonly"
  <2> DEFINE x == Kernel("update", k, R)
  <2>1. x \in KernelSet /\ x.name = "update" /\ x.call = k /\ x.ids = R
    BY <1>1, KernelFields DEF Adjusts
  <2>2. UpdateKernels(r, k) = IF R = {} THEN << >> ELSE <<x>>
    BY <1>2 DEF UpdateKernels, KernelFor
  <2> HIDE DEF x
  <2>3. R # {} => KernelOf(r, x)
    BY <1>2, <2>1 DEF KernelOf, Adjusts
  <2>4. R # {} => Batch(r, k, N, <<x>>)
    BY <2>1, <2>3, OneKernel
  <2>5. QED
    BY <2>2, <2>4, NoKernel
<1>3. CASE kind = "readonly"
  <2> DEFINE x == Kernel("choose", k, R)
             y == Kernel("fill", k, R)
  <2>1. /\ x \in KernelSet /\ x.name = "choose" /\ x.call = k /\ x.ids = R
        /\ y \in KernelSet /\ y.name = "fill" /\ y.call = k /\ y.ids = R
    BY <1>1, KernelFields DEF Adjusts
  <2>2. UpdateKernels(r, k) = IF R = {} THEN << >> \o << >> ELSE <<x>> \o <<y>>
    BY <1>3 DEF UpdateKernels, KernelFor
  <2> HIDE DEF x, y
  <2>3. R # {} => KernelOf(r, y) /\ KernelOf(r, x)
    BY <1>3, <2>1 DEF KernelOf, Adjusts, Reads
  <2>4. R # {} => Batch(r, k, N, <<x, y>>)
    BY <2>1, <2>3, TwoKernels
  <2>5. QED
    BY <2>1, <2>2, <2>4, NoKernel, Joined
<1>4. QED
  BY <1>2, <1>3

\* ... of a step, with its ids in the step kernel, ...
LEMMA StepKernelsFine ==
  ASSUME Control, NEW k \in 1 .. Len(program), NEW r \in Rank, kind # "readonly",
         NEW adjust \in BOOLEAN
  PROVE  LET t == (IF adjust THEN UpdateKernels(r, k) ELSE << >>)
                    \o KernelFor("step", k, Received(k, r))
         IN  /\ Batch(r, k, {"update", "step"}, t)
             /\ Received(k, r) # {} =>
                  \E i \in 1 .. Len(t) : t[i].name = "step" /\ t[i].ids = Received(k, r)
<1> DEFINE N == {"update", "step"}
           R == Received(k, r)
           x == Kernel("update", k, R)
           y == Kernel("step", k, R)
           t == (IF adjust THEN UpdateKernels(r, k) ELSE << >>) \o KernelFor("step", k, R)
<1>1. R \in SUBSET Entry /\ k \in Nat
  BY Ids
<1>2. /\ x \in KernelSet /\ x.name = "update" /\ x.call = k /\ x.ids = R
      /\ y \in KernelSet /\ y.name = "step" /\ y.call = k /\ y.ids = R
  BY <1>1, KernelFields DEF Adjusts
<1>3. t = IF R = {} THEN << >> \o << >> ELSE IF adjust THEN <<x>> \o <<y>> ELSE << >> \o <<y>>
  BY DEF UpdateKernels, KernelFor
<1> HIDE DEF x, y, t
<1>4. R # {} => KernelOf(r, y) /\ KernelOf(r, x)
  BY <1>2 DEF KernelOf, Adjusts, Reads
<1>5. R # {} => Batch(r, k, N, <<x, y>>) /\ Batch(r, k, N, <<y>>)
  BY <1>2, <1>4, TwoKernels, OneKernel
<1>6. Batch(r, k, N, t)
  BY <1>2, <1>3, <1>5, NoKernel, Joined
<1>7. R # {} => t = <<x, y>> \/ t = <<y>>
  BY <1>2, <1>3, Joined
<1>8. /\ Len(<<x, y>>) = 2 /\ <<x, y>>[2] = y /\ 2 \in 1 .. 2
      /\ Len(<<y>>) = 1 /\ <<y>>[1] = y /\ 1 \in 1 .. 1
  OBVIOUS
<1>9. R # {} => \E i \in 1 .. Len(t) : t[i].name = "step" /\ t[i].ids = R
  BY <1>2, <1>7, <1>8
<1>10. QED
  BY <1>6, <1>9 DEF t

\* ... and of a write-back, which ends with the tags.
LEMMA WriteBackKernelsFine ==
  ASSUME Control, NEW k \in 1 .. Len(program), NEW r \in Rank,
         program[k].op \in {"writeback", "drop"}, program[k].op = "writeback" => kind # "readonly"
  PROVE  /\ Batch(r, k, {"copy", "clean", "clear"}, WriteBackKernels(k))
         /\ Len(WriteBackKernels(k)) > 0
         /\ WriteBackKernels(k)[Len(WriteBackKernels(k))].name \in {"clean", "clear"}
<1> DEFINE N == {"copy", "clean", "clear"}
           x == Kernel("copy", k, {})
           y == Kernel(IF program[k].op = "drop" THEN "clear" ELSE "clean", k, {})
           t == WriteBackKernels(k)
<1>1. /\ x \in KernelSet /\ x.name = "copy" /\ x.call = k
      /\ y \in KernelSet /\ y.name \in {"clean", "clear"} /\ y.call = k
      /\ y.name = "clean" => kind # "readonly"
  BY KernelFields
<1>2. t = IF kind = "readonly" THEN << >> \o <<y>> ELSE <<x>> \o <<y>>
  BY DEF WriteBackKernels
<1> HIDE DEF x, y, t
<1>3. KernelOf(r, y) /\ (kind # "readonly" => KernelOf(r, x))
  BY <1>1 DEF KernelOf, Adjusts, Reads
<1>4. kind = "readonly" => Batch(r, k, N, <<y>>)
  BY <1>1, <1>3, OneKernel
<1>5. kind # "readonly" => Batch(r, k, N, <<x, y>>)
  BY <1>1, <1>3, TwoKernels
<1>6. Batch(r, k, N, t)
  BY <1>1, <1>2, <1>4, <1>5, Joined
<1>7. t = <<x, y>> \/ t = <<y>>
  BY <1>1, <1>2, Joined
<1>8. Len(<<x, y>>) = 2 /\ <<x, y>>[2] = y /\ Len(<<y>>) = 1 /\ <<y>>[1] = y
  OBVIOUS
<1>9. Len(t) > 0 /\ t[Len(t)].name \in {"clean", "clear"}
  <2>1. CASE t = <<x, y>>
    <3>1. Len(t) = 2 /\ t[2] = y
      BY <1>8, <2>1
    <3>2. QED
      BY <1>1, <3>1
  <2>2. CASE t = <<y>>
    <3>1. Len(t) = 1 /\ t[1] = y
      BY <1>8, <2>2
    <3>2. QED
      BY <1>1, <3>1
  <2>3. QED
    BY <1>7, <2>1, <2>2
<1>10. QED
  BY <1>6, <1>9 DEF t

\* What a host may launch as it moves.
MayLaunch(r, name) ==
  \/ Returns(r) /\ Call(r).op = "gather" /\ name \in Reads \cup {"collect"}
  \/ Returns(r) /\ Call(r).op = "step" /\ stream[r] = << >> /\ name \in {"update", "step"}
  \/ Waits(r) /\ Call(r).op = "gather" /\ name \in {"update", "choose", "fill"}
  \/ Waits(r) /\ Call(r).op \in {"writeback", "drop"} /\ name \in {"copy", "clean", "clear"}

Launched(r, t) ==
  LET k == done[r] + 1
  IN  /\ stream' = [stream EXCEPT ![r] = @ \o t]
      /\ t \in Seq(KernelSet) /\ Ordered(t) /\ Starts(t)
      /\ \A i \in 1 .. Len(t) : t[i].call = k /\ KernelOf(r, t[i]) /\ MayLaunch(r, t[i].name)
      /\ Returns(r) /\ Call(r).op = "step" /\ Received(k, r) # {} =>
           \E i \in 1 .. Len(t) : t[i].name = "step" /\ t[i].ids = Received(k, r)
      /\ Returns(r) /\ Call(r).op = "gather" /\ kind = "distributed" /\ Received(k, r) # {} =>
           \E i \in 1 .. Len(t) : t[i].name = "read"
      /\ Waits(r) /\ Call(r).op \in {"writeback", "drop"} =>
           Len(t) > 0 /\ t[Len(t)].name \in {"clean", "clear"}

\* The host may launch nothing.
LEMMA NoneLaunched ==
  ASSUME Streams, NEW r \in Rank, UNCHANGED stream, Waits(r) => Call(r).op = "fence",
         Returns(r) => Call(r).op \notin {"gather", "step"}
  PROVE  Launched(r, << >>)
<1>1. stream[r] \in Seq(KernelSet) /\ stream \in [Rank -> Seq(KernelSet)]
  BY DEF Streams
<1>2. stream[r] \o << >> = stream[r]
  BY <1>1, ConcatEmptySeq
<1>3. stream' = [stream EXCEPT ![r] = @ \o << >>]
  BY <1>1, <1>2
<1>4. PICK t : t = << >>
  OBVIOUS
<1>5. t \in Seq(KernelSet) /\ Len(t) = 0 /\ Ordered(t) /\ Starts(t)
  BY <1>4 DEF Ordered, Starts
<1>6. Launched(r, t)
  <2>1. stream' = [stream EXCEPT ![r] = @ \o t]
    BY <1>3, <1>4
  <2>2. \A i \in 1 .. Len(t) : FALSE
    BY <1>5
  <2>3. ~ (Waits(r) /\ Call(r).op \in {"writeback", "drop"})
    OBVIOUS
  <2>4. ~ (Returns(r) /\ Call(r).op = "step") /\ ~ (Returns(r) /\ Call(r).op = "gather")
    OBVIOUS
  <2>5. QED
    BY <1>5, <2>1, <2>2, <2>3, <2>4 DEF Launched
<1>7. QED
  BY <1>4, <1>6

\* A host launches the kernels of its call, if any, and changes nothing else on the device.
LEMMA HostLaunches ==
  ASSUME Control, Streams, NEW r \in Rank, Host(r)
  PROVE  /\ \E t : Launched(r, t)
         /\ UNCHANGED <<reading, storage>>
<1> DEFINE k == done[r] + 1
<1>1. stage[r] # "idle" => Behind(r)
  BY DEF Control, Where
<1>2. Behind(r) => /\ k \in 1 .. Len(program) /\ Call(r) = program[k]
                   /\ program[k].op \in Op /\ program[k].adjust \in BOOLEAN
  BY Calls DEF Control, CallOf
<1>3. Moves(r)
  BY HostMoves
<1>4. Behind(r)
  BY <1>3 DEF Moves
<1>5. UNCHANGED <<reading, storage>>
  BY DEF Host, Exchange, Train, AdjustCache, Gather, WriteBack, Fence, Barrier, AfterBarrier
<1>6. stage'[r] = "idle" => ~ Waits(r)
  BY DEF Waits, Control
<1>7. stage'[r] = "stream" => ~ Returns(r)
  BY DEF Returns, Control
<1>8. stage'[r] \in {"exchange", "barrier"} => ~ Returns(r) /\ ~ Waits(r)
  BY DEF Returns, Waits, Control
<1>9. CASE Exchange(r)
  BY <1>8, <1>9, NoneLaunched DEF Exchange, Enter, Control
<1>10. CASE Train(r)
  <2> DEFINE t == (IF Call(r).adjust THEN UpdateKernels(r, k) ELSE << >>)
                    \o KernelFor("step", k, Received(k, r))
  <2>1. /\ stage[r] = "exchange" /\ Call(r).op = "step" /\ stage'[r] = "idle"
        /\ stream' = [stream EXCEPT ![r] = @ \o t]
    BY <1>10 DEF Train, Through, Launch, Return, Control
  <2>2. Returns(r)
    BY <1>3, <1>6, <2>1 DEF Moves, EntersExchange, EntersBarrier
  <2>3. stream[r] = << >> /\ kind # "readonly"
    BY <1>2, <1>4, <2>1 DEF Streams, Control, Program
  <2>4. /\ Batch(r, k, {"update", "step"}, t)
        /\ Received(k, r) # {} =>
             \E i \in 1 .. Len(t) : t[i].name = "step" /\ t[i].ids = Received(k, r)
    BY <1>2, <1>4, <2>3, StepKernelsFine
  <2> HIDE DEF t
  <2>5. Launched(r, t)
    BY <1>6, <2>1, <2>2, <2>3, <2>4 DEF Launched, MayLaunch, Batch
  <2>6. QED
    BY <1>5, <2>5
<1>11. CASE AdjustCache(r)
  <2>1. /\ stage[r] = "exchange" /\ Call(r).op = "gather" /\ stage'[r] = "stream"
        /\ stream' = [stream EXCEPT ![r] = @ \o UpdateKernels(r, k)]
    BY <1>11 DEF AdjustCache, Through, Launch, WaitForStream, Control
  <2>2. Waits(r)
    BY <1>3, <1>7, <2>1 DEF Moves, EntersExchange, EntersBarrier
  <2>3. Batch(r, k, {"update", "choose", "fill"}, UpdateKernels(r, k))
    BY <1>2, <1>4, UpdateKernelsFine
  <2>4. Launched(r, UpdateKernels(r, k))
    BY <1>7, <2>1, <2>2, <2>3 DEF Launched, MayLaunch, Batch
  <2>5. QED
    BY <1>5, <2>4
<1>12. ASSUME stage'[r] = "idle", Call(r).op = "gather", Returns(r),
              stream' = [stream EXCEPT ![r] = @ \o ReadKernels(r, k)]
       PROVE  Launched(r, ReadKernels(r, k))
  <2>1. /\ Batch(r, k, Reads \cup {"collect"}, ReadKernels(r, k))
        /\ kind = "distributed" /\ Received(k, r) # {} =>
              \E i \in 1 .. Len(ReadKernels(r, k)) : ReadKernels(r, k)[i].name = "read"
    BY <1>2, <1>4, ReadKernelsFine
  <2>2. QED
    BY <1>6, <1>12, <2>1 DEF Launched, MayLaunch, Batch
<1>13. CASE Gather(r)
  <2>1. /\ stage[r] \in {"idle", "exchange"} /\ Call(r).op = "gather" /\ stage'[r] = "idle"
        /\ stream' = [stream EXCEPT ![r] = @ \o ReadKernels(r, k)]
    BY <1>13 DEF Gather, Through, Launch, Return, Control
  <2>2. Returns(r)
    BY <1>3, <1>6, <2>1 DEF Moves, EntersExchange, EntersBarrier, Enter, Control
  <2>3. QED
    BY <1>5, <1>12, <2>1, <2>2
<1>14. CASE WriteBack(r)
  <2>1. Call(r).op \in {"writeback", "drop"} /\ stage[r] = "idle"
    BY <1>14 DEF WriteBack
  <2>2. CASE kind = "readonly" /\ Call(r).op = "writeback"
    <3>1. UNCHANGED stream /\ stage'[r] = "idle"
      BY <1>14, <2>2 DEF WriteBack, Return, Control
    <3>2. QED
      BY <1>5, <1>6, <2>1, <3>1, NoneLaunched
  <2>3. CASE ~ (kind = "readonly" /\ Call(r).op = "writeback")
    <3>1. stage'[r] = "stream" /\ stream' = [stream EXCEPT ![r] = @ \o WriteBackKernels(k)]
      BY <1>14, <2>3 DEF WriteBack, WaitForStream, Launch, Control
    <3>2. Waits(r)
      BY <1>3, <1>7, <2>1, <3>1 DEF Moves, EntersExchange, EntersBarrier, Enter, Control
    <3>3. /\ Batch(r, k, {"copy", "clean", "clear"}, WriteBackKernels(k))
          /\ Len(WriteBackKernels(k)) > 0
          /\ WriteBackKernels(k)[Len(WriteBackKernels(k))].name \in {"clean", "clear"}
      BY <1>2, <1>4, <2>1, <2>3, WriteBackKernelsFine
    <3>4. Launched(r, WriteBackKernels(k))
      BY <1>7, <2>1, <3>1, <3>2, <3>3 DEF Launched, MayLaunch, Batch
    <3>5. QED
      BY <1>5, <3>4
  <2>4. QED
    BY <2>2, <2>3
<1>15. CASE Fence(r)
  BY <1>5, <1>7, <1>15, NoneLaunched DEF Fence, WaitForStream, Control
<1>16. CASE Barrier(r)
  BY <1>5, <1>8, <1>16, NoneLaunched DEF Barrier, Enter, Control
<1>17. CASE AfterBarrier(r)
  <2>1. /\ stage[r] = "barrier" /\ stage'[r] = "idle"
        /\ stream' = [stream EXCEPT ![r] = @ \o IF Call(r).op = "gather" THEN ReadKernels(r, k)
                                                 ELSE << >>]
    BY <1>17 DEF AfterBarrier, Through, Launch, Return, Control
  <2>2. Returns(r)
    BY <1>3, <1>6, <2>1 DEF Moves, EntersExchange, EntersBarrier
  <2>3. CASE Call(r).op = "gather"
    BY <1>5, <1>12, <2>1, <2>2, <2>3
  <2>4. CASE Call(r).op # "gather"
    <3>1. stream \in [Rank -> Seq(KernelSet)] /\ stream[r] \in Seq(KernelSet)
      BY DEF Streams
    <3>2. stream' = [stream EXCEPT ![r] = @ \o << >>]
      BY <2>1, <2>4
    <3>3. stream' = stream
      BY <3>1, <3>2, ConcatEmptySeq
    <3>4. Call(r).op # "step"
      BY <2>1 DEF Control, Where, Barriers
    <3>5. QED
      BY <1>5, <1>6, <2>1, <2>4, <3>3, <3>4, NoneLaunched
  <2>5. QED
    BY <2>3, <2>4
<1>18. QED
  BY <1>5, <1>9, <1>10, <1>11, <1>13, <1>14, <1>15, <1>16, <1>17 DEF Host

\* What is launched is where it belongs.
LEMMA LaunchedPlaced ==
  ASSUME Control, NEW r \in Rank, Moves(r), NEW t, Launched(r, t),
         NEW i \in 1 .. Len(t), NEW x, x = t[i]
  PROVE  Placed(r, x)'
<1>1. /\ x.call = done[r] + 1 /\ KernelOf(r, x) /\ MayLaunch(r, x.name)
  BY DEF Launched
<1>2. KernelOf(r, x)' /\ program' = program
  BY <1>1 DEF Moves, KernelOf, Received, Named
<1>3. /\ done[r] \in Nat /\ Call(r) = program[done[r] + 1]
  BY DEF Control, Call
<1>4. CASE Returns(r)
  <2>1. done'[r] = done[r] + 1 /\ stage'[r] = "idle"
    BY <1>4 DEF Returns, Control
  <2>2. ~ Waits(r)
    BY <2>1 DEF Waits, Control
  <2>3. x.call \in 1 .. done'[r] /\ \A j \in x.call + 1 .. done'[r] : FALSE
    BY <1>1, <1>3, <2>1
  <2>4. QED
    BY <1>1, <1>2, <1>3, <2>1, <2>2, <2>3 DEF Placed, MayLaunch
<1>5. CASE ~ Returns(r)
  <2>1. Waits(r)
    BY <1>1, <1>5 DEF MayLaunch
  <2>2. done'[r] = done[r] /\ stage'[r] = "stream"
    BY <2>1 DEF Waits, Control
  <2>3. QED
    BY <1>1, <1>2, <1>3, <1>5, <2>2 DEF Placed, MayLaunch
<1>6. QED
  BY <1>4, <1>5

\* Launched kernels keep the streams as they must be.
LEMMA HostStreams ==
  ASSUME Control, Streams, NEW r \in Rank, Moves(r), NEW t, Launched(r, t)
  PROVE  Streams'
<1>1. t \in Seq(KernelSet) /\ stream \in [Rank -> Seq(KernelSet)] /\ stream[r] \in Seq(KernelSet)
  BY DEF Launched, Streams
<1>2. stream[r] \o t \in Seq(KernelSet)
  BY <1>1
<1>3. stream' \in [Rank -> Seq(KernelSet)] /\ stream'[r] = stream[r] \o t
  BY <1>1, <1>2 DEF Launched
<1>4. \A q \in Rank : q # r => stream'[q] = stream[q]
  BY <1>1 DEF Launched
<1>5. \A q \in Rank : \A x : On(q, x) => Placed(q, x)'
  BY MovesPlaced
<1>6. \A i \in 1 .. Len(t) : \A x : x = t[i] => Placed(r, x)'
  BY LaunchedPlaced
<1>7. ASSUME NEW x, NEW i \in 1 .. Len(stream'[r]), x = stream'[r][i]
      PROVE  Placed(r, x)'
  <2>1. \/ i \in 1 .. Len(stream[r]) /\ x = stream[r][i]
        \/ i - Len(stream[r]) \in 1 .. Len(t) /\ x = t[i - Len(stream[r])]
    BY <1>1, <1>3, <1>7
  <2>2. QED
    BY <1>5, <1>6, <2>1 DEF On
<1>8. AllPlaced'
  BY <1>4, <1>5, <1>7 DEF AllPlaced, On
<1>9. \A s : Ordered(s)' = Ordered(s)
  BY DEF Ordered, Follows, Moves
<1>10. Ordered(stream[r] \o t)
  <2>1. stream[r] = << >> \/ \A i \in 1 .. Len(t) : t[i].name # "step"
    <3>1. ASSUME NEW i \in 1 .. Len(t), t[i].name = "step" PROVE stream[r] = << >>
      BY <3>1 DEF Launched, MayLaunch, Reads
    <3>2. QED
      BY <3>1
  <2>2. Ordered(stream[r]) /\ Ordered(t) /\ Starts(t)
    BY DEF Streams, Launched
  <2>3. QED
    BY <1>1, <2>1, <2>2, OrderedAppend
<1>11. \A q \in Rank : Ordered(stream[q])
  BY DEF Streams
<1>12. ASSUME NEW q \in Rank, stage'[q] \in {"exchange", "barrier"}
       PROVE  stream'[q] = << >>
  <2>1. CASE q = r
    <3>1. ~ Waits(r) /\ ~ Returns(r)
      BY <1>12, <2>1 DEF Waits, Returns, Control
    <3>2. stream[r] = << >>
      BY <3>1 DEF Moves, EntersExchange, EntersBarrier
    <3>3. Len(t) = 0
      <4>1. \A i \in 1 .. Len(t) : FALSE
        BY <3>1 DEF Launched, MayLaunch
      <4>2. Len(t) \in Nat
        BY <1>1
      <4>3. QED
        BY <4>1, <4>2
    <3>4. QED
      BY <1>1, <1>3, <2>1, <3>2, <3>3
  <2>2. CASE q # r
    <3>1. stage'[q] = stage[q]
      BY <2>2 DEF Control, Moves, EntersExchange, EntersBarrier, Waits, Returns, Enter
    <3>2. QED
      BY <1>12, <1>4, <2>2, <3>1 DEF Streams
  <2>3. QED
    BY <2>1, <2>2
<1>13. \A q \in Rank : Ordered(stream'[q])
  BY <1>3, <1>4, <1>10, <1>11
<1>14. QED
  BY <1>3, <1>8, <1>9, <1>12, <1>13 DEF Streams

\* What the stream of a rank does.
Ends(r) == stream[r] # << >> /\ stream' = [stream EXCEPT ![r] = Tail(@)]

Shrinks(r, e) ==
  /\ stream[r] # << >> /\ stream[r][1].name = "step" /\ e \in stream[r][1].ids
  /\ stream[r][1].ids # {e}
  /\ stream' = [stream EXCEPT ![r][1].ids = @ \ {e}]

\* A step of a stream ends its first kernel, or one block of it, or changes only what it reads.
LEMMA DeviceRuns ==
  ASSUME Streams, NEW r \in Rank, Device(r)
  PROVE  /\ UNCHANGED host
         /\ UNCHANGED stream \/ Ends(r) \/ \E e : Shrinks(r, e)
<1>1. stream[r] # << >> => Head(stream[r]) = stream[r][1]
  BY DEF Streams
<1>2. CASE RunUpdate(r)
  BY <1>2 DEF RunUpdate, Runs, Ended, Ends
<1>3. CASE RunChoose(r)
  BY <1>3 DEF RunChoose, Runs, Ended, Ends
<1>4. CASE RunFill(r)
  BY <1>4 DEF RunFill, Runs, Ended, Ends
<1>5. CASE RunStep(r)
  BY <1>1, <1>5 DEF RunStep, Runs, Now, Ended, Ends, Shrinks
<1>6. CASE RunCopy(r)
  BY <1>6 DEF RunCopy, Runs, Ended, Ends
<1>7. CASE RunStoreTags(r)
  BY <1>7 DEF RunStoreTags, Runs, Ended, Ends
<1>8. CASE \E e \in Entry : LoadTag(r, e)
  BY <1>8 DEF LoadTag
<1>9. CASE \E e \in Entry : ReadRow(r, e)
  BY <1>9 DEF ReadRow, Runs, Ended, Ends
<1>10. CASE \E e \in Entry : TryRow(r, e)
  BY <1>10 DEF TryRow, Runs, Ended, Ends
<1>11. CASE RunFetch(r)
  BY <1>11 DEF RunFetch, Runs, Ended, Ends
<1>12. CASE Collect(r)
  BY <1>12 DEF Collect, Runs, Ended, Ends
<1>13. QED
  BY <1>2, <1>3, <1>4, <1>5, <1>6, <1>7, <1>8, <1>9, <1>10, <1>11, <1>12 DEF Device

\* The stream after that.
LEMMA AfterEnd ==
  ASSUME Streams, NEW r \in Rank, Ends(r)
  PROVE  /\ stream' \in [Rank -> Seq(KernelSet)] /\ Len(stream[r]) \in Nat /\ Len(stream[r]) > 0
         /\ stream'[r] = Tail(stream[r]) /\ Len(stream'[r]) = Len(stream[r]) - 1
         /\ \A i \in 1 .. Len(stream'[r]) : /\ i + 1 \in 1 .. Len(stream[r])
                                            /\ stream'[r][i] = stream[r][i + 1]
         /\ \A q \in Rank : q # r => stream'[q] = stream[q]
<1>1. stream \in [Rank -> Seq(KernelSet)] /\ stream[r] \in Seq(KernelSet) /\ stream[r] # << >>
  BY DEF Streams, Ends
<1>2. Tail(stream[r]) \in Seq(KernelSet)
  BY <1>1
<1>3. stream' \in [Rank -> Seq(KernelSet)] /\ stream'[r] = Tail(stream[r])
      /\ \A q \in Rank : q # r => stream'[q] = stream[q]
  BY <1>1, <1>2 DEF Ends
<1>4. PICK s \in Seq(KernelSet) : s = stream[r] /\ s # << >>
  BY <1>1
<1>5. /\ Len(s) \in Nat /\ Len(s) > 0 /\ Len(Tail(s)) = Len(s) - 1
      /\ \A i \in 1 .. Len(Tail(s)) : i + 1 \in 1 .. Len(s) /\ Tail(s)[i] = s[i + 1]
  BY <1>4
<1>6. QED
  BY <1>3, <1>4, <1>5

\* What is on a stream when a block of its first kernel has ended.
LEMMA AfterShrink ==
  ASSUME Streams, NEW r \in Rank, NEW e, Shrinks(r, e)
  PROVE  /\ stream' \in [Rank -> Seq(KernelSet)] /\ Len(stream[r]) \in Nat /\ Len(stream[r]) > 0
         /\ Len(stream'[r]) = Len(stream[r])
         /\ stream'[r][1] = [stream[r][1] EXCEPT !.ids = @ \ {e}]
         /\ stream[r][1] \in KernelSet
         /\ \A i \in 1 .. Len(stream'[r]) : i # 1 => stream'[r][i] = stream[r][i]
         /\ \A q \in Rank : q # r => stream'[q] = stream[q]
<1>1. stream \in [Rank -> Seq(KernelSet)] /\ stream[r] \in Seq(KernelSet) /\ stream[r] # << >>
  BY DEF Streams, Shrinks
<1>2. PICK s \in Seq(KernelSet) : s = stream[r] /\ s # << >>
  BY <1>1
<1>3. Len(s) \in Nat /\ Len(s) > 0 /\ 1 \in 1 .. Len(s) /\ s[1] \in KernelSet
  BY <1>2
<1>4. PICK x : x = [s[1] EXCEPT !.ids = @ \ {e}]
  OBVIOUS
<1>5. x \in KernelSet
  BY <1>3, <1>4 DEF KernelSet
<1>6. PICK t : t = [s EXCEPT ![1] = x]
  OBVIOUS
<1>7. t \in Seq(KernelSet) /\ Len(t) = Len(s) /\ t[1] = x
      /\ \A i \in 1 .. Len(s) : i # 1 => t[i] = s[i]
  BY <1>2, <1>3, <1>5, <1>6, ExceptSeq
<1>8. stream' = [stream EXCEPT ![r] = t]
  BY <1>2, <1>4, <1>6 DEF Shrinks
<1>9. stream' \in [Rank -> Seq(KernelSet)] /\ stream'[r] = t
      /\ \A q \in Rank : q # r => stream'[q] = stream[q]
  BY <1>1, <1>7, <1>8
<1>10. QED
  BY <1>2, <1>3, <1>4, <1>7, <1>9

\* Kernels that end keep the streams as they must be.
LEMMA DeviceStreams ==
  ASSUME Control, Streams, NEW r \in Rank, UNCHANGED host,
         UNCHANGED stream \/ Ends(r) \/ \E e : Shrinks(r, e)
  PROVE  Streams'
<1>1. \A q, x : Placed(q, x)' <=> Placed(q, x)
  BY SamePlaced
<1>2. \A s : Ordered(s)' <=> Ordered(s)
  BY DEF host, Ordered, Follows
<1>3. stage' = stage
  BY DEF host
<1>4. CASE UNCHANGED stream
  BY <1>1, <1>2, <1>3, <1>4 DEF Streams, AllPlaced, On
<1>5. CASE Ends(r)
  <2>1. \A q \in Rank : \A x : On(q, x)' => On(q, x)
    BY <1>5, AfterEnd DEF On
  <2>2. \A q \in Rank : Ordered(stream'[q])
    BY <1>5, AfterEnd, OrderedTail DEF Ends, Streams
  <2>3. \A q \in Rank : stream'[q] # << >> => stream[q] # << >>
    BY <1>5, AfterEnd
  <2>4. QED
    BY <1>1, <1>2, <1>3, <1>5, <2>1, <2>2, <2>3, AfterEnd DEF Streams, AllPlaced
<1>6. CASE \E e : Shrinks(r, e)
  <2>1. PICK e : Shrinks(r, e)
    BY <1>6
  <2>2. PICK x \in KernelSet : x = stream[r][1]
    BY <2>1, AfterShrink
  <2>3. PICK y : y = [x EXCEPT !.ids = @ \ {e}]
    OBVIOUS
  <2>4. /\ y.name = x.name /\ y.call = x.call /\ y.ids = x.ids \ {e} /\ x.name = "step"
        /\ y.ids # {}
    BY <2>1, <2>2, <2>3 DEF KernelSet, Shrinks
  <2>5. Placed(r, x)
    <3>1. On(r, x)
      <4>1. Len(stream[r]) \in Nat /\ Len(stream[r]) > 0
        BY <2>1, AfterShrink
      <4>2. QED
        BY <2>2, <4>1 DEF On
    <3>2. QED
      BY <3>1 DEF Streams, AllPlaced
  <2>6. Placed(r, y)
    BY <2>4, <2>5 DEF Placed, KernelOf, Adjusts, Reads
  <2>7. \A q \in Rank : \A z : On(q, z)' => On(q, z) \/ (q = r /\ z = y)
    BY <2>1, <2>2, <2>3, AfterShrink DEF On
  <2>8. AllPlaced'
    BY <1>1, <2>6, <2>7 DEF AllPlaced, Streams
  <2>9. Ordered(stream'[r])
    <3>1. \A i \in 1 .. Len(stream[r]) : /\ stream'[r][i].name = stream[r][i].name
                                         /\ stream'[r][i].call = stream[r][i].call
      <4>1. stream'[r][1] = y
        BY <2>1, <2>2, <2>3, AfterShrink
      <4>2. \A i \in 1 .. Len(stream[r]) : i # 1 => stream'[r][i] = stream[r][i]
        BY <2>1, AfterShrink
      <4>3. QED
        BY <2>2, <2>4, <4>1, <4>2
    <3>2. QED
      BY <2>1, <3>1, AfterShrink, OrderedAlike DEF Streams
  <2>10. \A q \in Rank : Ordered(stream'[q])
    BY <2>1, <2>9, AfterShrink DEF Streams
  <2>11. stage[r] \notin {"exchange", "barrier"}
    BY <2>1 DEF Shrinks, Streams
  <2>12. QED
    BY <1>2, <1>3, <2>1, <2>8, <2>10, <2>11, AfterShrink DEF Streams
<1>7. QED
  BY <1>4, <1>5, <1>6

\* A new call has no kernels yet.
LEMMA IssueStreams ==
  ASSUME Control, Streams, NEW op \in Op, NEW adjust \in BOOLEAN,
         NEW batch \in [Rank -> SUBSET Entry], Issue(op, adjust, batch)
  PROVE  Streams'
<1>1. /\ Len(program) \in Nat
      /\ \A k \in 1 .. Len(program) : program'[k] = program[k]
      /\ \A c : Exchanges(c)' = Exchanges(c) /\ Barriers(c)' = Barriers(c)
      /\ \A r \in Rank : Behind(r) => Call(r)' = Call(r)
  BY Issued
<1>2. kind' = kind /\ stream' = stream /\ stage' = stage /\ done' = done
  BY DEF Issue
<1>3. ASSUME NEW r \in Rank, NEW x, Placed(r, x) PROVE Placed(r, x)'
  <2>1. done[r] \in Nat /\ done[r] <= Len(program) /\ (stage[r] # "idle" => Behind(r))
    BY DEF Control, Where
  <2>2. x.call \in 1 .. Len(program)
    BY <1>1, <1>3, <2>1 DEF Placed, Behind
  <2>3. KernelOf(r, x)'
    <3>1. program'[x.call] = program[x.call] /\ KernelOf(r, x)
      BY <1>1, <1>3, <2>2 DEF Placed
    <3>2. Received(x.call, r)' = Received(x.call, r)
      BY <3>1 DEF Received, Named
    <3>3. QED
      BY <1>2, <3>1, <3>2 DEF KernelOf
  <2>4. \A j \in 1 .. done[r] : program'[j] = program[j]
    BY <1>1, <2>1
  <2>5. CASE x.call \in 1 .. done[r]
    <3>1. \A j \in x.call + 1 .. done[r] : j \in 1 .. done[r]
      BY <2>1, <2>5
    <3>2. /\ stage[r] = "stream" => ~ Exchanges(Call(r)) /\ Behind(r)
          /\ \A j \in x.call + 1 .. done[r] : Quiet(program[j])
          /\ \/ program[x.call].op = "gather" /\ x.name \in Reads \cup {"collect"}
             \/ program[x.call].op = "step" /\ x.name \in {"update", "step"}
      BY <1>3, <2>1, <2>5 DEF Placed
    <3>3. \A j \in x.call + 1 .. done[r] : Quiet(program[j])'
      BY <1>1, <2>4, <3>1, <3>2 DEF Quiet
    <3>4. stage[r] = "stream" => ~ Exchanges(Call(r))'
      BY <1>1, <3>2
    <3>5. program'[x.call] = program[x.call]
      BY <2>4, <2>5
    <3>6. QED
      BY <1>2, <2>3, <2>5, <3>2, <3>3, <3>4, <3>5 DEF Placed
  <2>6. CASE x.call \notin 1 .. done[r]
    BY <1>1, <1>2, <1>3, <2>2, <2>3, <2>6 DEF Placed
  <2>7. QED
    BY <2>5, <2>6
<1>4. AllPlaced'
  BY <1>2, <1>3 DEF Streams, AllPlaced, On
<1>5. QED
  BY <1>2, <1>4 DEF Streams, Ordered, Follows

\* At first there are no kernels.
LEMMA InitStreams == Init => Streams
BY DEF Init, Streams, AllPlaced, On, Ordered

-----------------------------------------------------------------------------
(***************************************************************************)
(* A kernel that reads does not meet one that changes what it reads.       *)
(***************************************************************************)
\* Where a rank can be while a kernel of its reads.
LEMMA ReadingAt ==
  ASSUME Control, Streams, NEW r \in Rank, NEW x, On(r, x), x.name \in Reads
  PROVE  /\ x.call \in 1 .. done[r] /\ x.call \in 1 .. Len(program) /\ done[r] \in Nat
         /\ program[x.call].op = "gather" /\ KernelOf(r, x)
         /\ stage[r] \in {"idle", "stream"} /\ (stage[r] = "stream" => ~ Exchanges(Call(r)))
         /\ \A j \in x.call + 1 .. done[r] : Quiet(program[j])
<1>1. Placed(r, x) /\ stage[r] \notin {"exchange", "barrier"}
  BY DEF Streams, AllPlaced, On
<1>2. stage[r] \in {"idle", "stream"} /\ done[r] \in Nat /\ done[r] <= Len(program)
  BY <1>1 DEF Control, Where
<1>3. QED
  BY <1>1, <1>2, Calls DEF Placed, Reads, Control

\* No rank gets past the exchange of a later call while a kernel reads: the rank of that kernel
\* waits for it first.
LEMMA NoLater ==
  ASSUME Control, Lockstep, Streams, NEW r \in Rank, NEW x, On(r, x), x.name \in Reads,
         NEW j \in 1 .. Len(program), j > x.call, Exchanges(program[j]), NEW q \in Rank
  PROVE  ~ PastExchange(q, j)
<1> SUFFICES ASSUME PastExchange(q, j) PROVE FALSE
  OBVIOUS
<1>1. AtExchange(r, j)
  BY DEF Lockstep, Together
<1>2. /\ x.call \in 1 .. done[r] /\ done[r] \in Nat
      /\ stage[r] \in {"idle", "stream"} /\ (stage[r] = "stream" => ~ Exchanges(Call(r)))
      /\ \A k \in x.call + 1 .. done[r] : Quiet(program[k])
  BY ReadingAt
<1>3. CASE done[r] >= j
  <2>1. j \in x.call + 1 .. done[r]
    BY <1>2, <1>3
  <2>2. QED
    BY <1>2, <2>1 DEF Quiet
<1>4. CASE done[r] = j - 1 /\ stage[r] # "idle"
  BY <1>2, <1>4 DEF Call
<1>5. QED
  BY <1>1, <1>3, <1>4 DEF AtExchange

\* The steps before a gather have ended where it reads.
LEMMA EarlierEnded ==
  ASSUME Control, Lockstep, Streams, NEW r \in Rank, NEW x, On(r, x), x.name \in Reads,
         NEW j \in 1 .. Len(program), j < x.call, program[j].op = "step",
         NEW q \in Rank, kind = "distributed" => q = r
  PROVE  /\ done[q] >= j
         /\ \A y : On(q, y) => y.call # j
<1> DEFINE c == x.call
<1>1. /\ c \in 1 .. done[r] /\ c \in 1 .. Len(program) /\ done[r] \in Nat
      /\ program[c].op = "gather" /\ done[q] \in Nat
  BY ReadingAt DEF Control
<1>2. /\ stage[q] = "barrier" => stream[q] = << >>
      /\ \A y : On(q, y) => Placed(q, y)
  BY DEF Streams, AllPlaced
<1>3. kind # "readonly"
  BY DEF Control, Program
<1>4. ASSUME NEW b \in j + 1 .. c, ~ Quiet(program[b]), done[q] >= b \/ (done[q] = b - 1 /\ stage[q] = "barrier")
      PROVE  /\ done[q] >= j
             /\ \A y : On(q, y) => y.call # j
  <2>1. done[q] >= j
    BY <1>1, <1>4
  <2>2. ASSUME NEW y, On(q, y), y.call = j PROVE FALSE
    <3>1. Placed(q, y) /\ stage[q] # "barrier"
      BY <1>2, <2>2 DEF On
    <3>2. b \in j + 1 .. done[q]
      BY <1>1, <1>4, <3>1
    <3>3. QED
      BY <1>1, <1>4, <2>1, <2>2, <3>1, <3>2 DEF Placed
  <2>3. QED
    BY <2>1, <2>2
<1>5. CASE kind = "distributed"
  <2>1. c \in j + 1 .. c /\ ~ Quiet(program[c]) /\ done[q] >= c
    BY <1>1, <1>5 DEF Quiet, Exchanges
  <2>2. QED
    BY <1>4, <2>1
<1>6. CASE kind = "shared"
  <2>1. PICK b \in j + 1 .. c : Barriers(program[b])
    <3>1. CASE program[c].adjust
      BY <1>1, <3>1 DEF Barriers
    <3>2. CASE ~ program[c].adjust
      <4>1. PICK s \in j + 1 .. c - 1 : Settles(program[s])
        BY <1>1, <1>6, <3>2 DEF Control, Program
      <4>2. s \in j + 1 .. c
        BY <1>1, <4>1
      <4>3. QED
        BY <1>3, <4>1, <4>2 DEF Settles, Barriers
    <3>3. QED
      BY <3>1, <3>2
  <2>2. b \in 1 .. Len(program) /\ done[r] >= b
    BY <1>1, <2>1
  <2>3. AtBarrier(q, b)
    BY <2>1, <2>2 DEF Lockstep, Together
  <2>4. QED
    BY <1>4, <2>1, <2>3 DEF AtBarrier, Quiet
<1>7. QED
  BY <1>3, <1>5, <1>6 DEF Control

\* While a kernel reads, no kernel that loads, evicts or trains is on the stream of a rank
\* whose lines it reads.
LEMMA Apart ==
  ASSUME Control, Lockstep, Streams, NEW r \in Rank, NEW x, On(r, x), x.name \in Reads,
         NEW q \in Rank, NEW y, On(q, y), kind = "distributed" => q = r
  PROVE  y.name \notin Adjusts
<1> SUFFICES ASSUME y.name \in Adjusts PROVE FALSE
  OBVIOUS
<1> DEFINE c == x.call
           j == y.call
<1>1. /\ c \in 1 .. done[r] /\ c \in 1 .. Len(program) /\ done[r] \in Nat
      /\ program[c].op = "gather" /\ done[q] \in Nat /\ done[q] <= Len(program)
  BY ReadingAt DEF Control, Where
<1>2. Placed(q, y) /\ (stage[q] = "stream" => Barriers(Call(q)) /\ Behind(q))
  BY DEF Streams, AllPlaced, Control, Where
<1>3. \/ j \in 1 .. done[q] /\ program[j].op = "step"
      \/ j = done[q] + 1 /\ stage[q] = "stream" /\ program[j].op = "gather"
  BY <1>2 DEF Placed, Adjusts, Reads
<1>4. j \in 1 .. Len(program)
  BY <1>1, <1>2, <1>3, Calls DEF Control
<1>5. Exchanges(program[j]) /\ PastExchange(q, j)
  <2>1. program[j].op = "gather" => program[j].adjust
    BY <1>2, <1>3 DEF Barriers, Call
  <2>2. QED
    BY <1>1, <1>3, <2>1 DEF Exchanges, PastExchange
<1>6. ~ (j > c)
  BY <1>4, <1>5, NoLater
<1>7. j < c => program[j].op # "step"
  BY <1>4, EarlierEnded
<1>8. j = done[q] + 1 /\ stage[q] = "stream" /\ j <= c
  BY <1>1, <1>3, <1>4, <1>6, <1>7
<1>9. Barriers(program[j]) /\ done[r] >= j
  BY <1>1, <1>2, <1>4, <1>8 DEF Call
<1>10. AtBarrier(q, j)
  BY <1>4, <1>9 DEF Lockstep, Together
<1>11. QED
  BY <1>1, <1>8, <1>10 DEF AtBarrier

-----------------------------------------------------------------------------
(***************************************************************************)
(* The lines and the raw embedding.                                        *)
(***************************************************************************)
Tag == [id : Entry \cup {"none"}, modified : BOOLEAN]

HeadIn(r, names) == stream[r] # << >> /\ stream[r][1].name \in names

\* A line that is not modified, or that has been written back, has what the raw
\* embedding has, unless its row has yet to come.
LineOk(r) ==
  /\ tag[r].id # "none" => Owner[tag[r].id] = r
  /\ tag[r].modified => tag[r].id # "none" /\ kind # "readonly"
  /\ tag[r].id # "none"
       => \/ tag[r].modified /\ ~ HeadIn(r, {"clean", "clear"})
          \/ Filling(r)
          \/ data[r] = mem[tag[r].id]
  /\ HeadIn(r, {"fill"}) => tag[r].id # "none"

Lines ==
  /\ mem \in [Entry -> Row] /\ tag \in [Rank -> Tag] /\ data \in [Rank -> Row]
  /\ \A r \in Rank : LineOk(r)
  /\ kind = "readonly" => \A e \in Entry : mem[e] = <<e, 0>>

\* Filling, by places on the stream ...
LEMMA FillingIs ==
  ASSUME Streams, NEW r \in Rank
  PROVE  Filling(r) <=> \E i \in 1 .. Len(stream[r]) : stream[r][i].name = "fill"
<1>1. stream[r] \in Seq(KernelSet)
  BY DEF Streams
<1>2. DOMAIN stream[r] = 1 .. Len(stream[r])
  BY <1>1
<1>3. QED
  BY <1>2 DEF Filling

\* What the head of a stream tells of the next one.
LEMMA NextHead ==
  ASSUME Streams, Streams', NEW r \in Rank, Ends(r), UNCHANGED kind
  PROVE  LET name == stream[r][1].name
         IN  /\ HeadIn(r, {"fill"})' => name = "choose"
             /\ HeadIn(r, {"fetch"})' => name = "try"
             /\ HeadIn(r, {"clean", "clear"})' /\ kind # "readonly" => name = "copy"
             /\ Filling(r) /\ name # "fill" => Filling(r)'
             /\ name = "choose" => Filling(r)'
             /\ name = "try" => HeadIn(r, {"fetch"})' /\ stream'[r][1].call = stream[r][1].call
             /\ \A q \in Rank : q # r => Filling(q)' = Filling(q)
<1>1. /\ Len(stream[r]) \in Nat /\ Len(stream[r]) > 0
      /\ stream'[r] = Tail(stream[r]) /\ Len(stream'[r]) = Len(stream[r]) - 1
      /\ \A i \in 1 .. Len(stream'[r]) : /\ i + 1 \in 1 .. Len(stream[r])
                                         /\ stream'[r][i] = stream[r][i + 1]
      /\ \A q \in Rank : q # r => stream'[q] = stream[q]
      /\ stream' \in [Rank -> Seq(KernelSet)]
  BY AfterEnd
<1>2. stream'[r] # << >> => 2 \in 1 .. Len(stream[r]) /\ stream'[r][1] = stream[r][2]
  <2>1. stream'[r] \in Seq(KernelSet)
    BY <1>1
  <2>2. stream'[r] # << >> => Len(stream'[r]) > 0 /\ Len(stream'[r]) \in Nat
    BY <2>1
  <2>3. QED
    BY <1>1, <2>2
<1>3. /\ Follows(stream[r], 1)
      /\ 2 \in 1 .. Len(stream[r]) => Follows(stream[r], 2)
  BY <1>1 DEF Streams, Ordered
<1>4. \A i \in 1 .. Len(stream[r]) : i # 1 => i - 1 \in 1 .. Len(stream'[r]) /\ (i - 1) + 1 = i
  BY <1>1
<1>5. Filling(r)' <=> \E i \in 1 .. Len(stream'[r]) : stream'[r][i].name = "fill"
  <2>1. DOMAIN stream'[r] = 1 .. Len(stream'[r])
    BY <1>1
  <2>2. QED
    BY <2>1 DEF Filling
<1>6. Filling(r) /\ stream[r][1].name # "fill" => Filling(r)'
  <2>1. SUFFICES ASSUME Filling(r), stream[r][1].name # "fill" PROVE Filling(r)'
    OBVIOUS
  <2>2. PICK i \in 1 .. Len(stream[r]) : stream[r][i].name = "fill"
    BY <2>1, FillingIs
  <2>3. i # 1
    BY <2>1, <2>2
  <2>4. stream'[r][i - 1].name = "fill" /\ i - 1 \in 1 .. Len(stream'[r])
    BY <1>1, <1>4, <2>2, <2>3
  <2>5. QED
    BY <1>5, <2>4
<1>7. stream[r][1].name = "choose" => Filling(r)'
  <2>1. SUFFICES ASSUME stream[r][1].name = "choose" PROVE Filling(r)'
    OBVIOUS
  <2>2. 2 \in 1 .. Len(stream[r]) /\ stream[r][2].name = "fill"
    BY <1>3, <2>1 DEF Follows
  <2>3. stream'[r][1].name = "fill" /\ 1 \in 1 .. Len(stream'[r])
    BY <1>1, <2>2
  <2>4. QED
    BY <1>5, <2>3
<1>8. stream[r][1].name = "try" => HeadIn(r, {"fetch"})' /\ stream'[r][1].call = stream[r][1].call
  <2>1. SUFFICES ASSUME stream[r][1].name = "try"
                 PROVE  HeadIn(r, {"fetch"})' /\ stream'[r][1].call = stream[r][1].call
    OBVIOUS
  <2>2. /\ 2 \in 1 .. Len(stream[r]) /\ stream[r][2].name = "fetch"
        /\ stream[r][2].call = stream[r][1].call
    BY <1>3, <2>1 DEF Follows
  <2>3. stream'[r][1] = stream[r][2] /\ Len(stream'[r]) > 0
    BY <1>1, <2>2
  <2>4. stream'[r] # << >>
    BY <2>3
  <2>5. QED
    BY <2>2, <2>3, <2>4 DEF HeadIn
<1>9. /\ HeadIn(r, {"fill"})' => stream[r][1].name = "choose"
      /\ HeadIn(r, {"fetch"})' => stream[r][1].name = "try"
      /\ HeadIn(r, {"clean", "clear"})' /\ kind # "readonly" => stream[r][1].name = "copy"
  BY <1>2, <1>3 DEF HeadIn, Follows
<1>10. \A q \in Rank : q # r => Filling(q)' = Filling(q)
  BY <1>1 DEF Filling
<1>11. QED
  BY <1>6, <1>7, <1>8, <1>9, <1>10

\* While the storage is left as it is, only the streams matter.
LEMMA LinesKept ==
  ASSUME Lines, UNCHANGED <<kind, storage>>,
         \A q \in Rank : /\ Filling(q) => Filling(q)'
                         /\ HeadIn(q, {"fill"})' => tag[q].id # "none"
                         /\ HeadIn(q, {"clean", "clear"})' /\ kind # "readonly"
                              => HeadIn(q, {"clean", "clear"})
  PROVE  Lines'
<1>1. kind' = kind /\ mem' = mem /\ tag' = tag /\ data' = data
  BY DEF storage
<1>2. ASSUME NEW q \in Rank PROVE LineOk(q)'
  <2>1. LineOk(q)
    BY DEF Lines
  <2>2. QED
    BY <1>1, <2>1 DEF LineOk
<1>3. QED
  BY <1>1, <1>2 DEF Lines

\* A launched kernel does not change which one runs, unless none did.
LEMMA HostHeads ==
  ASSUME Streams, Streams', NEW r \in Rank, NEW t, Launched(r, t)
  PROVE  /\ \A q \in Rank : /\ stream[q] # << >> => stream'[q] # << >> /\ stream'[q][1] = stream[q][1]
                            /\ q # r => stream'[q] = stream[q]
                            /\ \A x : On(q, x) => On(q, x)'
         /\ stream[r] = << >> => stream'[r] = t
         /\ stream'[r] = stream[r] \o t
         /\ \A x : On(r, x)' => On(r, x) \/ \E i \in 1 .. Len(t) : x = t[i]
         /\ \A i \in 1 .. Len(t) : \A x : x = t[i] => On(r, x)'
<1>1. /\ stream \in [Rank -> Seq(KernelSet)] /\ stream[r] \in Seq(KernelSet) /\ t \in Seq(KernelSet)
      /\ stream' = [stream EXCEPT ![r] = @ \o t]
  BY DEF Streams, Launched
<1>2. PICK s \in Seq(KernelSet) : s = stream[r]
  BY <1>1
<1>3. PICK z : z = s \o t
  OBVIOUS
<1>4. /\ z \in Seq(KernelSet) /\ Len(s) \in Nat /\ Len(t) \in Nat /\ Len(z) = Len(s) + Len(t)
      /\ \A i \in 1 .. Len(s) : z[i] = s[i]
      /\ \A i \in 1 .. Len(t) : z[Len(s) + i] = t[i]
  BY <1>2, <1>1, <1>3
<1>5. stream'[r] = z /\ \A q \in Rank : q # r => stream'[q] = stream[q]
  BY <1>1, <1>2, <1>3
<1>6. s # << >> => z # << >> /\ z[1] = s[1]
  <2>1. s # << >> => 1 \in 1 .. Len(s)
    BY <1>2
  <2>2. s # << >> => Len(z) # 0
    BY <1>4, <2>1
  <2>3. QED
    BY <1>4, <2>1, <2>2
<1>7. s = << >> => z = t
  BY <1>1, <1>3, ConcatEmptySeq
<1>8. \A i \in 1 .. Len(s) : i \in 1 .. Len(z)
  BY <1>4
<1>9. \A i \in 1 .. Len(t) : Len(s) + i \in 1 .. Len(z)
  BY <1>4
<1>10. \A i \in 1 .. Len(z) : i \in 1 .. Len(s) \/ (i - Len(s) \in 1 .. Len(t) /\ Len(s) + (i - Len(s)) = i)
  BY <1>4
<1>11. ASSUME NEW x, On(r, x)' PROVE On(r, x) \/ \E i \in 1 .. Len(t) : x = t[i]
  <2>1. PICK i \in 1 .. Len(z) : x = z[i]
    BY <1>5, <1>11 DEF On
  <2>2. CASE i \in 1 .. Len(s)
    BY <1>2, <1>4, <2>1, <2>2 DEF On
  <2>3. CASE i \notin 1 .. Len(s)
    <3>1. i - Len(s) \in 1 .. Len(t) /\ z[Len(s) + (i - Len(s))] = z[i]
      BY <1>10, <2>3
    <3>2. t[i - Len(s)] = x
      BY <1>4, <2>1, <3>1
    <3>3. QED
      BY <3>1, <3>2
  <2>4. QED
    BY <2>2, <2>3
<1>12. \A i \in 1 .. Len(t) : \A x : x = t[i] => On(r, x)'
  BY <1>4, <1>5, <1>9 DEF On
<1>13. \A q \in Rank : \A x : On(q, x) => On(q, x)'
  BY <1>2, <1>4, <1>5, <1>8 DEF On
<1>14. QED
  BY <1>2, <1>3, <1>5, <1>6, <1>7, <1>11, <1>12, <1>13

\* ... and by kernels.
LEMMA FillingOn ==
  ASSUME Streams, NEW r \in Rank
  PROVE  Filling(r) <=> \E x : On(r, x) /\ x.name = "fill"
BY FillingIs DEF On

\* Lines do not change when a host moves.
LEMMA HostLines ==
  ASSUME Streams, Streams', Lines, NEW r \in Rank, Moves(r), NEW t, Launched(r, t), UNCHANGED storage
  PROVE  Lines'
<1>1. kind' = kind
  BY DEF Moves
<1>2. ASSUME NEW q \in Rank
      PROVE  /\ Filling(q) => Filling(q)'
             /\ HeadIn(q, {"fill"})' => tag[q].id # "none"
             /\ HeadIn(q, {"clean", "clear"})' /\ kind # "readonly" => HeadIn(q, {"clean", "clear"})
  <2>1. Filling(q)' <=> (\E i \in 1 .. Len(stream'[q]) : stream'[q][i].name = "fill")
    <3>1. stream'[q] \in Seq(KernelSet)
      BY DEF Streams
    <3>2. DOMAIN stream'[q] = 1 .. Len(stream'[q])
      BY <3>1
    <3>3. QED
      BY <3>2 DEF Filling
  <2>2. Filling(q) => Filling(q)'
    BY <2>1, FillingOn, HostHeads DEF On
  <2>3. CASE stream[q] # << >>
    <3>1. stream'[q] # << >> /\ stream'[q][1] = stream[q][1]
      BY <2>3, HostHeads
    <3>2. LineOk(q)
      BY DEF Lines
    <3>3. QED
      BY <2>2, <2>3, <3>1, <3>2 DEF HeadIn, LineOk
  <2>4. CASE stream[q] = << >>
    <3>1. CASE q # r
      BY <2>2, <2>4, <3>1, HostHeads DEF HeadIn
    <3>2. CASE q = r
      <4>1. stream'[r] = t
        BY <2>4, <3>2, HostHeads
      <4>2. stream'[q] = t /\ t \in Seq(KernelSet)
        BY <3>2, <4>1 DEF Launched
      <4>3. t # << >> => Len(t) > 0
        BY <4>2
      <4>4. QED
        BY <2>2, <4>2, <4>3 DEF HeadIn, Launched, Starts
    <3>3. QED
      BY <3>1, <3>2
  <2>5. QED
    BY <2>3, <2>4
<1>3. QED
  BY <1>1, <1>2, LinesKept DEF storage

\* Nor when a call is issued.
LEMMA IssueLines ==
  ASSUME Lines, UNCHANGED <<kind, stream, storage>>
  PROVE  Lines'
<1>1. \A q \in Rank : Filling(q)' = Filling(q)
  BY DEF Filling
<1>2. \A q, names : HeadIn(q, names)' = HeadIn(q, names)
  BY DEF HeadIn
<1>3. \A q \in Rank : LineOk(q)
  BY DEF Lines
<1>4. QED
  BY <1>1, <1>2, <1>3, LinesKept DEF LineOk

-----------------------------------------------------------------------------
\* A kernel of r changes only the line of r and what r owns.
LEMMA OwnLine ==
  ASSUME Lines, NEW r \in Rank, UNCHANGED kind,
         \A q \in Rank : q # r => stream'[q] = stream[q] /\ tag'[q] = tag[q] /\ data'[q] = data[q],
         mem' \in [Entry -> Row], tag' \in [Rank -> Tag], data' \in [Rank -> Row],
         \A f \in Entry : Owner[f] # r \/ kind = "readonly" => mem'[f] = mem[f],
         LineOk(r)'
  PROVE  Lines' /\ \A f \in Entry : Owner[f] # r => Cached(f)' = Cached(f)
<1>1. \A f \in Entry : Owner[f] \in Rank
  BY OwnerAssumption
<1>2. \A q \in Rank : q # r => Filling(q)' = Filling(q)
  BY DEF Filling
<1>3. ASSUME NEW q \in Rank, q # r PROVE LineOk(q)'
  <2>1. LineOk(q) /\ tag[q] \in Tag
    BY DEF Lines
  <2>2. tag[q].id # "none" => mem'[tag[q].id] = mem[tag[q].id]
    BY <1>3, <2>1 DEF LineOk, Tag
  <2>3. HeadIn(q, {"clean", "clear"})' = HeadIn(q, {"clean", "clear"})
        /\ HeadIn(q, {"fill"})' = HeadIn(q, {"fill"})
    BY <1>3 DEF HeadIn
  <2>4. QED
    BY <1>2, <1>3, <2>1, <2>2, <2>3 DEF LineOk
<1>4. \A q \in Rank : LineOk(q)'
  BY <1>3
<1>5. Lines'
  BY <1>4 DEF Lines
<1>6. ASSUME NEW f \in Entry, Owner[f] # r PROVE Cached(f)' = Cached(f)
  BY <1>1, <1>2, <1>6 DEF Cached
<1>7. QED
  BY <1>5, <1>6

\* The kernel that runs is on its stream, and is one of its rank.
LEMMA HeadOn ==
  ASSUME Streams, NEW r \in Rank, stream[r] # << >>
  PROVE  /\ On(r, stream[r][1]) /\ Placed(r, stream[r][1]) /\ KernelOf(r, stream[r][1])
         /\ stream[r][1] \in KernelSet /\ Now(r) = stream[r][1]
         /\ \A name : Runs(r, name) <=> stream[r][1].name = name
<1>1. PICK s \in Seq(KernelSet) : s = stream[r]
  BY DEF Streams
<1>2. 1 \in 1 .. Len(s) /\ s[1] \in KernelSet /\ Head(s) = s[1]
  BY <1>1
<1>3. On(r, stream[r][1])
  BY <1>1, <1>2 DEF On
<1>4. PICK x : x = stream[r][1]
  OBVIOUS
<1>5. Placed(r, x)
  BY <1>3, <1>4 DEF Streams, AllPlaced
<1>6. QED
  BY <1>1, <1>2, <1>3, <1>4, <1>5 DEF Placed, Now, Runs

\* What a step stores is a row.
LEMMA RowOf ==
  ASSUME Control, NEW e \in Entry, NEW k \in 0 .. Len(program)
  PROVE  <<e, k>> \in Row
<1>1. k \in 0 .. MaxOps
  BY MaxOpsAssumption, Calls DEF Control, Program
<1>2. QED
  BY <1>1 DEF Row

\* The line is written back to the entry it holds, which r owns.
LEMMA CopyBack ==
  ASSUME Lines, NEW r \in Rank
  PROVE  /\ CopiedBack(r) \in [Entry -> Row]
         /\ \A f \in Entry : CopiedBack(r)[f] =
              IF tag[r].modified /\ tag[r].id = f THEN data[r] ELSE mem[f]
         /\ \A f \in Entry : Owner[f] # r \/ kind = "readonly" => CopiedBack(r)[f] = mem[f]
<1>1. /\ mem \in [Entry -> Row] /\ data[r] \in Row /\ tag[r] \in Tag /\ LineOk(r)
  BY DEF Lines
<1>2. QED
  BY <1>1 DEF CopiedBack, LineOk, Tag

\* Only a read-only cache fills a line after its tag is stored.
LEMMA NoFill ==
  ASSUME Streams, kind # "readonly", NEW r \in Rank
  PROVE  ~ Filling(r) /\ ~ HeadIn(r, {"fill"})
<1>1. \A x : On(r, x) => x.name # "fill"
  BY DEF Streams, AllPlaced, Placed, KernelOf
<1>2. ~ Filling(r)
  BY <1>1, FillingOn
<1>3. QED
  BY <1>1, <1>2, HeadOn DEF HeadIn

\* The same, after a step.
LEMMA NoFillAfter ==
  ASSUME Streams', kind' # "readonly", NEW r \in Rank
  PROVE  ~ Filling(r)'
<1>1. stream'[r] \in Seq(KernelSet)
  BY DEF Streams
<1>2. \A x : On(r, x)' => KernelOf(r, x)'
  BY DEF Streams, AllPlaced, Placed
<1>3. \A x : On(r, x)' => x.name # "fill"
  BY <1>2 DEF KernelOf
<1>4. DOMAIN stream'[r] = 1 .. Len(stream'[r])
  BY <1>1
<1>5. QED
  BY <1>3, <1>4 DEF Filling, On

\* An update evicts and loads, and no entry changes: the evicted row is written back if it is
\* modified, and is that of the raw embedding if not.
LEMMA UpdateLines ==
  ASSUME Control, Streams, Streams', Lines, NEW r \in Rank, RunUpdate(r)
  PROVE  Lines' /\ \A f \in Entry : Cached(f)' = Cached(f)
<1>1. /\ stream[r] # << >> /\ stream[r][1].name = "update" /\ Ends(r)
      /\ UNCHANGED host
  BY HeadOn DEF RunUpdate, Runs, Ended, Ends
<1>2. kind # "readonly" /\ kind' = kind
  BY <1>1, HeadOn DEF KernelOf, host
<1>3. ~ Filling(r) /\ ~ HeadIn(r, {"fill"}) /\ ~ Filling(r)' /\ ~ HeadIn(r, {"fill"})'
      /\ ~ HeadIn(r, {"clean", "clear"})' /\ ~ HeadIn(r, {"clean", "clear"})
  <2>1. ~ Filling(r) /\ ~ HeadIn(r, {"fill"})
    BY <1>2, NoFill
  <2>2. ~ HeadIn(r, {"fill"})' /\ ~ HeadIn(r, {"clean", "clear"})'
    BY <1>1, <1>2, NextHead
  <2>3. ~ Filling(r)'
    BY <1>2, NoFillAfter
  <2>4. QED
    BY <1>1, <2>1, <2>2, <2>3 DEF HeadIn
<1>4. \A q \in Rank : q # r => stream'[q] = stream[q]
  BY <1>1, AfterEnd
<1>5. /\ mem \in [Entry -> Row] /\ tag \in [Rank -> Tag] /\ data \in [Rank -> Row] /\ LineOk(r)
  BY DEF Lines
<1>6. PICK e \in Candidates(r) :
        IF e = tag[r].id THEN UNCHANGED storage
        ELSE /\ mem'  = CopiedBack(r)
             /\ tag'  = [tag EXCEPT ![r] = [id |-> e, modified |-> FALSE]]
             /\ data' = [data EXCEPT ![r] = mem[e]]
  BY DEF RunUpdate
<1>7. CASE UNCHANGED storage
  <2>1. mem' = mem /\ tag' = tag /\ data' = data
    BY <1>7 DEF storage
  <2>2. LineOk(r)'
    BY <1>2, <1>3, <1>5, <2>1 DEF LineOk
  <2>3. \A f \in Entry : Owner[f] = r => Cached(f)' = Cached(f)
    BY <1>3, <2>1 DEF Cached
  <2>4. QED
    BY <1>2, <1>4, <1>5, <2>1, <2>2, <2>3, OwnLine
<1>8. CASE e # tag[r].id
  <2>1. /\ mem'  = CopiedBack(r)
        /\ tag'  = [tag EXCEPT ![r] = [id |-> e, modified |-> FALSE]]
        /\ data' = [data EXCEPT ![r] = mem[e]]
    BY <1>6, <1>8
  <2>2. e \in Entry /\ Owner[e] = r
    <3>1. e \in Now(r).ids
      BY <1>6, <1>8 DEF Candidates
    <3>2. e \in Received(Now(r).call, r)
      BY <1>1, <3>1, HeadOn DEF KernelOf, Adjusts
    <3>3. e \in Entry
      BY <1>1, <3>1, HeadOn DEF KernelSet
    <3>4. QED
      BY <3>2, <3>3 DEF Received
  <2>3. /\ mem' \in [Entry -> Row] /\ tag' \in [Rank -> Tag] /\ data' \in [Rank -> Row]
        /\ \A f \in Entry : Owner[f] # r \/ kind = "readonly" => mem'[f] = mem[f]
        /\ tag'[r] = [id |-> e, modified |-> FALSE] /\ data'[r] = mem[e]
        /\ \A q \in Rank : q # r => tag'[q] = tag[q] /\ data'[q] = data[q]
    BY <1>5, <2>1, <2>2, CopyBack DEF Tag
  <2>4. \A f \in Entry : mem'[f] = IF tag[r].modified /\ tag[r].id = f THEN data[r] ELSE mem[f]
    BY <2>1, CopyBack
  <2>5. mem'[e] = mem[e]
    BY <1>8, <2>2, <2>4
  <2>6. LineOk(r)'
    <3>1. e # "none"
      BY <2>2, OwnerAssumption
    <3>2. QED
      BY <1>3, <2>2, <2>3, <2>5, <3>1 DEF LineOk
  <2>7. ASSUME NEW f \in Entry, Owner[f] = r PROVE Cached(f)' = Cached(f)
    <3>1. CASE f = e
      BY <1>3, <1>8, <2>2, <2>3, <3>1 DEF Cached
    <3>2. CASE f # e
      <4>1. Cached(f)' = mem'[f]
        BY <2>3, <2>7, <3>2 DEF Cached
      <4>2. CASE tag[r].id = f
        <5>1. f # "none"
          BY OwnerAssumption
        <5>2. tag[r].modified \/ data[r] = mem[f]
          BY <1>3, <1>5, <4>2, <5>1 DEF LineOk
        <5>3. mem'[f] = data[r]
          BY <1>5, <2>4, <4>2, <5>2
        <5>4. QED
          BY <1>3, <2>7, <4>1, <4>2, <5>3 DEF Cached
      <4>3. CASE tag[r].id # f
        BY <2>4, <2>7, <4>1, <4>3 DEF Cached
      <4>4. QED
        BY <4>2, <4>3
    <3>3. QED
      BY <3>1, <3>2
  <2>8. QED
    BY <1>2, <1>4, <2>3, <2>6, <2>7, OwnLine
<1>9. QED
  BY <1>6, <1>7, <1>8

\* Of a read-only cache, until its rows have come.
LEMMA ChooseLines ==
  ASSUME Control, Streams, Streams', Lines, NEW r \in Rank, RunChoose(r)
  PROVE  Lines' /\ \A f \in Entry : Cached(f)' = Cached(f)
<1>1. /\ stream[r] # << >> /\ stream[r][1].name = "choose" /\ Ends(r)
      /\ UNCHANGED <<host, mem, data>>
  BY HeadOn DEF RunChoose, Runs, Ended, Ends
<1>2. kind = "readonly" /\ kind' = kind
  BY <1>1, HeadOn DEF KernelOf, host
<1>3. Filling(r)' /\ Filling(r) /\ ~ HeadIn(r, {"clean", "clear"})
  <2>1. Filling(r)'
    BY <1>1, <1>2, NextHead
  <2>2. Filling(r)
    <3>1. Follows(stream[r], 1) /\ 1 \in 1 .. Len(stream[r])
      BY <1>1, AfterEnd DEF Streams, Ordered
    <3>2. 2 \in 1 .. Len(stream[r]) /\ stream[r][2].name = "fill"
      BY <1>1, <3>1, SMTT(30) DEF Follows
    <3>3. QED
      BY <3>2, FillingIs
  <2>3. QED
    BY <1>1, <2>1, <2>2 DEF HeadIn
<1>4. \A q \in Rank : q # r => stream'[q] = stream[q]
  BY <1>1, AfterEnd
<1>5. /\ mem \in [Entry -> Row] /\ tag \in [Rank -> Tag] /\ data \in [Rank -> Row] /\ LineOk(r)
  BY DEF Lines
<1>6. PICK e \in Candidates(r) : tag' = [tag EXCEPT ![r] = [id |-> e, modified |-> FALSE]]
  BY DEF RunChoose
<1>7. e \in Entry /\ Owner[e] = r
  <2>1. CASE e \in Now(r).ids
    <3>1. e \in Received(Now(r).call, r)
      BY <1>1, <2>1, HeadOn DEF KernelOf, Adjusts
    <3>2. e \in Entry
      BY <1>1, <2>1, HeadOn DEF KernelSet
    <3>3. QED
      BY <3>1, <3>2 DEF Received
  <2>2. CASE e \notin Now(r).ids
    BY <1>5, <1>6, <2>2 DEF Candidates, LineOk, Tag
  <2>3. QED
    BY <2>1, <2>2
<1>8. /\ tag' \in [Rank -> Tag] /\ tag'[r] = [id |-> e, modified |-> FALSE]
      /\ \A q \in Rank : q # r => tag'[q] = tag[q]
  BY <1>5, <1>6, <1>7 DEF Tag
<1>9. LineOk(r)'
  <2>1. e # "none"
    BY <1>7, OwnerAssumption
  <2>2. QED
    BY <1>3, <1>7, <1>8, <2>1 DEF LineOk
<1>10. \A f \in Entry : Owner[f] = r => Cached(f)' = Cached(f)
  BY <1>1, <1>3 DEF Cached
<1>11. QED
  BY <1>1, <1>2, <1>4, <1>5, <1>8, <1>9, <1>10, OwnLine

\* A line gets the row its tag names.
LEMMA FillLines ==
  ASSUME Control, Streams, Streams', Lines, NEW r \in Rank, RunFill(r)
  PROVE  Lines' /\ \A f \in Entry : Cached(f)' = Cached(f)
<1>1. /\ stream[r] # << >> /\ stream[r][1].name = "fill" /\ Ends(r)
      /\ UNCHANGED <<host, mem, tag>>
  BY HeadOn DEF RunFill, Runs, Ended, Ends
<1>2. kind = "readonly" /\ kind' = kind
  BY <1>1, HeadOn DEF KernelOf, host
<1>3. Filling(r) /\ HeadIn(r, {"fill"}) /\ ~ HeadIn(r, {"fill"})'
  <2>1. On(r, stream[r][1])
    BY <1>1, HeadOn
  <2>2. Filling(r)
    BY <1>1, <2>1, FillingOn
  <2>3. ~ HeadIn(r, {"fill"})'
    BY <1>1, <1>2, NextHead
  <2>4. QED
    BY <1>1, <2>2, <2>3 DEF HeadIn
<1>4. \A q \in Rank : q # r => stream'[q] = stream[q]
  BY <1>1, AfterEnd
<1>5. /\ mem \in [Entry -> Row] /\ tag \in [Rank -> Tag] /\ data \in [Rank -> Row] /\ LineOk(r)
  BY DEF Lines
<1>6. tag[r].id # "none" /\ tag[r].id \in Entry /\ tag[r].modified = FALSE
  BY <1>2, <1>3, <1>5 DEF LineOk, Tag
<1>7. /\ data' \in [Rank -> Row] /\ data'[r] = mem[tag[r].id]
      /\ \A q \in Rank : q # r => data'[q] = data[q]
  BY <1>5, <1>6 DEF RunFill
<1>8. LineOk(r)'
  BY <1>1, <1>3, <1>5, <1>6, <1>7 DEF LineOk
<1>9. \A f \in Entry : Owner[f] = r => Cached(f)' = Cached(f)
  BY <1>1, <1>3, <1>7 DEF Cached
<1>10. QED
  BY <1>1, <1>2, <1>4, <1>5, <1>7, <1>8, <1>9, OwnLine

\* A step changes the row of one entry, wherever it is.
LEMMA StepLines ==
  ASSUME Control, Streams, Streams', Lines, NEW r \in Rank, RunStep(r)
  PROVE  /\ Lines' /\ UNCHANGED host
         /\ \E e \in stream[r][1].ids :
              /\ stream[r] # << >> /\ stream[r][1].name = "step" /\ e \in Entry /\ Owner[e] = r
              /\ Cached(e)' = <<e, stream[r][1].call>>
              /\ \A f \in Entry : f # e => Cached(f)' = Cached(f)
              /\ \/ stream[r][1].ids = {e} /\ Ends(r)
                 \/ stream[r][1].ids # {e} /\ Shrinks(r, e)
<1>1. /\ stream[r] # << >> /\ stream[r][1].name = "step" /\ UNCHANGED host
      /\ Now(r) = stream[r][1] /\ stream[r][1] \in KernelSet
      /\ Placed(r, stream[r][1]) /\ KernelOf(r, stream[r][1])
  BY HeadOn DEF RunStep, Runs
<1>2. kind # "readonly" /\ kind' = kind
  BY <1>1 DEF KernelOf, host
<1>3. PICK e \in stream[r][1].ids :
        /\ IF tag[r].id = e
           THEN /\ data' = [data EXCEPT ![r] = <<e, stream[r][1].call>>]
                /\ tag'  = [tag EXCEPT ![r].modified = TRUE]
                /\ UNCHANGED mem
           ELSE mem' = [mem EXCEPT ![e] = <<e, stream[r][1].call>>] /\ UNCHANGED <<tag, data>>
        /\ IF stream[r][1].ids = {e} THEN Ended(r)
           ELSE stream' = [stream EXCEPT ![r][1].ids = @ \ {e}]
  BY <1>1 DEF RunStep
<1>4. \/ stream[r][1].ids = {e} /\ Ends(r)
      \/ stream[r][1].ids # {e} /\ Shrinks(r, e)
  BY <1>1, <1>3 DEF Ended, Ends, Shrinks
<1>5. e \in Entry /\ Owner[e] = r /\ e # "none"
  BY <1>1, <1>3, OwnerAssumption DEF KernelSet, KernelOf, Adjusts, Received
<1>6. <<e, stream[r][1].call>> \in Row
  <2>1. stream[r][1].call \in 1 .. done[r] /\ done[r] \in Nat /\ done[r] <= Len(program)
    BY <1>1 DEF Placed, Control, Where, Reads
  <2>2. stream[r][1].call \in 0 .. Len(program)
    BY <2>1, Calls DEF Control
  <2>3. QED
    BY <1>5, <2>2, RowOf
<1>7. ~ Filling(r) /\ ~ Filling(r)' /\ ~ HeadIn(r, {"fill"})' /\ ~ HeadIn(r, {"clean", "clear"})'
      /\ ~ HeadIn(r, {"clean", "clear"})
  <2>1. ~ Filling(r) /\ ~ Filling(r)'
    BY <1>2, NoFill, NoFillAfter
  <2>2. CASE Ends(r)
    BY <1>1, <1>2, <2>1, <2>2, NextHead DEF HeadIn
  <2>3. CASE Shrinks(r, e)
    <3>1. stream'[r][1].name = "step"
      BY <1>1, <2>3, AfterShrink DEF KernelSet
    <3>2. QED
      BY <1>1, <2>1, <3>1 DEF HeadIn
  <2>4. QED
    BY <1>4, <2>2, <2>3
<1>8. \A q \in Rank : q # r => stream'[q] = stream[q]
  BY <1>4, AfterEnd, AfterShrink
<1>9. /\ mem \in [Entry -> Row] /\ tag \in [Rank -> Tag] /\ data \in [Rank -> Row] /\ LineOk(r)
  BY DEF Lines
<1>10. CASE tag[r].id = e
  <2>1. /\ data' = [data EXCEPT ![r] = <<e, stream[r][1].call>>]
        /\ tag'  = [tag EXCEPT ![r].modified = TRUE]
        /\ mem' = mem
    BY <1>3, <1>10
  <2>2. /\ data' \in [Rank -> Row] /\ data'[r] = <<e, stream[r][1].call>>
        /\ \A q \in Rank : q # r => tag'[q] = tag[q] /\ data'[q] = data[q]
    BY <1>6, <1>9, <2>1
  <2>3. tag' \in [Rank -> Tag] /\ tag'[r].id = e /\ tag'[r].modified = TRUE
    BY <1>9, <1>10, <2>1 DEF Tag
  <2>4. LineOk(r)'
    BY <1>2, <1>5, <1>7, <2>3 DEF LineOk
  <2>5. Cached(e)' = <<e, stream[r][1].call>>
    BY <1>5, <1>7, <2>2, <2>3 DEF Cached
  <2>6. \A f \in Entry : Owner[f] = r /\ f # e => Cached(f)' = Cached(f)
    BY <1>7, <1>10, <2>1, <2>3 DEF Cached
  <2>7. Lines' /\ \A f \in Entry : Owner[f] # r => Cached(f)' = Cached(f)
    BY <1>2, <1>8, <1>9, <2>1, <2>2, <2>3, <2>4, OwnLine
  <2>8. QED
    BY <1>1, <1>4, <1>5, <2>5, <2>6, <2>7
<1>11. CASE tag[r].id # e
  <2>1. mem' = [mem EXCEPT ![e] = <<e, stream[r][1].call>>] /\ tag' = tag /\ data' = data
    BY <1>3, <1>11
  <2>2. /\ mem' \in [Entry -> Row] /\ mem'[e] = <<e, stream[r][1].call>>
        /\ \A f \in Entry : f # e => mem'[f] = mem[f]
    BY <1>5, <1>6, <1>9, <2>1
  <2>3. LineOk(r)'
    <3>1. tag[r].id # "none" => mem'[tag[r].id] = mem[tag[r].id]
      BY <1>9, <1>11, <2>2 DEF Tag
    <3>2. QED
      BY <1>2, <1>7, <1>9, <2>1, <3>1 DEF LineOk
  <2>4. Cached(e)' = <<e, stream[r][1].call>>
    BY <1>5, <1>11, <2>1, <2>2 DEF Cached
  <2>5. \A f \in Entry : Owner[f] = r /\ f # e => Cached(f)' = Cached(f)
    BY <1>7, <2>1, <2>2 DEF Cached
  <2>6. Lines' /\ \A f \in Entry : Owner[f] # r => Cached(f)' = Cached(f)
    BY <1>2, <1>5, <1>8, <1>9, <2>1, <2>2, <2>3, OwnLine
  <2>7. QED
    BY <1>1, <1>4, <1>5, <2>4, <2>5, <2>6
<1>12. QED
  BY <1>10, <1>11

\* A copied line is the row of the raw embedding.
LEMMA CopyLines ==
  ASSUME Control, Streams, Streams', Lines, NEW r \in Rank, RunCopy(r)
  PROVE  Lines' /\ \A f \in Entry : Cached(f)' = Cached(f)
<1>1. /\ stream[r] # << >> /\ stream[r][1].name = "copy" /\ Ends(r)
      /\ UNCHANGED <<host, tag, data>> /\ mem' = CopiedBack(r)
  BY HeadOn DEF RunCopy, Runs, Ended, Ends
<1>2. kind # "readonly" /\ kind' = kind
  BY <1>1, HeadOn DEF KernelOf, host
<1>3. ~ Filling(r) /\ ~ Filling(r)' /\ ~ HeadIn(r, {"fill"})' /\ ~ HeadIn(r, {"clean", "clear"})
  BY <1>1, <1>2, NextHead, NoFill, NoFillAfter DEF HeadIn
<1>4. \A q \in Rank : q # r => stream'[q] = stream[q]
  BY <1>1, AfterEnd
<1>5. /\ mem \in [Entry -> Row] /\ tag \in [Rank -> Tag] /\ data \in [Rank -> Row] /\ LineOk(r)
  BY DEF Lines
<1>6. /\ mem' \in [Entry -> Row]
      /\ \A f \in Entry : mem'[f] = IF tag[r].modified /\ tag[r].id = f THEN data[r] ELSE mem[f]
      /\ \A f \in Entry : Owner[f] # r \/ kind = "readonly" => mem'[f] = mem[f]
  BY <1>1, CopyBack
<1>7. tag[r].id # "none" => tag[r].id \in Entry /\ data[r] = mem'[tag[r].id]
  BY <1>3, <1>5, <1>6 DEF LineOk, Tag
<1>8. LineOk(r)'
  BY <1>1, <1>2, <1>3, <1>5, <1>7 DEF LineOk
<1>9. ASSUME NEW f \in Entry, Owner[f] = r PROVE Cached(f)' = Cached(f)
  BY <1>1, <1>3, <1>6, <1>9 DEF Cached
<1>10. QED
  BY <1>1, <1>2, <1>4, <1>5, <1>6, <1>8, <1>9, OwnLine

\* Tags are cleared only after the lines have been copied, so that no row is lost.
LEMMA StoreTagsLines ==
  ASSUME Control, Streams, Streams', Lines, NEW r \in Rank, RunStoreTags(r)
  PROVE  /\ Lines' /\ \A f \in Entry : Cached(f)' = Cached(f)
         /\ ~ tag'[r].modified
<1>1. /\ stream[r] # << >> /\ stream[r][1].name \in {"clean", "clear"} /\ Ends(r)
      /\ UNCHANGED <<host, mem, data>>
      /\ tag' = IF stream[r][1].name = "clear" THEN [tag EXCEPT ![r] = Empty]
                ELSE [tag EXCEPT ![r].modified = FALSE]
  BY HeadOn DEF RunStoreTags, Runs, Ended, Ends
<1>2. kind' = kind /\ (stream[r][1].name = "clean" => kind # "readonly")
  BY <1>1, HeadOn DEF KernelOf, host
<1>3. /\ HeadIn(r, {"clean", "clear"}) /\ ~ HeadIn(r, {"fill"})'
      /\ Filling(r) => Filling(r)'
  BY <1>1, <1>2, NextHead DEF HeadIn
<1>4. \A q \in Rank : q # r => stream'[q] = stream[q]
  BY <1>1, AfterEnd
<1>5. /\ mem \in [Entry -> Row] /\ tag \in [Rank -> Tag] /\ data \in [Rank -> Row] /\ LineOk(r)
  BY DEF Lines
<1>6. /\ tag' \in [Rank -> Tag] /\ tag'[r].modified = FALSE
      /\ tag'[r].id = tag[r].id \/ tag'[r].id = "none"
      /\ \A q \in Rank : q # r => tag'[q] = tag[q]
  BY <1>1, <1>5 DEF Tag, Empty
<1>7. tag[r].id # "none" => Filling(r) \/ data[r] = mem[tag[r].id]
  BY <1>3, <1>5 DEF LineOk
<1>8. LineOk(r)'
  BY <1>1, <1>3, <1>5, <1>6, <1>7 DEF LineOk
<1>9. ASSUME NEW f \in Entry, Owner[f] = r PROVE Cached(f)' = Cached(f)
  <2>1. f # "none"
    BY OwnerAssumption
  <2>2. tag[r].id = f /\ ~ Filling(r) => data[r] = mem[f]
    BY <1>7, <2>1
  <2>3. tag'[r].id = f /\ ~ Filling(r)' => tag[r].id = f /\ ~ Filling(r)
    BY <1>3, <1>6, <2>1
  <2>4. QED
    BY <1>1, <1>9, <2>2, <2>3 DEF Cached
<1>10. QED
  BY <1>1, <1>2, <1>4, <1>5, <1>6, <1>8, <1>9, OwnLine

\* Reading leaves them as they are.
LEMMA ReadingLines ==
  ASSUME Streams, Streams', Lines, NEW r \in Rank, UNCHANGED <<kind, storage>>,
         UNCHANGED stream \/ (Ends(r) /\ stream[r][1].name \in Reads \cup {"collect"})
  PROVE  Lines' /\ \A f \in Entry : Cached(f)' = Cached(f)
<1>1. kind' = kind /\ mem' = mem /\ tag' = tag /\ data' = data
  BY DEF storage
<1>2. \A q \in Rank : LineOk(q)
  BY DEF Lines
<1>3. CASE UNCHANGED stream
  <2>1. \A q \in Rank : Filling(q)' = Filling(q)
    BY <1>3 DEF Filling
  <2>2. Lines'
    BY <1>3, IssueLines
  <2>3. \A f \in Entry : Cached(f)' = Cached(f)
    BY <1>1, <2>1, OwnerAssumption DEF Cached
  <2>4. QED
    BY <2>2, <2>3
<1>4. CASE Ends(r) /\ stream[r][1].name \in Reads \cup {"collect"}
  <2>1. \A q \in Rank : q # r => stream'[q] = stream[q]
    BY <1>4, AfterEnd
  <2>2. /\ ~ HeadIn(r, {"fill"})'
        /\ HeadIn(r, {"clean", "clear"})' => kind = "readonly"
        /\ Filling(r) => Filling(r)'
        /\ \A q \in Rank : q # r => Filling(q)' = Filling(q)
    BY <1>1, <1>4, NextHead DEF Reads
  <2>3. ASSUME NEW q \in Rank
        PROVE  /\ Filling(q) => Filling(q)'
               /\ HeadIn(q, {"fill"})' => tag[q].id # "none"
               /\ HeadIn(q, {"clean", "clear"})' /\ kind # "readonly" => HeadIn(q, {"clean", "clear"})
    <3>1. CASE q = r
      BY <2>2, <3>1
    <3>2. CASE q # r
      BY <1>2, <2>1, <2>2, <3>2 DEF LineOk, HeadIn
    <3>3. QED
      BY <3>1, <3>2
  <2>4. Lines'
    BY <2>3, LinesKept
  <2>5. Filling(r)' => Filling(r)
    <3>1. \A x : On(r, x)' => On(r, x)
      BY <1>4, AfterEnd DEF On
    <3>2. stream'[r] \in Seq(KernelSet)
      BY DEF Streams
    <3>3. DOMAIN stream'[r] = 1 .. Len(stream'[r])
      BY <3>2
    <3>4. QED
      BY <3>1, <3>3, FillingOn DEF Filling, On
  <2>6. \A f \in Entry : Cached(f)' = Cached(f)
    BY <1>1, <2>2, <2>5, OwnerAssumption DEF Cached
  <2>7. QED
    BY <2>4, <2>6
<1>5. QED
  BY <1>3, <1>4

\* At first the lines are empty.
LEMMA InitLines == Init => Lines
<1> SUFFICES ASSUME Init PROVE Lines
  OBVIOUS
<1>1. \A e \in Entry : <<e, 0>> \in Row
  BY MaxOpsAssumption DEF Row
<1>2. Unfilled \in Row
  BY MaxOpsAssumption DEF Row, Unfilled
<1>3. Empty \in Tag /\ Empty.id = "none" /\ ~ Empty.modified
  BY DEF Empty, Tag
<1>4. \A r \in Rank : tag[r] = Empty /\ stream[r] = << >>
  BY DEF Init
<1>5. \A r \in Rank : LineOk(r)
  BY <1>3, <1>4 DEF LineOk, HeadIn
<1>6. QED
  BY <1>1, <1>2, <1>3, <1>5 DEF Init, Lines

-----------------------------------------------------------------------------
(***************************************************************************)
(* What the steps have made of an entry.                                   *)
(***************************************************************************)
StepOn(j, e) == program[j].op = "step" /\ e \in Named(j)

\* What the first steps have made of an entry, by its last step.
LEMMA TrainedIs ==
  ASSUME NEW k, NEW e
  PROVE  Trained(k, e) = <<e, Max({0} \cup {j \in 1 .. k - 1 : StepOn(j, e)})>>
BY DEF Trained, StepOn

\* It depends on the steps on the entry only.
LEMMA TrainedSame ==
  ASSUME NEW c \in Nat, NEW n \in 0 .. c + 1, NEW k \in 0 .. c + 1, NEW e,
         \A j \in 1 .. c : StepOn(j, e) => (j < n <=> j < k)
  PROVE  Trained(n, e) = Trained(k, e)
<1>1. {j \in 1 .. n - 1 : StepOn(j, e)} = {j \in 1 .. k - 1 : StepOn(j, e)}
  <2>1. ASSUME NEW j
        PROVE  j \in 1 .. n - 1 /\ StepOn(j, e) <=> j \in 1 .. k - 1 /\ StepOn(j, e)
    <3>1. j \in 1 .. n - 1 => j \in 1 .. c /\ j < n
      OBVIOUS
    <3>2. j \in 1 .. k - 1 => j \in 1 .. c /\ j < k
      OBVIOUS
    <3>3. j \in 1 .. c => (j < n <=> j \in 1 .. n - 1) /\ (j < k <=> j \in 1 .. k - 1)
      OBVIOUS
    <3>4. QED
      BY <3>1, <3>2, <3>3
  <2>2. QED
    BY <2>1, Zenon
<1>2. QED
  BY <1>1, TrainedIs

\* After a step it is what that step made.
LEMMA TrainedAfter ==
  ASSUME NEW k \in Nat \ {0}, NEW e, StepOn(k, e)
  PROVE  Trained(k + 1, e) = <<e, k>>
<1> DEFINE S == {0} \cup {j \in 1 .. (k + 1) - 1 : StepOn(j, e)}
<1>1. k \in S /\ S \in SUBSET Nat /\ \A j \in S : j <= k
  OBVIOUS
<1>2. Max(S) \in S /\ \A j \in S : Max(S) >= j
  <2>1. \E m \in S : \A j \in S : m >= j
    BY <1>1
  <2>2. QED
    BY <2>1, Zenon DEF Max
<1>3. Max(S) = k
  BY <1>1, <1>2
<1>4. QED
  BY <1>3, TrainedIs

\* Before the first call it is the row of the beginning.
LEMMA Untrained ==
  ASSUME NEW e
  PROVE  Trained(1, e) = <<e, 0>>
<1>1. {j \in 1 .. 1 - 1 : StepOn(j, e)} = {}
  OBVIOUS
<1>2. PICK S : S = {0} \cup {j \in 1 .. 1 - 1 : StepOn(j, e)}
  OBVIOUS
<1>3. S = {0}
  BY <1>1, <1>2
<1>4. Max(S) = 0
  <2>1. \A x \in {0} : x = 0
    OBVIOUS
  <2>2. \E x \in S : \A y \in S : x >= y
    BY <1>3
  <2>3. Max(S) \in S
    BY <2>2, Zenon DEF Max
  <2>4. QED
    BY <1>3, <2>3
<1>5. QED
  BY <1>2, <1>4, TrainedIs

\* No later call changes it.
LEMMA TrainedGrown ==
  ASSUME Program, NEW c \in CallOf, program' = Append(program, c),
         NEW k \in 0 .. Len(program) + 1, NEW e
  PROVE  Trained(k, e)' = Trained(k, e)
<1>1. /\ Len(program) \in Nat
      /\ \A j \in 1 .. Len(program) : program'[j] = program[j]
  BY Grown, Calls
<1>2. \A j \in 1 .. k - 1 : StepOn(j, e)' <=> StepOn(j, e)
  <2>1. \A j \in 1 .. k - 1 : j \in 1 .. Len(program)
    BY <1>1
  <2>2. QED
    BY <1>1, <2>1 DEF StepOn, Named
<1>3. {j \in 1 .. k - 1 : StepOn(j, e)'} = {j \in 1 .. k - 1 : StepOn(j, e)}
  BY <1>2
<1>4. QED
  BY <1>3, Zenon DEF Trained, StepOn

\* It changes with the program only.
LEMMA TrainedKept ==
  ASSUME UNCHANGED program, NEW k, NEW e
  PROVE  Trained(k, e)' = Trained(k, e) /\ (StepOn(k, e)' <=> StepOn(k, e))
BY DEF Trained, StepOn, Named

\* The kernel of step j has still to write e; it has written it.
Pend(r, j, e) == \E x : On(r, x) /\ x.name = "step" /\ x.call = j /\ e \in x.ids
Made(j, e)    == done[Owner[e]] >= j /\ ~ Pend(Owner[e], j, e)

\* The row of an entry is what the first steps have made of it, and these steps are
\* the ones that have written it.
Upto(e, n) ==
  /\ Cached(e) = Trained(n, e)
  /\ \A j \in 1 .. Len(program) : StepOn(j, e) => (Made(j, e) <=> j < n)

Values == \A e \in Entry : \E n \in 1 .. Len(program) + 1 : Upto(e, n)

\* At first every row is as no step has left it.
LEMMA InitValues == Init => Values
<1> SUFFICES ASSUME Init, NEW e \in Entry PROVE \E n \in 1 .. Len(program) + 1 : Upto(e, n)
  BY DEF Values
<1>1. Len(program) = 0
  BY DEF Init
<1>2. Owner[e] \in Rank /\ e # "none"
  BY OwnerAssumption
<1>3. Cached(e) = <<e, 0>>
  BY <1>2 DEF Init, Cached, Empty
<1>4. Trained(1, e) = <<e, 0>>
  BY Untrained
<1>5. Upto(e, 1)
  BY <1>1, <1>3, <1>4 DEF Upto
<1>6. QED
  BY <1>1, <1>5

\* A new step is one that has not written.
LEMMA IssueValues ==
  ASSUME Control, Streams, Values, NEW op \in Op, NEW adjust \in BOOLEAN,
         NEW batch \in [Rank -> SUBSET Entry], Issue(op, adjust, batch)
  PROVE  Values'
<1>1. /\ [op |-> op, adjust |-> adjust, batch |-> batch] \in CallOf
      /\ Len(program') = Len(program) + 1 /\ Len(program) \in Nat
      /\ \A k \in 1 .. Len(program) : program'[k] = program[k]
      /\ program' = Append(program, [op |-> op, adjust |-> adjust, batch |-> batch])
  BY Issued DEF Issue
<1>2. \A k \in 0 .. Len(program) + 1 : \A e : Trained(k, e)' = Trained(k, e)
  BY <1>1, TrainedGrown DEF Control
<1>3. done' = done /\ stream' = stream /\ mem' = mem /\ tag' = tag /\ data' = data
  BY DEF Issue, storage
<1>4. \A e : Cached(e)' = Cached(e)
  BY <1>3 DEF Cached, Filling
<1>5. ASSUME NEW e \in Entry, NEW n \in 1 .. Len(program) + 1, Upto(e, n)
      PROVE  Upto(e, n)'
  <2>1. \A j : Made(j, e)' <=> Made(j, e)
    BY <1>3 DEF Made, Pend, On
  <2>2. \A j \in 1 .. Len(program) : StepOn(j, e)' <=> StepOn(j, e)
    BY <1>1 DEF StepOn, Named
  <2>3. ~ Made(Len(program) + 1, e)
    <3>1. done[Owner[e]] \in Nat /\ done[Owner[e]] <= Len(program)
      BY OwnerAssumption DEF Control, Where
    <3>2. QED
      BY <1>1, <3>1 DEF Made
  <2>4. ASSUME NEW j \in 1 .. Len(program) + 1, StepOn(j, e)'
        PROVE  Made(j, e)' <=> j < n
    <3>1. CASE j = Len(program) + 1
      BY <1>1, <2>1, <2>3, <3>1
    <3>2. CASE j # Len(program) + 1
      <4>1. j \in 1 .. Len(program)
        BY <1>1, <3>2
      <4>2. QED
        BY <1>5, <2>1, <2>2, <2>4, <4>1 DEF Upto
    <3>3. QED
      BY <3>1, <3>2
  <2>5. Cached(e)' = Trained(n, e)'
    BY <1>1, <1>2, <1>4, <1>5 DEF Upto
  <2>6. QED
    BY <1>1, <2>4, <2>5 DEF Upto
<1>6. ASSUME NEW e \in Entry PROVE \E n \in 1 .. Len(program') + 1 : Upto(e, n)'
  <2>1. PICK n \in 1 .. Len(program) + 1 : Upto(e, n)
    BY DEF Values
  <2>2. Upto(e, n)' /\ n \in 1 .. Len(program') + 1
    BY <1>1, <1>5, <2>1
  <2>3. QED
    BY <2>2
<1>7. QED
  BY <1>6 DEF Values

\* Nothing is written while only who has made which step stays the same.
LEMMA SameValues ==
  ASSUME Values, UNCHANGED program, \A e \in Entry : Cached(e)' = Cached(e),
         \A e \in Entry, j \in 1 .. Len(program) : StepOn(j, e) => (Made(j, e)' <=> Made(j, e))
  PROVE  Values'
<1>1. program' = program
  OBVIOUS
<1>2. ASSUME NEW e \in Entry, NEW n, Upto(e, n) PROVE Upto(e, n)'
  <2>1. Trained(n, e)' = Trained(n, e)
    BY <1>1, TrainedKept
  <2>2. \A j : StepOn(j, e)' <=> StepOn(j, e)
    BY <1>1 DEF StepOn, Named
  <2>3. QED
    BY <1>1, <1>2, <2>1, <2>2 DEF Upto
<1>3. QED
  BY <1>1, <1>2 DEF Values

\* A rank that launches a step has not written with it yet.
LEMMA HostValues ==
  ASSUME Control, Streams, Streams', Values, NEW r \in Rank, Moves(r), NEW t, Launched(r, t),
         UNCHANGED storage, \A e \in Entry : Cached(e)' = Cached(e)
  PROVE  Values'
<1>1. program' = program
  BY DEF Moves
<1>2. /\ done[r] \in Nat /\ done[r] + 1 \in 1 .. Len(program) /\ Call(r) = program[done[r] + 1]
      /\ Len(program) \in Nat /\ \A q \in Rank : done[q] \in Nat
  BY Calls DEF Moves, Control
<1>3. \A q \in Rank : q # r => done'[q] = done[q]
  BY DEF Control, Moves, EntersExchange, EntersBarrier, Waits, Returns, Enter
<1>4. \/ done'[r] = done[r]
      \/ done'[r] = done[r] + 1 /\ Returns(r)
  BY DEF Control, Moves, EntersExchange, EntersBarrier, Waits, Returns
<1>5. ASSUME NEW e \in Entry, NEW j \in 1 .. Len(program), StepOn(j, e)
      PROVE  Made(j, e)' <=> Made(j, e)
  <2>1. Owner[e] \in Rank
    BY OwnerAssumption
  <2>2. CASE Owner[e] # r
    <3>1. \A x : On(Owner[e], x)' <=> On(Owner[e], x)
      BY <2>1, <2>2, HostHeads DEF On
    <3>2. QED
      BY <1>3, <2>1, <2>2, <3>1 DEF Made, Pend
  <2>3. CASE Owner[e] = r /\ j # done[r] + 1
    <3>1. Pend(r, j, e)' <=> Pend(r, j, e)
      <4>1. \A x : On(r, x) => On(r, x)'
        BY HostHeads
      <4>2. \A x : On(r, x)' /\ x.call = j => On(r, x)
        <5>1. \A i \in 1 .. Len(t) : t[i].call = done[r] + 1
          BY DEF Launched
        <5>2. \A x : On(r, x)' => On(r, x) \/ \E i \in 1 .. Len(t) : x = t[i]
          BY HostHeads
        <5>3. QED
          BY <2>3, <5>1, <5>2
      <4>3. QED
        BY <4>1, <4>2 DEF Pend
    <3>2. done'[r] >= j <=> done[r] >= j
      BY <1>2, <1>4, <2>3
    <3>3. QED
      BY <2>3, <3>1, <3>2 DEF Made
  <2>4. CASE Owner[e] = r /\ j = done[r] + 1
    <3>1. ~ Made(j, e)
      BY <1>2, <2>4 DEF Made
    <3>2. CASE done'[r] = done[r]
      BY <1>2, <2>4, <3>1, <3>2 DEF Made
    <3>3. CASE Returns(r)
      <4>1. Call(r).op = "step" /\ e \in Received(j, r)
        BY <1>2, <1>5, <2>4 DEF StepOn, Received
      <4>2. PICK i \in 1 .. Len(t) : t[i].name = "step" /\ t[i].ids = Received(j, r)
        BY <2>4, <3>3, <4>1 DEF Launched
      <4>3. PICK x : x = t[i]
        OBVIOUS
      <4>4. x.call = j /\ x.name = "step" /\ e \in x.ids
        BY <2>4, <4>1, <4>2, <4>3 DEF Launched
      <4>5. On(r, x)'
        BY <4>3, HostHeads
      <4>6. Pend(r, j, e)'
        BY <4>4, <4>5 DEF Pend
      <4>7. QED
        BY <2>4, <3>1, <4>6 DEF Made
    <3>4. QED
      BY <1>4, <3>2, <3>3
  <2>5. QED
    BY <2>2, <2>3, <2>4
<1>6. QED
  BY <1>1, <1>5, SameValues

\* The kernels of steps stay while another ends.
LEMMA StepsStay ==
  ASSUME Streams, NEW r \in Rank, UNCHANGED stream \/ (Ends(r) /\ stream[r][1].name # "step"),
         NEW q \in Rank, NEW x, x.name = "step"
  PROVE  On(q, x)' <=> On(q, x)
<1>1. CASE UNCHANGED stream
  BY <1>1 DEF On
<1>2. CASE Ends(r) /\ stream[r][1].name # "step"
  <2>1. CASE q # r
    BY <1>2, <2>1, AfterEnd DEF On
  <2>2. CASE q = r
    <3>1. On(r, x)' => On(r, x)
      BY <1>2, AfterEnd DEF On
    <3>2. ASSUME On(r, x) PROVE On(r, x)'
      <4>1. PICK i \in 1 .. Len(stream[r]) : x = stream[r][i]
        BY <3>2 DEF On
      <4>2. i # 1
        BY <1>2, <4>1
      <4>3. i - 1 \in 1 .. Len(stream'[r]) /\ (i - 1) + 1 = i
        BY <1>2, <4>2, AfterEnd
      <4>4. stream'[r][i - 1] = x
        BY <1>2, <4>1, <4>3, AfterEnd
      <4>5. QED
        BY <4>3, <4>4 DEF On
    <3>3. QED
      BY <2>2, <3>1, <3>2
  <2>3. QED
    BY <2>1, <2>2
<1>3. QED
  BY <1>1, <1>2

\* A kernel that is not of a step does not count.
LEMMA OtherValues ==
  ASSUME Streams, Values, NEW r \in Rank, UNCHANGED host, \A e \in Entry : Cached(e)' = Cached(e),
         UNCHANGED stream \/ (Ends(r) /\ stream[r][1].name # "step")
  PROVE  Values'
<1>1. program' = program /\ done' = done
  BY DEF host
<1>2. \A q \in Rank : \A x : x.name = "step" => (On(q, x)' <=> On(q, x))
  BY StepsStay
<1>3. ASSUME NEW e \in Entry, NEW j PROVE Made(j, e)' <=> Made(j, e)
  BY <1>1, <1>2, OwnerAssumption DEF Made, Pend
<1>4. QED
  BY <1>1, <1>3, SameValues

\* A block of the kernel of a step ends with its entry; there is no other step on the
\* stream.
Blocks(r, e) ==
  /\ stream[r] # << >> /\ stream[r][1].name = "step" /\ e \in stream[r][1].ids
  /\ (stream[r][1].ids = {e} /\ Ends(r)) \/ (stream[r][1].ids # {e} /\ Shrinks(r, e))

\* A block of a step kernel writes one entry and no other.
LEMMA StepPends ==
  ASSUME Streams, NEW r \in Rank, NEW e, Blocks(r, e), NEW j, NEW f
  PROVE  Pend(r, j, f)' <=> Pend(r, j, f) /\ f # e
<1> PICK x : x = stream[r][1]
  OBVIOUS
<1>1. /\ x \in KernelSet /\ On(r, x) /\ 1 \in 1 .. Len(stream[r]) /\ x.name = "step" /\ e \in x.ids
      /\ (x.ids = {e} /\ Ends(r)) \/ (x.ids # {e} /\ Shrinks(r, e))
  BY HeadOn, AfterEnd, AfterShrink DEF Blocks
<1>2. \A y : On(r, y) /\ y.name = "step" => y = x
  BY <1>1 DEF On, Streams, Ordered
<1>3. Pend(r, j, f) <=> j = x.call /\ f \in x.ids
  BY <1>1, <1>2 DEF Pend
<1>4. CASE x.ids = {e} /\ Ends(r)
  <2>1. ASSUME NEW y, On(r, y)', y.name = "step" PROVE FALSE
    <3>1. PICK i \in 1 .. Len(stream'[r]) : y = stream'[r][i]
      BY <2>1 DEF On
    <3>2. i + 1 \in 1 .. Len(stream[r]) /\ stream[r][i + 1].name = "step" /\ i \in Nat \ {0}
      BY <1>4, <2>1, <3>1, AfterEnd
    <3>3. i + 1 = 1
      BY <1>1, <3>2 DEF Streams, Ordered
    <3>4. QED
      BY <3>2, <3>3
  <2>2. QED
    BY <1>3, <1>4, <2>1 DEF Pend
<1>5. CASE x.ids # {e} /\ Shrinks(r, e)
  <2>1. PICK y : y = [x EXCEPT !.ids = @ \ {e}]
    OBVIOUS
  <2>2. y.name = "step" /\ y.call = x.call /\ y.ids = x.ids \ {e}
    BY <1>1, <2>1 DEF KernelSet
  <2>3. /\ 1 \in 1 .. Len(stream'[r]) /\ y = stream'[r][1]
        /\ \A i \in 1 .. Len(stream'[r]) : i # 1 =>
             i \in 1 .. Len(stream[r]) /\ stream'[r][i] = stream[r][i]
    BY <1>1, <1>5, <2>1, AfterShrink
  <2>4. On(r, y)'
    BY <2>3 DEF On
  <2>5. ASSUME NEW z, On(r, z)', z.name = "step" PROVE z = y
    <3>1. PICK i \in 1 .. Len(stream'[r]) : z = stream'[r][i]
      BY <2>5 DEF On
    <3>2. i # 1 => i \in 1 .. Len(stream[r]) /\ stream[r][i].name = "step"
      BY <2>3, <2>5, <3>1
    <3>3. i = 1
      BY <1>1, <3>2 DEF Streams, Ordered
    <3>4. QED
      BY <2>3, <3>1, <3>3
  <2>6. Pend(r, j, f)' <=> j = x.call /\ f \in x.ids /\ f # e
    BY <2>2, <2>4, <2>5 DEF Pend
  <2>7. QED
    BY <1>3, <2>6
<1>6. QED
  BY <1>1, <1>4, <1>5

\* The kernel of a step writes one entry: with that step, and after all others.
LEMMA StepValues ==
  ASSUME Control, Streams, Streams', Values, NEW r \in Rank, UNCHANGED host,
         NEW c, NEW e \in stream[r][1].ids,
         stream[r] # << >>, stream[r][1].name = "step", stream[r][1].call = c,
         e \in Entry, Owner[e] = r, Cached(e)' = <<e, c>>,
         \A f \in Entry : f # e => Cached(f)' = Cached(f),
         (stream[r][1].ids = {e} /\ Ends(r)) \/ (stream[r][1].ids # {e} /\ Shrinks(r, e))
  PROVE  Values'
<1>1. program' = program /\ done' = done
  BY DEF host
<1>2. PICK x : x = stream[r][1]
  OBVIOUS
<1>3. /\ x \in KernelSet /\ Placed(r, x) /\ x.name = "step" /\ x.call = c /\ e \in x.ids
      /\ x.ids \subseteq Received(c, r) /\ On(r, x) /\ 1 \in 1 .. Len(stream[r])
  BY <1>2, HeadOn, AfterEnd, AfterShrink, SMTT(30) DEF Placed, KernelOf, Adjusts
<1>4. /\ c \in 1 .. done[r] /\ program[c].op = "step" /\ done[r] \in Nat /\ done[r] <= Len(program)
      /\ \A j \in c + 1 .. done[r] : Quiet(program[j])
      /\ Len(program) \in Nat
  BY <1>3, Calls DEF Placed, Reads, Control, Where
<1>5. StepOn(c, e) /\ c \in 1 .. Len(program) /\ c \in Nat \ {0}
  BY <1>3, <1>4 DEF StepOn, Received
<1>6. ASSUME NEW j, NEW f PROVE Pend(r, j, f)' <=> Pend(r, j, f) /\ f # e
  <2>1. Blocks(r, e)
    BY DEF Blocks
  <2>2. QED
    BY <2>1, StepPends
<1>7. ASSUME NEW f \in Entry, f # e, NEW j PROVE Made(j, f)' <=> Made(j, f)
  <2>1. CASE Owner[f] # r
    <3>1. PICK o \in Rank : o = Owner[f] /\ o # r
      BY <2>1, OwnerAssumption
    <3>2. stream'[o] = stream[o]
      BY <3>1, AfterEnd, AfterShrink
    <3>3. QED
      BY <1>1, <3>1, <3>2 DEF Made, Pend, On
  <2>2. CASE Owner[f] = r
    BY <1>1, <1>6, <1>7, <2>2 DEF Made
  <2>3. QED
    BY <2>1, <2>2
<1>8. ASSUME NEW f \in Entry, f # e PROVE \E n \in 1 .. Len(program') + 1 : Upto(f, n)'
  <2>1. PICK n \in 1 .. Len(program) + 1 : Upto(f, n)
    BY DEF Values
  <2>2. \A j : StepOn(j, f)' <=> StepOn(j, f)
    BY <1>1 DEF StepOn, Named
  <2>3. Trained(n, f)' = Trained(n, f)
    BY <1>1, TrainedKept
  <2>4. Upto(f, n)'
    BY <1>1, <1>7, <1>8, <2>1, <2>2, <2>3 DEF Upto
  <2>5. QED
    BY <1>1, <2>4
<1>9. \E n \in 1 .. Len(program') + 1 : Upto(e, n)'
  <2>1. \A j : StepOn(j, e)' <=> StepOn(j, e)
    BY <1>1 DEF StepOn, Named
  <2>2. Cached(e)' = Trained(c + 1, e)'
    <3>1. PICK n \in Nat : n = c + 1
      BY <1>5
    <3>2. Trained(n, e) = <<e, c>>
      BY <1>5, <3>1, TrainedAfter
    <3>3. Trained(n, e)' = Trained(n, e)
      BY <1>1, TrainedKept
    <3>4. QED
      BY <3>1, <3>2, <3>3
  <2>3. ASSUME NEW j \in 1 .. Len(program), StepOn(j, e) PROVE Made(j, e)' <=> j < c + 1
    <3>1. ~ Pend(r, j, e)'
      BY <1>6
    <3>2. Made(j, e)' <=> done[r] >= j
      BY <1>1, <3>1 DEF Made
    <3>3. ~ Quiet(program[j])
      BY <2>3 DEF StepOn, Quiet, Exchanges
    <3>4. ~ (j \in c + 1 .. done[r])
      BY <1>4, <3>3
    <3>5. QED
      BY <1>4, <3>2, <3>4
  <2>4. Upto(e, c + 1)'
    BY <1>1, <2>1, <2>2, <2>3 DEF Upto
  <2>5. PICK n \in 1 .. Len(program) + 1 : n = c + 1
    BY <1>4, <1>5
  <2>6. Upto(e, n)'
    BY <2>4, <2>5
  <2>7. QED
    BY <1>1, <2>6
<1>10. QED
  BY <1>8, <1>9 DEF Values

\* What a gather reads is up to date for as long as it reads.
LEMMA Fresh ==
  ASSUME Control, Lockstep, Streams, Values, NEW r \in Rank, NEW x, On(r, x), x.name \in Reads,
         NEW e \in Entry, kind = "distributed" => Owner[e] = r
  PROVE  Cached(e) = Trained(x.call, e)
<1>1. PICK o \in Rank : o = Owner[e]
  BY OwnerAssumption
<1>2. PICK n \in 1 .. Len(program) + 1 : Upto(e, n)
  BY DEF Values
<1>3. /\ x.call \in 1 .. Len(program) /\ program[x.call].op = "gather" /\ Len(program) \in Nat
  BY ReadingAt, Calls DEF Control
<1>4. ASSUME NEW j \in 1 .. Len(program), StepOn(j, e) PROVE j < n <=> j < x.call
  <2>1. Made(j, e) <=> j < n
    BY <1>2, <1>4 DEF Upto
  <2>2. program[j].op = "step" /\ Exchanges(program[j]) /\ j # x.call
    BY <1>3, <1>4 DEF StepOn, Exchanges
  <2>3. CASE j < x.call
    <3>1. done[o] >= j /\ \A y : On(o, y) => y.call # j
      BY <1>1, <2>2, <2>3, EarlierEnded
    <3>2. Made(j, e)
      BY <1>1, <3>1 DEF Made, Pend
    <3>3. QED
      BY <2>1, <2>3, <3>2
  <2>4. CASE j > x.call
    <3>1. ~ PastExchange(o, j)
      BY <2>2, <2>4, NoLater
    <3>2. ~ Made(j, e)
      BY <1>1, <3>1 DEF Made, PastExchange
    <3>3. QED
      BY <1>3, <2>1, <2>4, <3>2
  <2>5. QED
    BY <1>3, <2>2, <2>3, <2>4
<1>5. Trained(n, e) = Trained(x.call, e)
  <2>1. n \in Nat /\ x.call \in Nat /\ n <= Len(program) + 1 /\ x.call <= Len(program) + 1
    BY <1>2, <1>3
  <2>2. PICK k \in Nat, c \in Nat : k = x.call /\ c = Len(program)
    BY <1>3, <2>1
  <2>3. n \in 0 .. c + 1 /\ k \in 0 .. c + 1
    BY <2>1, <2>2
  <2>4. \A j \in 1 .. c : StepOn(j, e) => (j < n <=> j < k)
    BY <1>4, <2>2
  <2>5. Trained(n, e) = Trained(k, e)
    BY <2>3, <2>4, TrainedSame
  <2>6. QED
    BY <2>2, <2>5
<1>6. QED
  BY <1>2, <1>5 DEF Upto

-----------------------------------------------------------------------------
(***************************************************************************)
(* The kernels that read.                                                  *)
(***************************************************************************)
\* Where the tag that a block has loaded sends it, it finds the row.
Found(r, c) ==
  \A e \in DOMAIN seen[r] :
    IF seen[r][e].id = e THEN data[Owner[e]] = Trained(c, e)
    ELSE mem[e] = Trained(c, e) /\ tag[Owner[e]].id # e

HasRead(r, x) ==
  \A e \in DOMAIN rows[r] :
    rows[r][e] = Trained(x.call, e) \/ (x.name # "read" /\ rows[r][e] = Unfilled)

Reading(r, x) ==
  /\ HasRead(r, x)
  /\ x.name = "fetch" => DOMAIN rows[r] = x.ids
  /\ x.name # "fetch" => /\ DOMAIN rows[r] \subseteq DOMAIN seen[r]
                         /\ DOMAIN seen[r] \subseteq x.ids
                         /\ Found(r, x.call)

ReaderOk(r) ==
  /\ ~ HeadIn(r, {"read", "try"}) => seen[r] = NoRows
  /\ ~ HeadIn(r, Reads) => rows[r] = NoRows
  /\ HeadIn(r, Reads) => Reading(r, stream[r][1])

Readers ==
  /\ DOMAIN seen = Rank /\ DOMAIN rows = Rank
  /\ \A r \in Rank : ReaderOk(r)

\* Who reads which entries.
LEMMA ReadsItsOwn ==
  ASSUME Control, Streams, NEW r \in Rank, NEW x, On(r, x), x.name \in Reads
  PROVE  /\ x.ids \subseteq Entry /\ x.ids \subseteq Named(x.call)
         /\ \A e \in x.ids : Owner[e] \in Rank /\ (kind = "distributed" => Owner[e] = r)
         /\ x.call \in 1 .. Len(program) /\ program[x.call].op = "gather"
<1>1. x.call \in 1 .. Len(program) /\ KernelOf(r, x) /\ program[x.call].op = "gather"
  BY ReadingAt
<1>2. /\ Received(x.call, r) \in SUBSET Entry /\ program[x.call].batch[r] \in SUBSET Entry
      /\ program[x.call].batch[r] \subseteq Named(x.call)
  BY <1>1, Ids
<1>3. x.ids = program[x.call].batch[r] \/ x.ids = Received(x.call, r)
  BY <1>1 DEF KernelOf, Reads
<1>4. kind = "distributed" => x.ids = Received(x.call, r)
  BY <1>1 DEF KernelOf, Reads
<1>5. \A e \in Entry : Owner[e] \in Rank
  BY OwnerAssumption
<1>6. QED
  BY <1>1, <1>2, <1>3, <1>4, <1>5 DEF Received

\* At first nothing is read.
LEMMA InitReaders == Init => Readers
BY DEF Init, Readers, ReaderOk, HeadIn

\* While nothing is read or written, and no reading kernel comes or goes but one
\* that starts.
LEMMA ReadersKept ==
  ASSUME Readers, UNCHANGED <<kind, seen, rows>>,
         \A q \in Rank : HeadIn(q, Reads) => stream'[q] # << >> /\ stream'[q][1] = stream[q][1],
         \A q \in Rank : HeadIn(q, Reads)' => \/ HeadIn(q, Reads)
                                              \/ ~ HeadIn(q, {"fetch"})',
         \A q \in Rank : HeadIn(q, Reads) => (Found(q, stream[q][1].call) => Found(q, stream[q][1].call)'),
         \A q \in Rank : \A e : HeadIn(q, Reads) =>
            Trained(stream[q][1].call, e)' = Trained(stream[q][1].call, e)
  PROVE  Readers'
<1>1. seen' = seen /\ rows' = rows
  OBVIOUS
<1>2. ASSUME NEW q \in Rank PROVE ReaderOk(q)'
  <2>1. ReaderOk(q)
    BY DEF Readers
  <2>2. CASE HeadIn(q, Reads)
    <3>1. PICK x : x = stream[q][1]
      OBVIOUS
    <3>2. stream'[q] # << >> /\ stream'[q][1] = x /\ x.name \in Reads /\ stream[q] # << >>
      BY <2>2, <3>1 DEF HeadIn
    <3>3. Reading(q, x)
      BY <2>1, <2>2, <3>1 DEF ReaderOk
    <3>4. \A e : Trained(x.call, e)' = Trained(x.call, e)
      BY <2>2, <3>1
    <3>5. Found(q, x.call) => Found(q, x.call)'
      BY <2>2, <3>1
    <3>6. HasRead(q, x)'
      BY <1>1, <3>3, <3>4 DEF Reading, HasRead
    <3>7. Reading(q, x)'
      BY <1>1, <3>3, <3>5, <3>6 DEF Reading
    <3>8. \A names : HeadIn(q, names)' <=> HeadIn(q, names)
      BY <3>1, <3>2 DEF HeadIn
    <3>9. QED
      BY <1>1, <2>1, <3>2, <3>7, <3>8 DEF ReaderOk
  <2>3. CASE ~ HeadIn(q, Reads)
    <3>1. seen[q] = NoRows /\ rows[q] = NoRows
      BY <2>1, <2>3 DEF ReaderOk, HeadIn, Reads
    <3>2. DOMAIN seen[q] = {} /\ DOMAIN rows[q] = {}
      BY <3>1 DEF NoRows
    <3>3. ASSUME NEW x, x.name # "fetch" PROVE Reading(q, x)'
      BY <1>1, <3>2, <3>3 DEF Reading, HasRead, Found
    <3>4. HeadIn(q, Reads)' => stream'[q][1].name # "fetch"
      BY <2>3 DEF HeadIn
    <3>5. QED
      BY <1>1, <3>1, <3>3, <3>4 DEF ReaderOk
  <2>4. QED
    BY <2>2, <2>3
<1>3. QED
  BY <1>1, <1>2 DEF Readers

\* What has been read stays right when a host moves: it launches no kernel that changes it.
LEMMA HostReaders ==
  ASSUME Control, Streams, Streams', Readers, NEW r \in Rank, Moves(r), NEW t, Launched(r, t),
         UNCHANGED <<reading, storage>>
  PROVE  Readers'
<1>1. /\ kind' = kind /\ program' = program /\ seen' = seen /\ rows' = rows
      /\ mem' = mem /\ tag' = tag /\ data' = data
  BY DEF Moves, reading, storage
<1>2. \A k, e : Trained(k, e)' = Trained(k, e)
  BY <1>1 DEF Trained, Named
<1>3. ASSUME NEW q \in Rank
      PROVE  /\ HeadIn(q, Reads) => stream'[q] # << >> /\ stream'[q][1] = stream[q][1]
             /\ HeadIn(q, Reads)' => HeadIn(q, Reads) \/ ~ HeadIn(q, {"fetch"})'
  <2>1. stream[q] # << >> => stream'[q] # << >> /\ stream'[q][1] = stream[q][1]
    BY HostHeads
  <2>2. CASE stream[q] # << >>
    BY <2>1, <2>2 DEF HeadIn
  <2>3. CASE stream[q] = << >> /\ q # r
    <3>1. stream'[q] = << >>
      BY <2>3, HostHeads
    <3>2. QED
      BY <2>3, <3>1 DEF HeadIn
  <2>4. CASE stream[q] = << >> /\ q = r
    <3>1. stream'[r] = t /\ t \in Seq(KernelSet) /\ Starts(t)
      BY <2>4, HostHeads DEF Launched
    <3>2. t # << >> => t[1].name # "fetch"
      BY <3>1 DEF Starts
    <3>3. QED
      BY <2>4, <3>1, <3>2 DEF HeadIn
  <2>5. QED
    BY <2>2, <2>3, <2>4
<1>4. \A q, k : Found(q, k)' <=> Found(q, k)
  BY <1>1, <1>2 DEF Found
<1>5. QED
  BY <1>1, <1>2, <1>3, <1>4, ReadersKept

\* Nor does a new call change what an earlier one must see.
LEMMA IssueReaders ==
  ASSUME Control, Streams, Streams', Readers, NEW op \in Op, NEW adjust \in BOOLEAN,
         NEW batch \in [Rank -> SUBSET Entry], Issue(op, adjust, batch)
  PROVE  Readers'
<1>1. /\ kind' = kind /\ stream' = stream /\ seen' = seen /\ rows' = rows
      /\ mem' = mem /\ tag' = tag /\ data' = data
  BY DEF Issue, reading, storage
<1>2. /\ [op |-> op, adjust |-> adjust, batch |-> batch] \in CallOf
      /\ program' = Append(program, [op |-> op, adjust |-> adjust, batch |-> batch])
      /\ Len(program) \in Nat
  BY Issued DEF Issue
<1>3. \A k \in 0 .. Len(program) + 1 : \A e : Trained(k, e)' = Trained(k, e)
  BY <1>2, TrainedGrown DEF Control
<1>4. \A q, names : HeadIn(q, names)' <=> HeadIn(q, names)
  BY <1>1 DEF HeadIn
<1>5. ASSUME NEW q \in Rank, HeadIn(q, Reads)
      PROVE  stream[q][1].call \in 0 .. Len(program) + 1
  <2>1. PICK x : x = stream[q][1]
    OBVIOUS
  <2>2. On(q, x) /\ x.name \in Reads
    BY <1>5, <2>1, HeadOn DEF HeadIn
  <2>3. x.call \in 1 .. Len(program)
    BY <2>2, ReadingAt
  <2>4. QED
    BY <1>2, <2>1, <2>3
<1>6. \A q \in Rank : \A e : HeadIn(q, Reads) => Trained(stream[q][1].call, e)' = Trained(stream[q][1].call, e)
  <2>1. ASSUME NEW q \in Rank, NEW e, HeadIn(q, Reads)
        PROVE  Trained(stream[q][1].call, e)' = Trained(stream[q][1].call, e)
    <3>1. PICK k \in 0 .. Len(program) + 1 : k = stream[q][1].call
      BY <1>5, <2>1
    <3>2. Trained(k, e)' = Trained(k, e)
      BY <1>3
    <3>3. QED
      BY <1>1, <3>1, <3>2
  <2>2. QED
    BY <2>1
<1>7. ASSUME NEW q \in Rank, HeadIn(q, Reads), Found(q, stream[q][1].call)
      PROVE  Found(q, stream[q][1].call)'
  <2>1. PICK k \in 0 .. Len(program) + 1 : k = stream[q][1].call
    BY <1>5, <1>7
  <2>2. Found(q, k)
    BY <1>7, <2>1
  <2>3. Found(q, k)'
    BY <1>1, <1>3, <2>2 DEF Found
  <2>4. QED
    BY <1>1, <2>1, <2>3
<1>8. \A q \in Rank : /\ HeadIn(q, Reads) => stream'[q] # << >> /\ stream'[q][1] = stream[q][1]
                      /\ HeadIn(q, Reads)' => HeadIn(q, Reads)
  BY <1>1, <1>4 DEF HeadIn
<1>9. QED
  BY <1>1, <1>6, <1>7, <1>8, ReadersKept

\* What a kernel that is not of a gather does to the storage: it touches the line and
\* the entries of its rank, and while others may read only what they do not.
Touches(r) ==
  /\ \A q \in Rank : q # r => tag'[q] = tag[q] /\ data'[q] = data[q]
  /\ \A f \in Entry : Owner[f] # r => mem'[f] = mem[f]
  /\ stream[r][1].name \notin Adjusts =>
       /\ data'[r] = data[r] /\ tag'[r].id \in {tag[r].id, "none"}
       /\ \A f \in Entry : f # tag[r].id => mem'[f] = mem[f]

\* The kernels that change lines or rows change those of entries their rank owns.
LEMMA WritersTouch ==
  ASSUME Control, Streams, Lines, NEW r \in Rank,
         RunUpdate(r) \/ RunChoose(r) \/ RunFill(r) \/ RunStep(r) \/ RunCopy(r) \/ RunStoreTags(r)
  PROVE  /\ Touches(r) /\ stream[r] # << >> /\ stream[r][1].name \notin Reads
         /\ UNCHANGED <<host, reading>>
<1>1. stream[r] # << >> => \A name : Runs(r, name) <=> stream[r][1].name = name
  BY HeadOn
<1>2. /\ mem \in [Entry -> Row] /\ tag \in [Rank -> Tag] /\ data \in [Rank -> Row]
      /\ tag[r] \in Tag
  BY DEF Lines
<1>3. \A f \in Entry : CopiedBack(r)[f] =
        IF tag[r].modified /\ tag[r].id = f THEN data[r] ELSE mem[f]
  BY CopyBack
<1>4. \A f \in Entry : Owner[f] # r => CopiedBack(r)[f] = mem[f]
  BY CopyBack
<1>5. UNCHANGED <<host, reading>>
  BY DEF RunUpdate, RunChoose, RunFill, RunStep, RunCopy, RunStoreTags
<1>6. CASE RunUpdate(r)
  <2>1. stream[r] # << >> /\ stream[r][1].name = "update"
    BY <1>1, <1>6 DEF RunUpdate, Runs
  <2>2. \/ mem' = mem /\ tag' = tag /\ data' = data
        \/ \E e : /\ mem'  = CopiedBack(r)
                  /\ tag'  = [tag EXCEPT ![r] = [id |-> e, modified |-> FALSE]]
                  /\ data' = [data EXCEPT ![r] = mem[e]]
    BY <1>6 DEF RunUpdate, storage
  <2>3. QED
    BY <1>2, <1>4, <1>5, <2>1, <2>2 DEF Touches, Adjusts, Reads
<1>7. CASE RunChoose(r)
  <2>1. stream[r] # << >> /\ stream[r][1].name = "choose"
    BY <1>1, <1>7 DEF RunChoose, Runs
  <2>2. QED
    BY <1>2, <1>5, <1>7, <2>1 DEF RunChoose, Touches, Adjusts, Reads
<1>8. CASE RunFill(r)
  <2>1. stream[r] # << >> /\ stream[r][1].name = "fill"
    BY <1>1, <1>8 DEF RunFill, Runs
  <2>2. QED
    BY <1>2, <1>5, <1>8, <2>1 DEF RunFill, Touches, Adjusts, Reads
<1>9. CASE RunStep(r)
  <2>1. stream[r] # << >> /\ stream[r][1].name = "step" /\ Now(r) = stream[r][1]
        /\ KernelOf(r, stream[r][1])
    BY <1>1, <1>9, HeadOn DEF RunStep, Runs
  <2>2. PICK e \in stream[r][1].ids : \E new :
          IF tag[r].id = e
          THEN /\ data' = [data EXCEPT ![r] = new]
               /\ tag'  = [tag EXCEPT ![r].modified = TRUE]
               /\ UNCHANGED mem
          ELSE mem' = [mem EXCEPT ![e] = new] /\ UNCHANGED <<tag, data>>
    BY <1>9, <2>1 DEF RunStep
  <2>3. Owner[e] = r
    BY <2>1 DEF KernelOf, Adjusts, Received
  <2>4. QED
    BY <1>2, <1>5, <2>1, <2>2, <2>3 DEF Touches, Adjusts, Reads
<1>10. CASE RunCopy(r)
  <2>1. stream[r] # << >> /\ stream[r][1].name = "copy"
    BY <1>1, <1>10 DEF RunCopy, Runs
  <2>2. QED
    BY <1>3, <1>4, <1>5, <1>10, <2>1 DEF RunCopy, Touches, Adjusts, Reads
<1>11. CASE RunStoreTags(r)
  <2>1. stream[r] # << >> /\ stream[r][1].name \in {"clean", "clear"}
    BY <1>1, <1>11 DEF RunStoreTags, Runs
  <2>2. \/ tag' = [tag EXCEPT ![r] = Empty]
        \/ tag' = [tag EXCEPT ![r].modified = FALSE]
    BY <1>11 DEF RunStoreTags
  <2>3. tag'[r].id \in {tag[r].id, "none"} /\ \A q \in Rank : q # r => tag'[q] = tag[q]
    BY <1>2, <2>2 DEF Tag, Empty
  <2>4. QED
    BY <1>5, <1>11, <2>1, <2>3 DEF RunStoreTags, Touches, Reads
<1>12. QED
  BY <1>6, <1>7, <1>8, <1>9, <1>10, <1>11

\* They keep what others have read: no kernel that reads the line is running.
LEMMA WritersReaders ==
  ASSUME Control, Lockstep, Streams, Streams', Lines, Readers, NEW r \in Rank,
         RunUpdate(r) \/ RunChoose(r) \/ RunFill(r) \/ RunStep(r) \/ RunCopy(r) \/ RunStoreTags(r),
         Ends(r) \/ \E e : Shrinks(r, e)
  PROVE  Readers'
<1>1. /\ Touches(r) /\ stream[r] # << >> /\ stream[r][1].name \notin Reads
      /\ kind' = kind /\ program' = program /\ seen' = seen /\ rows' = rows
  BY WritersTouch DEF host, reading
<1>2. \A k, e : Trained(k, e)' = Trained(k, e)
  BY <1>1 DEF Trained, Named
<1>3. \A q \in Rank : q # r => stream'[q] = stream[q]
  BY AfterEnd, AfterShrink
<1>4. ~ HeadIn(r, {"fetch"})'
  <2>1. CASE Ends(r)
    BY <1>1, <2>1, NextHead DEF Reads
  <2>2. CASE \E e : Shrinks(r, e)
    <3>1. PICK e : Shrinks(r, e)
      BY <2>2
    <3>2. PICK x \in KernelSet : x = stream[r][1]
      BY <3>1, AfterShrink
    <3>3. x.name = "step"
      BY <3>1, <3>2 DEF Shrinks
    <3>4. stream'[r][1] = [x EXCEPT !.ids = @ \ {e}]
      BY <3>1, <3>2, AfterShrink
    <3>5. stream'[r][1].name = "step"
      BY <3>2, <3>3, <3>4 DEF KernelSet
    <3>6. QED
      BY <3>5 DEF HeadIn
  <2>3. QED
    BY <2>1, <2>2
<1>5. ASSUME NEW q \in Rank, HeadIn(q, Reads), Found(q, stream[q][1].call)
      PROVE  Found(q, stream[q][1].call)'
  <2>1. q # r /\ stream'[q] = stream[q]
    BY <1>1, <1>3, <1>5 DEF HeadIn
  <2>2. PICK x : x = stream[q][1]
    OBVIOUS
  <2>3. On(q, x) /\ x.name \in Reads
    BY <1>5, <2>2, HeadOn DEF HeadIn
  <2>4. \A e \in x.ids : e \in Entry /\ Owner[e] \in Rank /\ (kind = "distributed" => Owner[e] = q)
    BY <2>3, ReadsItsOwn
  <2>5. DOMAIN seen[q] \subseteq x.ids
    <3>1. ReaderOk(q)
      BY DEF Readers
    <3>2. x.name = "fetch" => DOMAIN seen[q] = {}
      BY <2>2, <3>1 DEF ReaderOk, HeadIn, NoRows
    <3>3. QED
      BY <1>5, <2>2, <3>1, <3>2 DEF ReaderOk, Reading
  <2>6. ASSUME NEW e \in DOMAIN seen[q]
        PROVE  IF seen[q][e].id = e THEN data'[Owner[e]] = Trained(x.call, e)
               ELSE mem'[e] = Trained(x.call, e) /\ tag'[Owner[e]].id # e
    <3>1. IF seen[q][e].id = e THEN data[Owner[e]] = Trained(x.call, e)
          ELSE mem[e] = Trained(x.call, e) /\ tag[Owner[e]].id # e
      BY <1>5, <2>2, <2>6 DEF Found
    <3>2. e \in Entry /\ Owner[e] \in Rank /\ (kind = "distributed" => Owner[e] = q)
      BY <2>4, <2>5, <2>6
    <3>3. CASE Owner[e] # r
      BY <1>1, <3>1, <3>2, <3>3 DEF Touches
    <3>4. CASE Owner[e] = r
      <4>1. PICK y : y = stream[r][1] /\ On(r, y)
        BY <1>1, HeadOn
      <4>2. y.name \notin Adjusts
        BY <2>3, <3>2, <3>4, <4>1, Apart
      <4>3. /\ data'[r] = data[r] /\ tag'[r].id \in {tag[r].id, "none"}
            /\ \A f \in Entry : f # tag[r].id => mem'[f] = mem[f]
        BY <1>1, <4>1, <4>2 DEF Touches
      <4>4. e # "none"
        BY <3>2, OwnerAssumption
      <4>5. QED
        BY <3>1, <3>2, <3>4, <4>3, <4>4
    <3>5. QED
      BY <3>3, <3>4
  <2>7. QED
    BY <1>1, <1>2, <2>1, <2>2, <2>6 DEF Found
<1>6. ASSUME NEW q \in Rank
      PROVE  /\ HeadIn(q, Reads) => stream'[q] # << >> /\ stream'[q][1] = stream[q][1]
             /\ HeadIn(q, Reads)' => HeadIn(q, Reads) \/ ~ HeadIn(q, {"fetch"})'
  BY <1>1, <1>3, <1>4 DEF HeadIn
<1>7. QED
  BY <1>1, <1>2, <1>5, <1>6, ReadersKept

\* What the kernel at the head of r has read does not concern other ranks.
LEMMA OneReader ==
  ASSUME Readers, NEW r \in Rank, UNCHANGED <<host, storage>>,
         DOMAIN seen' = Rank, DOMAIN rows' = Rank,
         \A q \in Rank : q # r => seen'[q] = seen[q] /\ rows'[q] = rows[q] /\ stream'[q] = stream[q],
         ReaderOk(r)'
  PROVE  Readers'
<1>1. program' = program /\ mem' = mem /\ tag' = tag /\ data' = data
  BY DEF host, storage
<1>2. ASSUME NEW q \in Rank, q # r PROVE ReaderOk(q)'
  <2>1. ReaderOk(q)
    BY DEF Readers
  <2>2. seen'[q] = seen[q] /\ rows'[q] = rows[q] /\ stream'[q] = stream[q]
    BY <1>2
  <2>3. \A names : HeadIn(q, names)' <=> HeadIn(q, names)
    BY <2>2 DEF HeadIn
  <2>4. \A k, e : Trained(k, e)' = Trained(k, e)
    BY <1>1 DEF Trained, Named
  <2>5. \A x : Reading(q, x)' <=> Reading(q, x)
    BY <1>1, <2>2, <2>4 DEF Reading, HasRead, Found
  <2>6. QED
    BY <2>1, <2>2, <2>3, <2>5 DEF ReaderOk
<1>3. QED
  BY <1>2 DEF Readers

\* A block loads the tag of its line, which no update changes until it has read the row.
LEMMA LoadTagReaders ==
  ASSUME Control, Lockstep, Streams, Values, Readers, NEW r \in Rank, NEW e \in Entry, LoadTag(r, e)
  PROVE  Readers'
<1>1. /\ stream[r] # << >> /\ Now(r) = stream[r][1]
      /\ stream[r][1].name \in {"read", "try"}
  BY HeadOn DEF LoadTag, Runs
<1>2. PICK x : x = stream[r][1]
  OBVIOUS
<1>3. On(r, x) /\ x.name \in Reads /\ x.name # "fetch" /\ e \in x.ids
  BY <1>1, <1>2, HeadOn DEF LoadTag, Reads
<1>4. PICK o \in Rank : o = Owner[e] /\ (kind = "distributed" => o = r)
  BY <1>3, ReadsItsOwn
<1>5. /\ UNCHANGED <<host, stream, rows, storage>>
      /\ seen' = [seen EXCEPT ![r] = [f \in DOMAIN @ \cup {e} |-> IF f = e THEN tag[o] ELSE @[f]]]
  BY <1>4 DEF LoadTag
<1>6. /\ program' = program /\ mem' = mem /\ tag' = tag /\ data' = data /\ stream' = stream
      /\ rows' = rows
  BY <1>5 DEF host, storage
<1>7. \A k, f : Trained(k, f)' = Trained(k, f)
  BY <1>6 DEF Trained, Named
<1>8. Readers /\ ReaderOk(r) /\ Reading(r, x)
  BY <1>1, <1>2, <1>3 DEF Readers, ReaderOk, HeadIn
<1>9. /\ DOMAIN seen' = Rank /\ DOMAIN seen'[r] = DOMAIN seen[r] \cup {e} /\ seen'[r][e] = tag[o]
      /\ \A f \in DOMAIN seen[r] : f # e => seen'[r][f] = seen[r][f]
      /\ \A q \in Rank : q # r => seen'[q] = seen[q]
  BY <1>5, <1>8 DEF Readers
<1>10. IF tag[o].id = e THEN data[o] = Trained(x.call, e) ELSE mem[e] = Trained(x.call, e)
  <2>1. Cached(e) = Trained(x.call, e)
    BY <1>3, <1>4, Fresh
  <2>2. ~ Filling(o)
    <3>1. ASSUME NEW y, On(o, y) PROVE y.name # "fill"
      BY <1>3, <1>4, <3>1, Apart DEF Adjusts
    <3>2. QED
      BY <3>1, FillingOn
  <2>3. QED
    BY <1>4, <2>1, <2>2 DEF Cached
<1>11. Found(r, x.call)'
  <2>1. Found(r, x.call)
    BY <1>3, <1>8 DEF Reading
  <2>2. ASSUME NEW f \in DOMAIN seen'[r]
        PROVE  IF seen'[r][f].id = f THEN data[Owner[f]] = Trained(x.call, f)
               ELSE mem[f] = Trained(x.call, f) /\ tag[Owner[f]].id # f
    <3>1. CASE f = e
      BY <1>4, <1>9, <1>10, <3>1
    <3>2. CASE f # e
      <4>1. f \in DOMAIN seen[r] /\ seen'[r][f] = seen[r][f]
        BY <1>9, <2>2, <3>2
      <4>2. QED
        BY <2>1, <4>1 DEF Found
    <3>3. QED
      BY <3>1, <3>2
  <2>3. QED
    BY <1>6, <1>7, <2>2 DEF Found
<1>12. Reading(r, x)'
  <2>1. HasRead(r, x)'
    BY <1>6, <1>7, <1>8 DEF Reading, HasRead
  <2>2. QED
    BY <1>3, <1>6, <1>8, <1>9, <1>11, <2>1 DEF Reading
<1>13. ReaderOk(r)'
  <2>1. \A names : HeadIn(r, names)' <=> HeadIn(r, names)
    BY <1>6 DEF HeadIn
  <2>2. HeadIn(r, {"read", "try"}) /\ HeadIn(r, Reads)
    BY <1>1, <1>2, <1>3 DEF HeadIn
  <2>3. QED
    BY <1>2, <1>6, <1>12, <2>1, <2>2 DEF ReaderOk
<1>14. DOMAIN rows' = Rank /\ UNCHANGED <<host, storage>>
  BY <1>5, <1>8 DEF Readers
<1>15. \A q \in Rank : q # r => seen'[q] = seen[q] /\ rows'[q] = rows[q] /\ stream'[q] = stream[q]
  BY <1>6, <1>9
<1>16. QED
  BY <1>8, <1>9, <1>13, <1>14, <1>15, OneReader

\* A block has read the row of its entry.
LEMMA RowsRead ==
  ASSUME Readers, NEW r \in Rank, HeadIn(r, {"read", "try"}), NEW e \in DOMAIN seen[r], NEW row,
         row = Trained(stream[r][1].call, e) \/ (stream[r][1].name # "read" /\ row = Unfilled)
  PROVE  LET x   == stream[r][1]
             all == WithRow(r, e, row)
         IN  /\ DOMAIN all = DOMAIN rows[r] \cup {e} /\ DOMAIN all \subseteq DOMAIN seen[r]
             /\ DOMAIN all \subseteq x.ids
             /\ \A f \in DOMAIN all :
                  all[f] = Trained(x.call, f) \/ (x.name # "read" /\ all[f] = Unfilled)
<1>1. PICK x : x = stream[r][1]
  OBVIOUS
<1>2. PICK all : all = WithRow(r, e, row)
  OBVIOUS
<1>3. ReaderOk(r) /\ HeadIn(r, Reads) /\ x.name # "fetch"
  BY <1>1 DEF Readers, HeadIn, Reads
<1>4. Reading(r, x)
  BY <1>1, <1>3 DEF ReaderOk
<1>5. /\ DOMAIN all = DOMAIN rows[r] \cup {e}
      /\ \A f \in DOMAIN all : all[f] = IF f = e THEN row ELSE rows[r][f]
  BY <1>2 DEF WithRow
<1>6. \A f \in DOMAIN all :
        all[f] = Trained(x.call, f) \/ (x.name # "read" /\ all[f] = Unfilled)
  <2>1. ASSUME NEW f \in DOMAIN all
        PROVE  all[f] = Trained(x.call, f) \/ (x.name # "read" /\ all[f] = Unfilled)
    <3>1. CASE f = e
      BY <1>1, <1>5, <3>1
    <3>2. CASE f # e
      BY <1>4, <1>5, <3>2 DEF Reading, HasRead
    <3>3. QED
      BY <3>1, <3>2
  <2>2. QED
    BY <2>1
<1>7. DOMAIN all \subseteq DOMAIN seen[r] /\ DOMAIN all \subseteq x.ids
  BY <1>3, <1>4, <1>5 DEF Reading
<1>8. QED
  BY <1>1, <1>2, <1>5, <1>6, <1>7

\* The row where its tag sends it.
LEMMA RowFound ==
  ASSUME Readers, NEW r \in Rank, HeadIn(r, {"read", "try"}), NEW e \in DOMAIN seen[r]
  PROVE  /\ seen[r][e].id = e => data[Owner[e]] = Trained(stream[r][1].call, e)
         /\ seen[r][e].id # e => mem[e] = Trained(stream[r][1].call, e)
<1>1. ReaderOk(r) /\ HeadIn(r, Reads) /\ stream[r][1].name # "fetch"
  BY DEF Readers, HeadIn, Reads
<1>2. Found(r, stream[r][1].call)
  BY <1>1 DEF ReaderOk, Reading
<1>3. QED
  BY <1>2 DEF Found

\* The kernel that has read a part, and that has ended.
LEMMA PartRead ==
  ASSUME Readers, NEW r \in Rank, HeadIn(r, {"read", "try"}), NEW all,
         UNCHANGED <<host, storage, stream, seen>>, rows' = [rows EXCEPT ![r] = all],
         DOMAIN all \subseteq DOMAIN seen[r],
         \A f \in DOMAIN all : \/ all[f] = Trained(stream[r][1].call, f)
                               \/ stream[r][1].name # "read" /\ all[f] = Unfilled
  PROVE  Readers'
<1>1. PICK x : x = stream[r][1]
  OBVIOUS
<1>2. ReaderOk(r) /\ HeadIn(r, Reads) /\ x.name # "fetch" /\ DOMAIN seen = Rank /\ DOMAIN rows = Rank
  BY <1>1 DEF Readers, HeadIn, Reads
<1>3. Reading(r, x)
  BY <1>1, <1>2 DEF ReaderOk
<1>4. program' = program /\ mem' = mem /\ tag' = tag /\ data' = data /\ stream' = stream /\ seen' = seen
  BY DEF host, storage
<1>5. rows'[r] = all /\ DOMAIN rows' = Rank /\ \A q \in Rank : q # r => rows'[q] = rows[q]
  BY <1>2
<1>6. \A k, f : Trained(k, f)' = Trained(k, f)
  BY <1>4 DEF Trained, Named
<1>7. Reading(r, x)'
  <2>1. HasRead(r, x)'
    BY <1>1, <1>5, <1>6 DEF HasRead
  <2>2. Found(r, x.call)'
    BY <1>2, <1>3, <1>4, <1>6 DEF Reading, Found
  <2>3. QED
    BY <1>2, <1>3, <1>4, <1>5, <2>1, <2>2 DEF Reading
<1>8. ReaderOk(r)'
  <2>1. \A names : HeadIn(r, names)' <=> HeadIn(r, names)
    BY <1>4 DEF HeadIn
  <2>2. QED
    BY <1>1, <1>2, <1>4, <1>7, <2>1 DEF ReaderOk
<1>9. QED
  BY <1>2, <1>4, <1>5, <1>8, OneReader

\* A reading kernel that ends leaves nothing it has read.
LEMMA AllRead1 ==
  ASSUME Streams, Streams', Readers, NEW r \in Rank, Ends(r), stream[r][1].name # "try",
         UNCHANGED <<host, storage>>, DOMAIN seen' = Rank, DOMAIN rows' = Rank,
         seen'[r] = NoRows, rows'[r] = NoRows,
         \A q \in Rank : q # r => seen'[q] = seen[q] /\ rows'[q] = rows[q]
  PROVE  Readers'
<1>1. kind' = kind
  BY DEF host
<1>2. ~ HeadIn(r, {"fetch"})'
  BY <1>1, NextHead
<1>3. \A q \in Rank : q # r => stream'[q] = stream[q]
  BY AfterEnd
<1>4. ReaderOk(r)'
  <2>1. DOMAIN seen'[r] = {} /\ DOMAIN rows'[r] = {}
    BY DEF NoRows
  <2>2. ASSUME NEW x, x.name # "fetch" PROVE Reading(r, x)'
    BY <2>1, <2>2 DEF Reading, HasRead, Found
  <2>3. HeadIn(r, Reads)' => stream'[r][1].name # "fetch"
    BY <1>2 DEF HeadIn
  <2>4. QED
    BY <2>2, <2>3 DEF ReaderOk
<1>5. QED
  BY <1>3, <1>4, OneReader

\* A block that finds its tag in the line reads the row, and one that does not reads the raw
\* embedding: either is what the last step before the call made.  What the kernel ends with is right.
LEMMA ReadRowReaders ==
  ASSUME Control, Streams, Streams', Readers, NEW r \in Rank, NEW e \in Entry, ReadRow(r, e)
  PROVE  /\ Readers' /\ UNCHANGED <<host, storage>>
         /\ HeadIn(r, {"read"})
         /\ \/ UNCHANGED <<stream, sent, output>>
            \/ /\ Ends(r)
               /\ \E all :
                    /\ DOMAIN all = stream[r][1].ids
                    /\ \A f \in DOMAIN all : all[f] = Trained(stream[r][1].call, f)
                    /\ IF kind = "distributed"
                       THEN sent' = [sent EXCEPT ![stream[r][1].call][r] = all] /\ UNCHANGED output
                       ELSE output' = [output EXCEPT ![stream[r][1].call][r] = all] /\ UNCHANGED sent
<1>1. /\ stream[r] # << >> /\ Now(r) = stream[r][1] /\ stream[r][1].name = "read"
      /\ HeadIn(r, {"read"}) /\ HeadIn(r, {"read", "try"}) /\ e \in DOMAIN seen[r]
  BY HeadOn DEF ReadRow, Runs, HeadIn
<1>2. PICK x : x = stream[r][1]
  OBVIOUS
<1>3. PICK all : all = WithRow(r, e, IF seen[r][e].id = e THEN data[Owner[e]] ELSE mem[e])
  OBVIOUS
<1>4. /\ DOMAIN all \subseteq DOMAIN seen[r] /\ DOMAIN all \subseteq x.ids
      /\ \A f \in DOMAIN all : all[f] = Trained(x.call, f)
  <2>1. PICK row : row = IF seen[r][e].id = e THEN data[Owner[e]] ELSE mem[e]
    OBVIOUS
  <2>2. row = Trained(x.call, e) /\ all = WithRow(r, e, row)
    BY <1>1, <1>2, <1>3, <2>1, RowFound
  <2>3. QED
    BY <1>1, <1>2, <2>2, RowsRead
<1>5. /\ UNCHANGED <<host, storage>>
      /\ IF DOMAIN all # x.ids
         THEN /\ rows' = [rows EXCEPT ![r] = all]
              /\ UNCHANGED <<stream, seen, sent, output>>
         ELSE /\ IF kind = "distributed"
                 THEN sent' = [sent EXCEPT ![x.call][r] = all] /\ UNCHANGED output
                 ELSE output' = [output EXCEPT ![x.call][r] = all] /\ UNCHANGED sent
              /\ seen' = [seen EXCEPT ![r] = NoRows]
              /\ rows' = [rows EXCEPT ![r] = NoRows]
              /\ Ended(r)
  BY <1>1, <1>2, <1>3 DEF ReadRow
<1>6. CASE DOMAIN all # x.ids
  <2>1. Readers'
    BY <1>1, <1>2, <1>4, <1>5, <1>6, PartRead
  <2>2. QED
    BY <1>1, <1>5, <1>6, <2>1
<1>7. CASE DOMAIN all = x.ids
  <2>1. Ends(r)
    BY <1>1, <1>5, <1>7 DEF Ended, Ends
  <2>2. /\ DOMAIN seen' = Rank /\ DOMAIN rows' = Rank /\ seen'[r] = NoRows /\ rows'[r] = NoRows
        /\ \A q \in Rank : q # r => seen'[q] = seen[q] /\ rows'[q] = rows[q]
    BY <1>5, <1>7 DEF Readers
  <2>3. Readers'
    BY <1>1, <1>5, <2>1, <2>2, AllRead1
  <2>4. QED
    BY <1>1, <1>2, <1>4, <1>5, <1>7, <2>1, <2>3
<1>8. QED
  BY <1>6, <1>7

\* The same for a read-only cache, where a miss is left to the fetch.
LEMMA TryRowReaders ==
  ASSUME Control, Streams, Streams', Readers, NEW r \in Rank, NEW e \in Entry, TryRow(r, e)
  PROVE  /\ Readers' /\ UNCHANGED <<host, storage, sent, output>>
         /\ HeadIn(r, {"try"})
         /\ UNCHANGED stream \/ Ends(r)
<1>1. /\ stream[r] # << >> /\ Now(r) = stream[r][1] /\ stream[r][1].name = "try"
      /\ HeadIn(r, {"try"}) /\ HeadIn(r, {"read", "try"}) /\ e \in DOMAIN seen[r]
  BY HeadOn DEF TryRow, Runs, HeadIn
<1>2. PICK x : x = stream[r][1]
  OBVIOUS
<1>3. PICK all : all = WithRow(r, e, IF seen[r][e].id = e THEN data[Owner[e]] ELSE Unfilled)
  OBVIOUS
<1>4. /\ DOMAIN all \subseteq DOMAIN seen[r] /\ DOMAIN all \subseteq x.ids
      /\ \A f \in DOMAIN all : all[f] = Trained(x.call, f) \/ all[f] = Unfilled
  <2>1. PICK row : row = IF seen[r][e].id = e THEN data[Owner[e]] ELSE Unfilled
    OBVIOUS
  <2>2. (row = Trained(x.call, e) \/ row = Unfilled) /\ all = WithRow(r, e, row)
    BY <1>1, <1>2, <1>3, <2>1, RowFound
  <2>3. QED
    BY <1>1, <1>2, <2>2, RowsRead, ZenonT(60)
<1>5. /\ UNCHANGED <<host, storage, sent, output>>
      /\ rows' = [rows EXCEPT ![r] = all]
      /\ IF DOMAIN all # x.ids THEN UNCHANGED <<stream, seen>>
         ELSE seen' = [seen EXCEPT ![r] = NoRows] /\ Ended(r)
  BY <1>1, <1>2, <1>3 DEF TryRow
<1>6. CASE DOMAIN all # x.ids
  <2>1. Readers'
    BY <1>1, <1>2, <1>4, <1>5, <1>6, PartRead
  <2>2. QED
    BY <1>1, <1>5, <1>6, <2>1
<1>7. CASE DOMAIN all = x.ids
  <2>1. Ends(r)
    BY <1>1, <1>5, <1>7 DEF Ended, Ends
  <2>2. /\ DOMAIN seen' = Rank /\ DOMAIN rows' = Rank /\ seen'[r] = NoRows /\ rows'[r] = all
        /\ \A q \in Rank : q # r => seen'[q] = seen[q] /\ rows'[q] = rows[q]
    BY <1>5, <1>7 DEF Readers
  <2>3. kind' = kind /\ program' = program
    BY <1>5 DEF host
  <2>4. HeadIn(r, {"fetch"})' /\ stream'[r][1].call = x.call
    BY <1>1, <1>2, <2>1, <2>3, NextHead
  <2>5. PICK y : y = stream'[r][1]
    OBVIOUS
  <2>6. y.name = "fetch" /\ y.call = x.call /\ stream'[r] # << >>
    BY <2>4, <2>5 DEF HeadIn
  <2>7. KernelOf(r, y)
    <3>1. stream'[r] \in Seq(KernelSet)
      BY DEF Streams
    <3>2. Len(stream'[r]) \in Nat /\ Len(stream'[r]) > 0
      BY <2>6, <3>1
    <3>3. On(r, y)'
      BY <2>5, <3>2 DEF On
    <3>4. KernelOf(r, y)'
      BY <3>3 DEF Streams, AllPlaced, Placed
    <3>5. QED
      BY <2>3, <3>4 DEF KernelOf, Received, Named
  <2>8. y.ids = x.ids
    <3>1. KernelOf(r, x)
      BY <1>1, <1>2, HeadOn
    <3>2. QED
      BY <1>1, <1>2, <2>6, <2>7, <3>1 DEF KernelOf
  <2>9. Reading(r, y)'
    <3>1. \A k, f : Trained(k, f)' = Trained(k, f)
      BY <2>3 DEF Trained, Named
    <3>2. HasRead(r, y)'
      BY <1>4, <2>2, <2>6, <3>1 DEF HasRead
    <3>3. QED
      BY <1>7, <2>2, <2>6, <2>8, <3>2 DEF Reading
  <2>10. ReaderOk(r)'
    <3>1. HeadIn(r, Reads)'
      BY <2>4 DEF HeadIn, Reads
    <3>2. QED
      BY <2>2, <2>5, <2>9, <3>1 DEF ReaderOk
  <2>11. \A q \in Rank : q # r => stream'[q] = stream[q]
    BY <2>1, AfterEnd
  <2>12. Readers'
    BY <1>5, <2>2, <2>10, <2>11, OneReader
  <2>13. QED
    BY <1>1, <1>5, <2>1, <2>12
<1>8. QED
  BY <1>6, <1>7

\* The fetch gets the rows that were missed: the raw embedding is never trained.
LEMMA FetchReaders ==
  ASSUME Control, Lockstep, Streams, Streams', Lines, Values, Readers, NEW r \in Rank, RunFetch(r)
  PROVE  /\ Readers' /\ UNCHANGED <<host, storage, sent>> /\ Ends(r) /\ HeadIn(r, {"fetch"})
         /\ \E all : /\ output' = [output EXCEPT ![stream[r][1].call][r] = all]
                     /\ \A f \in DOMAIN all : all[f] = Trained(stream[r][1].call, f)
<1>1. /\ stream[r] # << >> /\ Now(r) = stream[r][1] /\ stream[r][1].name = "fetch"
      /\ HeadIn(r, {"fetch"}) /\ ~ HeadIn(r, {"read", "try"}) /\ HeadIn(r, Reads)
      /\ KernelOf(r, stream[r][1])
  BY HeadOn DEF RunFetch, Runs, HeadIn, Reads
<1>2. PICK x : x = stream[r][1] /\ On(r, x) /\ x.name \in Reads
  BY <1>1, HeadOn DEF Reads
<1>3. PICK all : all = [e \in x.ids |-> IF rows[r][e] = Unfilled THEN mem[e] ELSE rows[r][e]]
  OBVIOUS
<1>4. kind = "readonly"
  BY <1>1 DEF KernelOf
<1>5. /\ output' = [output EXCEPT ![x.call][r] = all] /\ rows' = [rows EXCEPT ![r] = NoRows]
      /\ UNCHANGED <<host, seen, sent, storage>> /\ Ends(r)
  BY <1>1, <1>2, <1>3 DEF RunFetch, Ended, Ends
<1>6. ReaderOk(r) /\ seen[r] = NoRows /\ Reading(r, x) /\ DOMAIN seen = Rank /\ DOMAIN rows = Rank
  BY <1>1, <1>2 DEF Readers, ReaderOk
<1>7. Readers'
  <2>1. /\ DOMAIN seen' = Rank /\ DOMAIN rows' = Rank /\ seen'[r] = NoRows /\ rows'[r] = NoRows
        /\ \A q \in Rank : q # r => seen'[q] = seen[q] /\ rows'[q] = rows[q]
    BY <1>5, <1>6
  <2>2. QED
    BY <1>1, <1>5, <2>1, AllRead1
<1>8. ASSUME NEW f \in DOMAIN all PROVE all[f] = Trained(x.call, f)
  <2>1. f \in x.ids /\ all[f] = IF rows[r][f] = Unfilled THEN mem[f] ELSE rows[r][f]
    BY <1>3, <1>8
  <2>2. f \in Entry /\ f \in DOMAIN rows[r]
    BY <1>1, <1>2, <1>6, <2>1, ReadsItsOwn DEF Reading
  <2>3. CASE rows[r][f] = Unfilled
    <3>1. Cached(f) = Trained(x.call, f)
      BY <1>2, <1>4, <2>2, Fresh
    <3>2. Owner[f] \in Rank /\ f # "none"
      BY <2>2, OwnerAssumption
    <3>3. LineOk(Owner[f])
      BY <3>2 DEF Lines
    <3>4. Cached(f) = mem[f]
      BY <1>4, <3>2, <3>3 DEF Cached, LineOk
    <3>5. QED
      BY <2>1, <2>3, <3>1, <3>4
  <2>4. CASE rows[r][f] # Unfilled
    BY <1>6, <2>1, <2>2, <2>4 DEF Reading, HasRead
  <2>5. QED
    BY <2>3, <2>4
<1>9. QED
  BY <1>1, <1>2, <1>5, <1>7, <1>8

\* Collecting the rows reads no line.
LEMMA CollectReaders ==
  ASSUME Control, Streams, Streams', Readers, NEW r \in Rank, Collect(r)
  PROVE  /\ Readers' /\ UNCHANGED <<host, storage, sent>> /\ Ends(r) /\ HeadIn(r, {"collect"})
<1>1. /\ stream[r] # << >> /\ stream[r][1].name = "collect"
      /\ HeadIn(r, {"collect"}) /\ ~ HeadIn(r, {"read", "try"}) /\ ~ HeadIn(r, Reads)
  BY HeadOn DEF Collect, Runs, HeadIn, Reads
<1>2. UNCHANGED <<host, seen, rows, sent, storage>> /\ Ends(r)
  BY <1>1 DEF Collect, Ended, Ends
<1>3. ReaderOk(r) /\ seen[r] = NoRows /\ rows[r] = NoRows /\ DOMAIN seen = Rank /\ DOMAIN rows = Rank
  BY <1>1 DEF Readers, ReaderOk
<1>4. /\ DOMAIN seen' = Rank /\ DOMAIN rows' = Rank /\ seen'[r] = NoRows /\ rows'[r] = NoRows
      /\ \A q \in Rank : q # r => seen'[q] = seen[q] /\ rows'[q] = rows[q]
  BY <1>2, <1>3
<1>5. QED
  BY <1>1, <1>2, <1>4, AllRead1

-----------------------------------------------------------------------------
(***************************************************************************)
(* What has been gathered and sent.                                        *)
(***************************************************************************)
Right(k, out) == \A e \in DOMAIN out : out[e] = Trained(k, e)

\* A gather that has returned has sent the rows it was asked for, or is reading them.
Sends(k, r) ==
  kind = "distributed" /\ program[k].op = "gather" /\ done[r] >= k =>
    \/ \E x : On(r, x) /\ x.name = "read" /\ x.call = k
    \/ Received(k, r) \subseteq DOMAIN sent[k][r]

Results ==
  /\ DOMAIN sent = 1 .. MaxOps /\ DOMAIN output = 1 .. MaxOps
  /\ \A k \in 1 .. MaxOps : DOMAIN sent[k] = Rank /\ DOMAIN output[k] = Rank
  /\ \A k \in 1 .. MaxOps, r \in Rank :
       IF k <= Len(program) THEN Right(k, sent[k][r]) /\ Right(k, output[k][r]) /\ Sends(k, r)
       ELSE sent[k][r] = NoRows /\ output[k][r] = NoRows

\* At first there are no results.
LEMMA InitResults == Init => Results
<1> SUFFICES ASSUME Init PROVE Results
  OBVIOUS
<1>1. Len(program) = 0
  BY DEF Init
<1>2. \A k \in 1 .. MaxOps : ~ (k <= Len(program))
  BY <1>1, MaxOpsAssumption
<1>3. QED
  BY <1>2 DEF Init, Results

\* Results of a call do not change with later calls.
LEMMA IssueResults ==
  ASSUME Control, Results, NEW op \in Op, NEW adjust \in BOOLEAN,
         NEW batch \in [Rank -> SUBSET Entry], Issue(op, adjust, batch)
  PROVE  Results'
<1>1. /\ [op |-> op, adjust |-> adjust, batch |-> batch] \in CallOf
      /\ Len(program') = Len(program) + 1 /\ Len(program) \in Nat
      /\ \A k \in 1 .. Len(program) : program'[k] = program[k]
      /\ program' = Append(program, [op |-> op, adjust |-> adjust, batch |-> batch])
  BY Issued DEF Issue
<1>2. \A k \in 0 .. Len(program) + 1 : \A e : Trained(k, e)' = Trained(k, e)
  BY <1>1, TrainedGrown DEF Control
<1>3. kind' = kind /\ done' = done /\ stream' = stream /\ sent' = sent /\ output' = output
  BY DEF Issue, reading
<1>4. ASSUME NEW k \in 1 .. MaxOps, NEW r \in Rank
      PROVE  IF k <= Len(program')
             THEN Right(k, sent[k][r])' /\ Right(k, output[k][r])' /\ Sends(k, r)'
             ELSE sent'[k][r] = NoRows /\ output'[k][r] = NoRows
  <2>1. CASE k <= Len(program)
    <3>1. k \in 1 .. Len(program) /\ k <= Len(program')
      BY <1>1, <2>1, MaxOpsAssumption
    <3>2. Right(k, sent[k][r]) /\ Right(k, output[k][r]) /\ Sends(k, r)
      BY <2>1 DEF Results
    <3>3. \A e : Trained(k, e)' = Trained(k, e)
      BY <1>1, <1>2, <3>1
    <3>4. Right(k, sent[k][r])' /\ Right(k, output[k][r])'
      BY <1>3, <3>2, <3>3 DEF Right
    <3>5. Received(k, r)' = Received(k, r) /\ program'[k] = program[k]
      BY <1>1, <3>1 DEF Received, Named
    <3>6. Sends(k, r)'
      BY <1>3, <3>2, <3>5 DEF Sends, On
    <3>7. QED
      BY <3>1, <3>4, <3>6
  <2>2. CASE ~ (k <= Len(program))
    <3>1. sent[k][r] = NoRows /\ output[k][r] = NoRows
      BY <2>2 DEF Results
    <3>2. ~ (done[r] >= k)
      BY <1>1, <2>2, MaxOpsAssumption DEF Control, Where
    <3>3. Sends(k, r)'
      BY <1>3, <3>2 DEF Sends
    <3>4. Right(k, sent[k][r])' /\ Right(k, output[k][r])'
      <4>1. DOMAIN NoRows = {}
        BY DEF NoRows
      <4>2. QED
        BY <1>3, <3>1, <4>1 DEF Right
    <3>5. QED
      BY <1>3, <3>1, <3>3, <3>4
  <2>3. QED
    BY <2>1, <2>2
<1>5. QED
  BY <1>3, <1>4 DEF Results

\* While no call is issued, what is read stays right.
LEMMA ResultsKept ==
  ASSUME Results, UNCHANGED program,
         DOMAIN sent' = 1 .. MaxOps, DOMAIN output' = 1 .. MaxOps,
         \A k \in 1 .. MaxOps : DOMAIN sent'[k] = Rank /\ DOMAIN output'[k] = Rank,
         \A k \in 1 .. MaxOps, r \in Rank :
           \/ sent'[k][r] = sent[k][r]
           \/ k <= Len(program) /\ Right(k, sent'[k][r]),
         \A k \in 1 .. MaxOps, r \in Rank :
           \/ output'[k][r] = output[k][r]
           \/ k <= Len(program) /\ Right(k, output'[k][r]),
         \A k \in 1 .. MaxOps, r \in Rank : k <= Len(program) => (Sends(k, r) => Sends(k, r)')
  PROVE  Results'
<1>1. program' = program
  OBVIOUS
<1>2. ASSUME NEW k, NEW out PROVE Right(k, out)' <=> Right(k, out)
  <2>1. \A e : Trained(k, e)' = Trained(k, e)
    BY <1>1 DEF Trained, Named
  <2>2. QED
    BY <2>1 DEF Right
<1>3. ASSUME NEW k \in 1 .. MaxOps, NEW r \in Rank
      PROVE  IF k <= Len(program)
             THEN Right(k, sent'[k][r]) /\ Right(k, output'[k][r]) /\ Sends(k, r)'
             ELSE sent'[k][r] = NoRows /\ output'[k][r] = NoRows
  <2>1. IF k <= Len(program) THEN Right(k, sent[k][r]) /\ Right(k, output[k][r]) /\ Sends(k, r)
        ELSE sent[k][r] = NoRows /\ output[k][r] = NoRows
    BY DEF Results
  <2>2. QED
    BY <2>1
<1>4. ASSUME NEW k \in 1 .. MaxOps, NEW r \in Rank
      PROVE  IF k <= Len(program')
             THEN Right(k, sent[k][r])' /\ Right(k, output[k][r])' /\ Sends(k, r)'
             ELSE sent'[k][r] = NoRows /\ output'[k][r] = NoRows
  <2>1. PICK s, o : s = sent'[k][r] /\ o = output'[k][r]
    OBVIOUS
  <2>2. (Right(k, s)' <=> Right(k, s)) /\ (Right(k, o)' <=> Right(k, o))
    BY <1>2
  <2>3. (Right(k, sent[k][r])' <=> Right(k, s)') /\ (Right(k, output[k][r])' <=> Right(k, o)')
    BY <2>1 DEF Right
  <2>4. QED
    BY <1>1, <1>3, <2>1, <2>2, <2>3
<1>5. QED
  BY <1>4 DEF Results

\* A gather that returns has launched the kernel that will send its rows, if any are asked for.
LEMMA HostResults ==
  ASSUME Control, Streams, Streams', Results, NEW r \in Rank, Moves(r), NEW t, Launched(r, t),
         UNCHANGED reading
  PROVE  Results'
<1>1. program' = program /\ kind' = kind /\ sent' = sent /\ output' = output
  BY DEF Moves, reading
<1>2. /\ done[r] \in Nat /\ done[r] + 1 \in 1 .. Len(program) /\ Call(r) = program[done[r] + 1]
      /\ Len(program) \in Nat
  BY Calls DEF Moves, Control
<1>3. \A q \in Rank : q # r => done'[q] = done[q]
  BY DEF Control, Moves, EntersExchange, EntersBarrier, Waits, Returns, Enter
<1>4. \/ done'[r] = done[r]
      \/ done'[r] = done[r] + 1 /\ Returns(r)
  BY DEF Control, Moves, EntersExchange, EntersBarrier, Waits, Returns
<1>5. ASSUME NEW k \in 1 .. MaxOps, NEW q \in Rank, k <= Len(program), Sends(k, q)
      PROVE  Sends(k, q)'
  <2>1. \A x : On(q, x) => On(q, x)'
    BY HostHeads
  <2>2. Received(k, q)' = Received(k, q)
    BY <1>1 DEF Received, Named
  <2>3. CASE done'[q] >= k => done[q] >= k
    BY <1>1, <1>5, <2>1, <2>2, <2>3 DEF Sends
  <2>4. CASE done'[q] >= k /\ ~ (done[q] >= k)
    <3>1. q = r /\ k = done[r] + 1 /\ Returns(r) /\ Call(r) = program[k]
      BY <1>2, <1>3, <1>4, <2>4
    <3>2. ASSUME kind = "distributed", program[k].op = "gather", Received(k, r) # {}
          PROVE  \E x : On(r, x)' /\ x.name = "read" /\ x.call = k
      <4>1. PICK i \in 1 .. Len(t) : t[i].name = "read"
        BY <3>1, <3>2 DEF Launched
      <4>2. PICK x : x = t[i]
        OBVIOUS
      <4>3. x.call = k /\ x.name = "read"
        BY <3>1, <4>1, <4>2 DEF Launched
      <4>4. On(r, x)'
        BY <4>2, HostHeads
      <4>5. QED
        BY <4>3, <4>4
    <3>3. QED
      BY <1>1, <2>2, <3>1, <3>2 DEF Sends
  <2>5. QED
    BY <2>3, <2>4
<1>6. \A k \in 1 .. MaxOps : DOMAIN sent'[k] = Rank /\ DOMAIN output'[k] = Rank
  BY <1>1 DEF Results
<1>7. DOMAIN sent' = 1 .. MaxOps /\ DOMAIN output' = 1 .. MaxOps
  BY <1>1 DEF Results
<1>8. QED
  BY <1>1, <1>5, <1>6, <1>7, ResultsKept

\* A kernel stays on its stream until it runs.
LEMMA StaysOn ==
  ASSUME Streams, NEW r \in Rank, NEW q \in Rank, NEW x, On(q, x),
         \/ UNCHANGED stream
         \/ Ends(r) /\ (q # r \/ x # stream[r][1])
         \/ x.name # "step" /\ \E e : Shrinks(r, e)
  PROVE  On(q, x)'
<1>1. PICK i \in 1 .. Len(stream[q]) : x = stream[q][i]
  BY DEF On
<1>2. CASE UNCHANGED stream
  BY <1>1, <1>2 DEF On
<1>3. CASE Ends(r) /\ (q # r \/ x # stream[r][1])
  <2>1. CASE q # r
    BY <1>1, <1>3, <2>1, AfterEnd DEF On
  <2>2. CASE q = r
    <3>1. i # 1
      BY <1>1, <1>3, <2>2
    <3>2. i - 1 \in 1 .. Len(stream'[r]) /\ (i - 1) + 1 = i
      BY <1>1, <1>3, <2>2, <3>1, AfterEnd
    <3>3. stream'[r][i - 1] = x
      BY <1>1, <1>3, <2>2, <3>2, AfterEnd
    <3>4. QED
      BY <2>2, <3>2, <3>3 DEF On
  <2>3. QED
    BY <2>1, <2>2
<1>4. CASE x.name # "step" /\ \E e : Shrinks(r, e)
  <2>1. PICK e : Shrinks(r, e)
    BY <1>4
  <2>2. CASE q # r
    BY <1>1, <2>1, <2>2, AfterShrink DEF On
  <2>3. CASE q = r
    <3>1. i # 1
      BY <1>1, <1>4, <2>1, <2>3 DEF Shrinks
    <3>2. Len(stream'[r]) = Len(stream[r])
      BY <2>1, AfterShrink
    <3>3. i \in 1 .. Len(stream'[r])
      BY <1>1, <2>3, <3>2
    <3>4. stream'[r][i] = x
      BY <1>1, <2>1, <2>3, <3>1, <3>3, AfterShrink
    <3>5. QED
      BY <2>3, <3>3, <3>4 DEF On
  <2>4. QED
    BY <2>2, <2>3
<1>5. QED
  BY <1>2, <1>3, <1>4

\* Results stay when a kernel that does not read ends.
LEMMA OtherResults ==
  ASSUME Streams, Results, NEW r \in Rank, UNCHANGED <<host, sent, output>>,
         \/ UNCHANGED stream
         \/ Ends(r) /\ stream[r][1].name # "read"
         \/ \E e : Shrinks(r, e)
  PROVE  Results'
<1>1. program' = program /\ kind' = kind /\ done' = done /\ sent' = sent /\ output' = output
  BY DEF host
<1>2. ASSUME NEW k, NEW q \in Rank, Sends(k, q) PROVE Sends(k, q)'
  <2>1. \A x : On(q, x) /\ x.name = "read" => On(q, x)'
    BY StaysOn
  <2>2. Received(k, q)' = Received(k, q)
    BY <1>1 DEF Received, Named
  <2>3. QED
    BY <1>1, <1>2, <2>1, <2>2 DEF Sends
<1>3. /\ DOMAIN sent' = 1 .. MaxOps /\ DOMAIN output' = 1 .. MaxOps
      /\ \A k \in 1 .. MaxOps : DOMAIN sent'[k] = Rank /\ DOMAIN output'[k] = Rank
  BY <1>1 DEF Results
<1>4. QED
  BY <1>1, <1>2, <1>3, ResultsKept

\* A reading kernel that ends leaves its rows where the others, or its rank, take them.
LEMMA ReadResults ==
  ASSUME Control, Streams, Results, NEW r \in Rank, UNCHANGED host, Ends(r), HeadIn(r, {"read"}),
         NEW all, DOMAIN all = stream[r][1].ids,
         \A f \in DOMAIN all : all[f] = Trained(stream[r][1].call, f),
         IF kind = "distributed"
         THEN sent' = [sent EXCEPT ![stream[r][1].call][r] = all] /\ UNCHANGED output
         ELSE output' = [output EXCEPT ![stream[r][1].call][r] = all] /\ UNCHANGED sent
  PROVE  Results'
<1>1. program' = program /\ kind' = kind /\ done' = done
  BY DEF host
<1>2. PICK x : x = stream[r][1]
  OBVIOUS
<1>3. x.name = "read" /\ On(r, x) /\ KernelOf(r, x) /\ stream[r] # << >>
  BY <1>2, HeadOn DEF HeadIn
<1>4. PICK c : c = x.call
  OBVIOUS
<1>5. c \in 1 .. Len(program) /\ c \in 1 .. MaxOps /\ c <= Len(program)
  <2>1. c \in 1 .. Len(program)
    BY <1>3, <1>4, ReadingAt DEF Reads
  <2>2. Len(program) \in Nat /\ Len(program) <= MaxOps
    BY Calls DEF Control, Program
  <2>3. QED
    BY <2>1, <2>2, MaxOpsAssumption
<1>6. Right(c, all)
  BY <1>2, <1>4 DEF Right
<1>7. IF kind = "distributed"
      THEN sent' = [sent EXCEPT ![c][r] = all] /\ output' = output
      ELSE output' = [output EXCEPT ![c][r] = all] /\ sent' = sent
  BY <1>2, <1>4
<1>8. /\ DOMAIN sent = 1 .. MaxOps /\ DOMAIN output = 1 .. MaxOps
      /\ \A k \in 1 .. MaxOps : DOMAIN sent[k] = Rank /\ DOMAIN output[k] = Rank
  BY DEF Results
<1>9. /\ DOMAIN sent' = 1 .. MaxOps /\ DOMAIN output' = 1 .. MaxOps
      /\ \A k \in 1 .. MaxOps : DOMAIN sent'[k] = Rank /\ DOMAIN output'[k] = Rank
  BY <1>5, <1>7, <1>8
<1>10. \A k \in 1 .. MaxOps, q \in Rank :
         /\ sent'[k][q] = IF kind = "distributed" /\ k = c /\ q = r THEN all ELSE sent[k][q]
         /\ output'[k][q] = IF kind # "distributed" /\ k = c /\ q = r THEN all ELSE output[k][q]
  <2>1. CASE kind = "distributed"
    BY <1>5, <1>7, <1>8, <2>1
  <2>2. CASE kind # "distributed"
    BY <1>5, <1>7, <1>8, <2>2
  <2>3. QED
    BY <2>1, <2>2
<1>11. ASSUME NEW k \in 1 .. MaxOps, NEW q \in Rank, Sends(k, q), k <= Len(program)
       PROVE  Sends(k, q)'
  <2>1. Received(k, q)' = Received(k, q)
    BY <1>1 DEF Received, Named
  <2>2. CASE kind # "distributed"
    BY <1>1, <2>2 DEF Sends
  <2>3. CASE kind = "distributed" /\ k = c /\ q = r
    <3>1. x.ids = Received(c, r)
      BY <1>3, <1>4, <2>3 DEF KernelOf
    <3>2. DOMAIN sent'[k][q] = Received(k, q)
      BY <1>2, <1>10, <2>3, <3>1
    <3>3. QED
      BY <2>1, <3>2 DEF Sends
  <2>4. CASE kind = "distributed" /\ ~ (k = c /\ q = r)
    <3>1. sent'[k][q] = sent[k][q]
      BY <1>10, <2>4
    <3>2. \A y : On(q, y) /\ y.call = k => On(q, y)'
      BY <1>2, <1>4, <2>4, StaysOn
    <3>3. QED
      BY <1>1, <1>11, <2>1, <3>1, <3>2 DEF Sends
  <2>5. QED
    BY <2>2, <2>3, <2>4
<1>12. QED
  BY <1>1, <1>5, <1>6, <1>9, <1>10, <1>11, ResultsKept

\* One that gives its rank its rows.
LEMMA OutputResults ==
  ASSUME Control, Streams, Results, NEW r \in Rank, UNCHANGED <<host, sent>>, Ends(r),
         stream[r][1].name # "read", NEW c \in 1 .. Len(program), NEW all,
         output' = [output EXCEPT ![c][r] = all], Right(c, all)
  PROVE  Results'
<1>1. program' = program /\ kind' = kind /\ done' = done /\ sent' = sent
  BY DEF host
<1>2. c \in 1 .. MaxOps /\ c <= Len(program)
  <2>1. Len(program) \in Nat /\ Len(program) <= MaxOps
    BY Calls DEF Control, Program
  <2>2. QED
    BY <2>1, MaxOpsAssumption
<1>3. /\ DOMAIN sent = 1 .. MaxOps /\ DOMAIN output = 1 .. MaxOps
      /\ \A k \in 1 .. MaxOps : DOMAIN sent[k] = Rank /\ DOMAIN output[k] = Rank
  BY DEF Results
<1>4. /\ DOMAIN sent' = 1 .. MaxOps /\ DOMAIN output' = 1 .. MaxOps
      /\ \A k \in 1 .. MaxOps : DOMAIN sent'[k] = Rank /\ DOMAIN output'[k] = Rank
  BY <1>1, <1>2, <1>3
<1>5. \A k \in 1 .. MaxOps, q \in Rank :
        output'[k][q] = IF k = c /\ q = r THEN all ELSE output[k][q]
  BY <1>2, <1>3
<1>6. ASSUME NEW k, NEW q \in Rank, Sends(k, q) PROVE Sends(k, q)'
  <2>1. \A x : On(q, x) /\ x.name = "read" => On(q, x)'
    BY StaysOn
  <2>2. Received(k, q)' = Received(k, q)
    BY <1>1 DEF Received, Named
  <2>3. QED
    BY <1>1, <1>6, <2>1, <2>2 DEF Sends
<1>7. QED
  BY <1>1, <1>2, <1>4, <1>5, <1>6, ResultsKept

\* The exchange brings every rank the rows of all owners.
LEMMA CollectResults ==
  ASSUME Control, Streams, Results, NEW r \in Rank, Collect(r)
  PROVE  Results'
<1>1. PICK x : x = stream[r][1]
  OBVIOUS
<1>2. /\ stream[r] # << >> /\ x.name = "collect" /\ Now(r) = x /\ Placed(r, x) /\ KernelOf(r, x)
  BY <1>1, HeadOn DEF Collect, Runs
<1>3. PICK c : c = x.call
  OBVIOUS
<1>4. /\ AllRead(c) /\ UNCHANGED <<host, sent>> /\ Ends(r)
      /\ output' = [output EXCEPT ![c][r] = [e \in x.ids |-> sent[c][Owner[e]][e]]]
  BY <1>2, <1>3 DEF Collect, Ended, Ends
<1>5. /\ c \in 1 .. Len(program) /\ program[c].op = "gather" /\ c \in 1 .. MaxOps /\ c <= Len(program)
      /\ kind = "distributed" /\ x.ids = program[c].batch[r]
  <2>1. Len(program) \in Nat /\ Len(program) <= MaxOps /\ done[r] \in Nat /\ done[r] <= Len(program)
    BY Calls DEF Control, Program, Where
  <2>2. c \in 1 .. done[r] /\ program[c].op = "gather"
    BY <1>2, <1>3 DEF Placed, Reads, Adjusts
  <2>3. kind = "distributed" /\ x.ids = program[c].batch[r]
    BY <1>2, <1>3 DEF KernelOf
  <2>4. QED
    BY <2>1, <2>2, <2>3, MaxOpsAssumption
<1>6. PICK all : all = [e \in x.ids |-> sent[c][Owner[e]][e]]
  OBVIOUS
<1>7. ASSUME NEW e \in DOMAIN all PROVE all[e] = Trained(c, e)
  <2>1. e \in x.ids /\ all[e] = sent[c][Owner[e]][e]
    BY <1>6, <1>7
  <2>2. e \in Entry /\ e \in Named(c)
    BY <1>5, <2>1, Ids
  <2>3. PICK q \in Rank : q = Owner[e]
    BY <2>2, OwnerAssumption
  <2>4. Sends(c, q) /\ Right(c, sent[c][q])
    BY <1>5 DEF Results
  <2>5. done[q] >= c /\ ~ \E y : On(q, y) /\ y.name = "read" /\ y.call = c
    <3>1. done[q] >= c /\ \A i \in DOMAIN stream[q] : stream[q][i].call = c => stream[q][i].name = "collect"
      BY <1>4 DEF AllRead
    <3>2. stream[q] \in Seq(KernelSet)
      BY DEF Streams
    <3>3. DOMAIN stream[q] = 1 .. Len(stream[q])
      BY <3>2
    <3>4. QED
      BY <3>1, <3>3 DEF On
  <2>6. Received(c, q) \subseteq DOMAIN sent[c][q]
    BY <1>5, <2>4, <2>5 DEF Sends
  <2>7. e \in DOMAIN sent[c][q]
    BY <2>2, <2>3, <2>6 DEF Received
  <2>8. QED
    BY <2>1, <2>3, <2>4, <2>7 DEF Right
<1>8. Right(c, all)
  BY <1>7 DEF Right
<1>9. QED
  BY <1>1, <1>2, <1>4, <1>5, <1>6, <1>8, OutputResults

-----------------------------------------------------------------------------
(***************************************************************************)
(* Lines that have been written back.                                      *)
(***************************************************************************)
Saves(call) == call.op \in {"writeback", "drop"}

\* A rank that waits for its stream in such a call will have no modified line ...
Saving(r) ==
  stage[r] = "stream" /\ Saves(Call(r)) =>
    IF stream[r] = << >> THEN ~ tag[r].modified
    ELSE stream[r][Len(stream[r])].name \in {"clean", "clear"}

\* ... and has none until its next step.
Saved(r, k) ==
  Saves(program[k]) /\ AtBarrier(r, k) /\ (\A j \in k + 1 .. done[r] : program[j].op # "step")
    => ~ tag[r].modified

Clean ==
  kind # "readonly" => \A r \in Rank : Saving(r) /\ \A k \in 1 .. Len(program) : Saved(r, k)

\* At first no line is modified.
LEMMA InitClean == Init => Clean
BY DEF Init, Clean, Saving, Saved, Empty

\* A new call modifies no line.
LEMMA IssueClean ==
  ASSUME Control, Clean, NEW op \in Op, NEW adjust \in BOOLEAN,
         NEW batch \in [Rank -> SUBSET Entry], Issue(op, adjust, batch)
  PROVE  Clean'
<1>1. /\ Len(program') = Len(program) + 1 /\ Len(program) \in Nat
      /\ \A k \in 1 .. Len(program) : program'[k] = program[k]
      /\ \A r \in Rank : Behind(r) => Call(r)' = Call(r)
  BY Issued
<1>2. kind' = kind /\ done' = done /\ stage' = stage /\ stream' = stream /\ tag' = tag
  BY DEF Issue, storage
<1>3. ASSUME NEW r \in Rank, Saving(r) PROVE Saving(r)'
  <2>1. stage[r] # "idle" => Behind(r)
    BY DEF Control, Where
  <2>2. QED
    BY <1>1, <1>2, <1>3, <2>1 DEF Saving, Saves
<1>4. ASSUME NEW r \in Rank, NEW k \in 1 .. Len(program'), k \in 1 .. Len(program) => Saved(r, k)
      PROVE  Saved(r, k)'
  <2>1. /\ done[r] \in Nat /\ done[r] <= Len(program) /\ (stage[r] # "idle" => Behind(r))
    BY DEF Control, Where
  <2>2. CASE k = Len(program) + 1
    <3>1. ~ AtBarrier(r, k)
      BY <1>1, <2>1, <2>2 DEF AtBarrier, Behind
    <3>2. ~ AtBarrier(r, k)'
      BY <1>2, <3>1 DEF AtBarrier
    <3>3. QED
      BY <3>2 DEF Saved
  <2>3. CASE k # Len(program) + 1
    <3>1. k \in 1 .. Len(program)
      BY <1>1, <2>3
    <3>2. \A j \in k + 1 .. done[r] : program'[j] = program[j]
      BY <1>1, <2>1, <3>1
    <3>3. program'[k] = program[k] /\ (AtBarrier(r, k)' <=> AtBarrier(r, k))
      BY <1>1, <1>2, <3>1 DEF AtBarrier
    <3>4. QED
      BY <1>2, <1>4, <3>1, <3>2, <3>3 DEF Saved, Saves
  <2>4. QED
    BY <2>2, <2>3
<1>5. QED
  BY <1>2, <1>3, <1>4 DEF Clean

\* A host that saves launches the kernel that clears the marks; it has run before the barrier.
LEMMA HostClean ==
  ASSUME Control, Streams, Streams', Clean, NEW r \in Rank, Moves(r), NEW t, Launched(r, t),
         UNCHANGED storage
  PROVE  Clean'
<1>1. kind' = kind /\ program' = program /\ tag' = tag
  BY DEF Moves, storage
<1>2. /\ done[r] \in Nat /\ done[r] + 1 \in 1 .. Len(program) /\ Call(r) = program[done[r] + 1]
      /\ Len(program) \in Nat
  BY Calls DEF Moves, Control
<1>3. ASSUME NEW q \in Rank, q # r
      PROVE  done'[q] = done[q] /\ stage'[q] = stage[q] /\ stream'[q] = stream[q]
  BY <1>3, HostHeads DEF Control, Moves, EntersExchange, EntersBarrier, Waits, Returns, Enter
<1> SUFFICES ASSUME kind # "readonly"
             PROVE  \A q \in Rank : Saving(q)' /\ \A k \in 1 .. Len(program) : Saved(q, k)'
  BY <1>1 DEF Clean
<1>4. \A q \in Rank : Saving(q) /\ \A k \in 1 .. Len(program) : Saved(q, k)
  BY DEF Clean
<1>5. ASSUME NEW q \in Rank, q # r PROVE Saving(q)' /\ \A k \in 1 .. Len(program) : Saved(q, k)'
  <2>1. done'[q] = done[q] /\ stage'[q] = stage[q] /\ stream'[q] = stream[q]
    BY <1>3, <1>5
  <2>2. Saving(q)'
    BY <1>1, <1>4, <2>1 DEF Saving, Call
  <2>3. \A k \in 1 .. Len(program) : Saved(q, k)'
    BY <1>1, <1>4, <2>1 DEF Saved, AtBarrier
  <2>4. QED
    BY <2>2, <2>3
<1>6. Saving(r)'
  <2>1. SUFFICES ASSUME stage'[r] = "stream", Saves(Call(r)')
                 PROVE  stream'[r] # << >> /\ stream'[r][Len(stream'[r])].name \in {"clean", "clear"}
    BY DEF Saving
  <2>2. Waits(r)
    BY <2>1 DEF Moves, EntersExchange, EntersBarrier, Returns, Enter, Control
  <2>3. done' = done /\ Call(r)' = Call(r)
    BY <1>1, <2>2 DEF Waits, Call
  <2>4. Len(t) > 0 /\ t[Len(t)].name \in {"clean", "clear"} /\ t \in Seq(KernelSet)
    BY <2>1, <2>2, <2>3 DEF Launched, Saves
  <2>5. PICK s \in Seq(KernelSet) : s = stream[r]
    BY DEF Streams
  <2>6. stream'[r] = s \o t
    BY <2>5, HostHeads
  <2>7. s \o t \in Seq(KernelSet)
    BY <2>4, <2>5
  <2>8. PICK z \in Seq(KernelSet) : z = s \o t
    BY <2>7
  <2>9. Len(s) \in Nat /\ Len(t) \in Nat /\ Len(z) = Len(s) + Len(t) /\ z[Len(s) + Len(t)] = t[Len(t)]
    BY <2>4, <2>8
  <2>10. z # << >>
    BY <2>4, <2>9
  <2>11. QED
    BY <2>4, <2>6, <2>8, <2>9, <2>10
<1>7. ASSUME NEW k \in 1 .. Len(program), Saves(program[k]), AtBarrier(r, k)',
             \A j \in k + 1 .. done'[r] : program[j].op # "step"
      PROVE  ~ tag[r].modified
  <2>1. Barriers(program[k])
    BY <1>7 DEF Saves, Barriers
  <2>2. CASE AtBarrier(r, k)
    <3>1. \A j \in k + 1 .. done[r] : j \in k + 1 .. done'[r]
      <4>1. done'[r] \in {done[r], done[r] + 1}
        BY DEF Moves, EntersExchange, EntersBarrier, Waits, Returns, Control
      <4>2. QED
        BY <1>2, <4>1
    <3>2. \A j \in k + 1 .. done[r] : program[j].op # "step"
      BY <1>7, <3>1
    <3>3. QED
      BY <1>4, <1>7, <2>2, <3>2 DEF Saved
  <2>3. CASE ~ AtBarrier(r, k)
    <3>1. CASE EntersExchange(r)
      BY <1>7, <2>3, <3>1 DEF EntersExchange, Enter, AtBarrier, Control
    <3>2. CASE EntersBarrier(r)
      <4>1. k = done[r] + 1 /\ stage[r] = "stream" /\ stream[r] = << >>
        BY <1>2, <1>7, <2>3, <3>2 DEF EntersBarrier, Enter, AtBarrier, Control
      <4>2. QED
        BY <1>2, <1>4, <1>7, <4>1 DEF Saving
    <3>3. CASE Waits(r)
      BY <1>7, <2>3, <3>3 DEF Waits, AtBarrier, Control
    <3>4. CASE Returns(r)
      <4>1. done'[r] = done[r] + 1 /\ stage'[r] = "idle"
        BY <3>4 DEF Returns, Control
      <4>2. k = done[r] + 1
        BY <1>2, <1>7, <2>3, <4>1 DEF AtBarrier
      <4>3. Through(r, "barrier")
        BY <1>2, <2>1, <3>4, <4>2 DEF Returns, Quiet
      <4>4. AtBarrier(r, k)
        BY <1>2, <4>2, <4>3 DEF Through, AtBarrier
      <4>5. QED
        BY <2>3, <4>4
    <3>5. QED
      BY <3>1, <3>2, <3>3, <3>4 DEF Moves
  <2>4. QED
    BY <2>2, <2>3
<1>8. \A k \in 1 .. Len(program) : Saved(r, k)'
  BY <1>1, <1>7 DEF Saved
<1>9. QED
  BY <1>5, <1>6, <1>8

\* The last kernel of a stream is the last until it ends.
LEMMA LastStays ==
  ASSUME Streams, NEW r \in Rank, Ends(r) \/ \E e : Shrinks(r, e)
  PROVE  \/ Len(stream[r]) = 1 /\ Ends(r) /\ stream'[r] = << >>
         \/ /\ stream'[r] # << >>
            /\ stream'[r][Len(stream'[r])].name = stream[r][Len(stream[r])].name
<1>1. CASE Ends(r)
  <2>1. PICK s \in Seq(KernelSet) : s = stream[r] /\ s # << >>
    BY <1>1 DEF Streams, Ends
  <2>2. Tail(s) \in Seq(KernelSet)
    BY <2>1
  <2>3. PICK z \in Seq(KernelSet) : z = Tail(s)
    BY <2>2
  <2>4. stream'[r] = z
    BY <1>1, <2>1, <2>3, AfterEnd
  <2>5. Len(s) \in Nat /\ Len(s) > 0 /\ Len(z) = Len(s) - 1
        /\ \A i \in 1 .. Len(s) - 1 : z[i] = s[i + 1]
    BY <2>1, <2>3
  <2>6. CASE Len(s) = 1
    <3>1. z = << >>
      BY <2>5, <2>6
    <3>2. QED
      BY <1>1, <2>1, <2>4, <2>6, <3>1
  <2>7. CASE Len(s) # 1
    <3>1. Len(s) - 1 \in 1 .. Len(s) - 1 /\ (Len(s) - 1) + 1 = Len(s)
      BY <2>5, <2>7
    <3>2. z[Len(z)] = s[Len(s)]
      BY <2>5, <3>1
    <3>3. z # << >>
      BY <2>5, <2>7
    <3>4. QED
      BY <2>1, <2>4, <3>2, <3>3
  <2>8. QED
    BY <2>6, <2>7
<1>2. CASE \E e : Shrinks(r, e)
  <2>1. PICK e : Shrinks(r, e)
    BY <1>2
  <2>2. PICK x \in KernelSet : x = stream[r][1]
    BY <2>1, AfterShrink
  <2>3. PICK n \in Nat : n = Len(stream[r]) /\ n > 0
    BY <2>1, AfterShrink
  <2>4. stream'[r] \in Seq(KernelSet) /\ Len(stream'[r]) = n
    BY <2>1, <2>3, AfterShrink
  <2>5. stream'[r][1].name = stream[r][1].name
    <3>1. stream'[r][1] = [x EXCEPT !.ids = @ \ {e}]
      BY <2>1, <2>2, AfterShrink
    <3>2. QED
      BY <2>2, <3>1 DEF KernelSet
  <2>6. n \in 1 .. Len(stream'[r])
    BY <2>3, <2>4
  <2>7. stream'[r][n].name = stream[r][n].name
    BY <2>1, <2>5, <2>6, AfterShrink
  <2>8. stream'[r] # << >>
    BY <2>3, <2>4
  <2>9. QED
    BY <2>3, <2>4, <2>7, <2>8
<1>3. QED
  BY <1>1, <1>2

\* The kernel of a step modifies a line only after its rank has gone on from the last
\* write-back, and that of a write-back ends only once it has stored the tags.
LEMMA DeviceClean ==
  ASSUME Control, Streams, Clean, NEW r \in Rank, UNCHANGED host,
         \A q \in Rank : q # r => tag'[q] = tag[q] /\ stream'[q] = stream[q],
         \/ UNCHANGED stream /\ tag'[r] = tag[r]
         \/ /\ Ends(r) \/ \E e : Shrinks(r, e)
            /\ \/ ~ tag'[r].modified
               \/ /\ stream[r][1].name \notin {"clean", "clear"}
                  /\ tag'[r].modified => tag[r].modified \/ stream[r][1].name = "step"
  PROVE  Clean'
<1>1. kind' = kind /\ program' = program /\ done' = done /\ stage' = stage
  BY DEF host
<1> SUFFICES ASSUME kind # "readonly"
             PROVE  \A q \in Rank : Saving(q)' /\ \A k \in 1 .. Len(program) : Saved(q, k)'
  BY <1>1 DEF Clean
<1>2. \A q \in Rank : Saving(q) /\ \A k \in 1 .. Len(program) : Saved(q, k)
  BY DEF Clean
<1>3. ASSUME NEW q \in Rank, stream'[q] = stream[q], tag'[q] = tag[q]
      PROVE  Saving(q)' /\ \A k \in 1 .. Len(program) : Saved(q, k)'
  <2>1. Saving(q)'
    BY <1>1, <1>2, <1>3 DEF Saving, Call
  <2>2. \A k \in 1 .. Len(program) : Saved(q, k)'
    BY <1>1, <1>2, <1>3 DEF Saved, AtBarrier
  <2>3. QED
    BY <2>1, <2>2
<1>4. CASE UNCHANGED stream /\ tag'[r] = tag[r]
  BY <1>3, <1>4
<1>5. CASE /\ Ends(r) \/ \E e : Shrinks(r, e)
           /\ \/ ~ tag'[r].modified
              \/ /\ stream[r][1].name \notin {"clean", "clear"}
                 /\ tag'[r].modified => tag[r].modified \/ stream[r][1].name = "step"
  <2>1. stream[r] # << >>
    BY <1>5 DEF Ends, Shrinks
  <2>2. Call(r)' = Call(r)
    BY <1>1 DEF Call
  <2>3. Saving(r)'
    <3>1. SUFFICES ASSUME stage[r] = "stream", Saves(Call(r))
                   PROVE  IF stream'[r] = << >> THEN ~ tag'[r].modified
                          ELSE stream'[r][Len(stream'[r])].name \in {"clean", "clear"}
      BY <1>1, <2>2 DEF Saving
    <3>2. stream[r][Len(stream[r])].name \in {"clean", "clear"}
      BY <1>2, <2>1, <3>1 DEF Saving
    <3>3. QED
      BY <1>5, <3>2, LastStays
  <2>4. ASSUME NEW k \in 1 .. Len(program), Saves(program[k]), AtBarrier(r, k),
               \A j \in k + 1 .. done[r] : program[j].op # "step"
        PROVE  ~ tag'[r].modified
    <3>1. ~ tag[r].modified
      BY <1>2, <2>4 DEF Saved
    <3>2. ASSUME stream[r][1].name = "step" PROVE FALSE
      <4>1. PICK x : x = stream[r][1] /\ On(r, x) /\ Placed(r, x)
        BY <2>1, HeadOn
      <4>2. /\ x.call \in 1 .. done[r] /\ program[x.call].op = "step"
            /\ \A j \in x.call + 1 .. done[r] : Quiet(program[j])
        BY <3>2, <4>1 DEF Placed, Reads
      <4>3. stage[r] # "barrier"
        BY <2>1 DEF Streams
      <4>4. done[r] >= k /\ done[r] \in Nat
        BY <2>4, <4>3 DEF AtBarrier, Control
      <4>5. ~ Quiet(program[k]) /\ program[k].op # "step"
        BY <2>4 DEF Quiet, Barriers, Saves
      <4>6. ~ (x.call \in k + 1 .. done[r]) /\ x.call # k
        BY <2>4, <4>2, <4>5
      <4>7. k \in x.call + 1 .. done[r]
        BY <4>2, <4>4, <4>6
      <4>8. QED
        BY <4>2, <4>5, <4>7
    <3>3. QED
      BY <1>5, <3>1, <3>2
  <2>5. \A k \in 1 .. Len(program) : Saved(r, k)'
    BY <1>1, <2>4 DEF Saved, AtBarrier
  <2>6. \A q \in Rank : q # r => Saving(q)' /\ \A k \in 1 .. Len(program) : Saved(q, k)'
    BY <1>3
  <2>7. QED
    BY <2>3, <2>5, <2>6
<1>6. QED
  BY <1>4, <1>5

\* What each kernel does to the tags.
LEMMA WritersClean ==
  ASSUME Control, Streams, Lines, Clean, NEW r \in Rank,
         RunUpdate(r) \/ RunChoose(r) \/ RunFill(r) \/ RunStep(r) \/ RunCopy(r) \/ RunStoreTags(r),
         Ends(r) \/ \E e : Shrinks(r, e)
  PROVE  Clean'
<1>1. Touches(r) /\ UNCHANGED host /\ stream[r] # << >>
  BY WritersTouch DEF host
<1>2. \A q \in Rank : q # r => tag'[q] = tag[q] /\ stream'[q] = stream[q]
  BY <1>1, AfterEnd, AfterShrink DEF Touches
<1>3. \A name : Runs(r, name) <=> stream[r][1].name = name
  BY <1>1, HeadOn
<1>4. tag \in [Rank -> Tag] /\ tag[r] \in Tag
  BY DEF Lines
<1>5. \/ ~ tag'[r].modified
      \/ /\ stream[r][1].name \notin {"clean", "clear"}
         /\ tag'[r].modified => tag[r].modified \/ stream[r][1].name = "step"
  <2>1. CASE RunUpdate(r)
    <3>1. stream[r][1].name = "update"
      BY <1>3, <2>1 DEF RunUpdate
    <3>2. tag' = tag \/ \E e : tag' = [tag EXCEPT ![r] = [id |-> e, modified |-> FALSE]]
      BY <2>1 DEF RunUpdate, storage
    <3>3. QED
      BY <1>4, <3>1, <3>2
  <2>2. CASE RunChoose(r)
    BY <1>4, <2>2 DEF RunChoose
  <2>3. CASE RunFill(r)
    BY <1>3, <2>3 DEF RunFill
  <2>4. CASE RunStep(r)
    BY <1>3, <2>4 DEF RunStep
  <2>5. CASE RunCopy(r)
    BY <1>3, <2>5 DEF RunCopy
  <2>6. CASE RunStoreTags(r)
    BY <1>4, <2>6 DEF RunStoreTags, Empty, Tag
  <2>7. QED
    BY <2>1, <2>2, <2>3, <2>4, <2>5, <2>6
<1>6. QED
  BY <1>1, <1>2, <1>5, DeviceClean

\* Reading modifies no line.
LEMMA ReadersClean ==
  ASSUME Control, Streams, Clean, NEW r \in Rank, UNCHANGED <<host, storage>>,
         UNCHANGED stream \/ (Ends(r) /\ stream[r][1].name \in Reads \cup {"collect"})
  PROVE  Clean'
<1>1. tag' = tag
  BY DEF storage
<1>2. \A q \in Rank : q # r => tag'[q] = tag[q] /\ stream'[q] = stream[q]
  BY <1>1, AfterEnd
<1>3. QED
  BY <1>1, <1>2, DeviceClean DEF Reads

-----------------------------------------------------------------------------
(***************************************************************************)
(* The invariant.                                                          *)
(***************************************************************************)
IInv ==
  Control /\ Lockstep /\ Streams /\ Lines /\ Values /\ Readers /\ Results /\ Clean

\* The invariant holds at first, ...
LEMMA InitInv == Init => IInv
BY InitControl, InitStreams, InitLines, InitValues, InitReaders, InitResults, InitClean DEF IInv

\* ... when a call is issued, ...
LEMMA IssueInv ==
  ASSUME IInv, NEW op \in Op, NEW adjust \in BOOLEAN, NEW batch \in [Rank -> SUBSET Entry],
         Issue(op, adjust, batch)
  PROVE  IInv'
<1>1. Control' /\ Lockstep' /\ Streams'
  BY IssueControl, IssueLockstep, IssueStreams DEF IInv
<1>2. UNCHANGED <<kind, stream, storage>>
  BY DEF Issue
<1>3. Lines' /\ Values' /\ Readers' /\ Results' /\ Clean'
  BY <1>1, <1>2, IssueLines, IssueValues, IssueReaders, IssueResults, IssueClean DEF IInv
<1>4. QED
  BY <1>1, <1>3 DEF IInv

\* A line that is given to another entry changes nothing: its row was the same as in the
\* raw embedding.
LEMMA HostCached ==
  ASSUME IInv, Streams', NEW r \in Rank, Moves(r), NEW t, Launched(r, t), UNCHANGED storage
  PROVE  \A e \in Entry : Cached(e)' = Cached(e)
<1>1. kind' = kind /\ mem' = mem /\ tag' = tag /\ data' = data
  BY DEF Moves, storage
<1>2. ASSUME NEW e \in Entry PROVE Cached(e)' = Cached(e)
  <2>1. PICK q \in Rank : q = Owner[e] /\ e # "none"
    BY OwnerAssumption
  <2>2. Filling(q)' <=> \E x : On(q, x)' /\ x.name = "fill"
    <3>1. stream'[q] \in Seq(KernelSet)
      BY DEF Streams
    <3>2. DOMAIN stream'[q] = 1 .. Len(stream'[q])
      BY <3>1
    <3>3. QED
      BY <3>2 DEF Filling, On
  <2>3. Filling(q) => Filling(q)'
    BY <2>2, HostHeads, FillingOn DEF IInv
  <2>4. Filling(q)' => kind = "readonly"
    BY <1>1, NoFillAfter
  <2>5. LineOk(q)
    BY DEF IInv, Lines
  <2>6. CASE Filling(q)' <=> Filling(q)
    BY <1>1, <2>1, <2>6 DEF Cached
  <2>7. CASE Filling(q)' /\ ~ Filling(q)
    <3>1. tag[q].id = e => data[q] = mem[e]
      BY <2>1, <2>4, <2>5, <2>7 DEF LineOk
    <3>2. QED
      BY <1>1, <2>1, <2>7, <3>1 DEF Cached
  <2>8. QED
    BY <2>3, <2>6, <2>7
<1>3. QED
  BY <1>2

\* ... when a host moves, ...
LEMMA HostInv ==
  ASSUME IInv, NEW r \in Rank, Host(r)
  PROVE  IInv'
<1>1. Moves(r)
  BY HostMoves DEF IInv
<1>2. PICK t : Launched(r, t)
  BY HostLaunches DEF IInv
<1>3. UNCHANGED <<reading, storage>>
  BY HostLaunches DEF IInv
<1>4. Control' /\ Lockstep' /\ Streams'
  BY <1>1, <1>2, MovesControl, MovesLockstep, HostStreams DEF IInv
<1>5. Lines'
  BY <1>1, <1>2, <1>3, <1>4, HostLines DEF IInv
<1>6. \A e \in Entry : Cached(e)' = Cached(e)
  BY <1>1, <1>2, <1>3, <1>4, HostCached
<1>7. Values' /\ Readers' /\ Results' /\ Clean'
  BY <1>1, <1>2, <1>3, <1>4, <1>6, HostValues, HostReaders, HostResults, HostClean DEF IInv
<1>8. QED
  BY <1>4, <1>5, <1>7 DEF IInv

\* Only the kernel of a step changes what a gather returns.
LEMMA OtherWriters ==
  ASSUME Control, Streams, Streams', Lines, NEW r \in Rank,
         RunUpdate(r) \/ RunChoose(r) \/ RunFill(r) \/ RunCopy(r) \/ RunStoreTags(r)
  PROVE  /\ Lines' /\ \A f \in Entry : Cached(f)' = Cached(f)
         /\ Ends(r) /\ stream[r][1].name # "step"
<1>1. Lines' /\ \A f \in Entry : Cached(f)' = Cached(f)
  BY UpdateLines, ChooseLines, FillLines, CopyLines, StoreTagsLines
<1>2. stream[r] # << >>
  BY DEF RunUpdate, RunChoose, RunFill, RunCopy, RunStoreTags, Runs
<1>3. \A name : Runs(r, name) <=> stream[r][1].name = name
  BY <1>2, HeadOn
<1>4. Ends(r) /\ stream[r][1].name # "step"
  BY <1>2, <1>3 DEF RunUpdate, RunChoose, RunFill, RunCopy, RunStoreTags, Ended, Ends
<1>5. QED
  BY <1>1, <1>4

\* A kernel that writes.
LEMMA WriterInv ==
  ASSUME IInv, NEW r \in Rank, Device(r),
         RunUpdate(r) \/ RunChoose(r) \/ RunFill(r) \/ RunStep(r) \/ RunCopy(r) \/ RunStoreTags(r)
  PROVE  IInv'
<1>1. /\ Control /\ Lockstep /\ Streams /\ Lines /\ Values /\ Readers /\ Results /\ Clean
  BY DEF IInv
<1>2. /\ Touches(r) /\ stream[r] # << >> /\ stream[r][1].name \notin Reads
      /\ UNCHANGED <<host, reading>>
  BY <1>1, WritersTouch
<1>3. Ends(r) \/ \E e : Shrinks(r, e)
  <2>1. Now(r) = stream[r][1] /\ \A name : Runs(r, name) <=> stream[r][1].name = name
    BY <1>1, <1>2, HeadOn
  <2>2. QED
    BY <1>2, <2>1 DEF RunUpdate, RunChoose, RunFill, RunStep, RunCopy, RunStoreTags, Ended, Ends, Shrinks
<1>4. Control' /\ Lockstep' /\ Streams'
  BY <1>1, <1>2, <1>3, SameControl, DeviceStreams
<1>5. Readers' /\ Clean'
  BY <1>1, <1>3, <1>4, WritersReaders, WritersClean
<1>6. Results'
  <2>1. sent' = sent /\ output' = output
    BY <1>2 DEF reading
  <2>2. stream[r][1].name # "read"
    BY <1>2 DEF Reads
  <2>3. QED
    BY <1>1, <1>2, <1>3, <2>1, <2>2, OtherResults
<1>7. Lines' /\ Values'
  <2>1. CASE RunStep(r)
    <3>1. Lines'
      BY <1>1, <1>4, <2>1, StepLines
    <3>2. PICK e \in stream[r][1].ids :
              /\ stream[r] # << >> /\ stream[r][1].name = "step" /\ e \in Entry /\ Owner[e] = r
              /\ Cached(e)' = <<e, stream[r][1].call>>
              /\ \A f \in Entry : f # e => Cached(f)' = Cached(f)
              /\ \/ stream[r][1].ids = {e} /\ Ends(r)
                 \/ stream[r][1].ids # {e} /\ Shrinks(r, e)
      BY <1>1, <1>4, <2>1, StepLines
    <3>3. PICK c : c = stream[r][1].call
      OBVIOUS
    <3>4. Cached(e)' = <<e, c>>
      BY <3>2, <3>3
    <3>5. Values'
      BY <1>1, <1>2, <1>4, <3>2, <3>3, <3>4, StepValues
    <3>6. QED
      BY <3>1, <3>5
  <2>2. CASE ~ RunStep(r)
    BY <1>1, <1>2, <1>4, <2>2, OtherWriters, OtherValues
  <2>3. QED
    BY <2>1, <2>2
<1>8. QED
  BY <1>4, <1>5, <1>6, <1>7 DEF IInv

\* A kernel that reads.
LEMMA ReaderInv ==
  ASSUME IInv, NEW r \in Rank, Readers', Results', UNCHANGED <<host, storage>>,
         UNCHANGED stream \/ (Ends(r) /\ HeadIn(r, Reads \cup {"collect"}))
  PROVE  IInv'
<1>1. /\ Control /\ Lockstep /\ Streams /\ Lines /\ Values /\ Clean
  BY DEF IInv
<1>2. UNCHANGED stream \/ (Ends(r) /\ stream[r][1].name \in Reads \cup {"collect"})
  BY DEF HeadIn
<1>3. Control' /\ Lockstep' /\ Streams'
  BY <1>1, <1>2, SameControl, DeviceStreams
<1>4. kind' = kind
  BY DEF host
<1>5. Lines' /\ \A f \in Entry : Cached(f)' = Cached(f)
  BY <1>1, <1>2, <1>3, <1>4, ReadingLines
<1>6. Values' /\ Clean'
  BY <1>1, <1>2, <1>5, OtherValues, ReadersClean DEF Reads
<1>7. QED
  BY <1>3, <1>5, <1>6 DEF IInv

\* ... when a stream does, ...
LEMMA DeviceInv ==
  ASSUME IInv, NEW r \in Rank, Device(r)
  PROVE  IInv'
<1>1. /\ Control /\ Lockstep /\ Streams /\ Lines /\ Values /\ Readers /\ Results /\ Clean
  BY DEF IInv
<1>2. Streams'
  BY <1>1, DeviceRuns, DeviceStreams
<1>3. CASE RunUpdate(r) \/ RunChoose(r) \/ RunFill(r) \/ RunStep(r) \/ RunCopy(r) \/ RunStoreTags(r)
  BY <1>3, WriterInv
<1>4. ASSUME NEW e \in Entry, LoadTag(r, e) PROVE IInv'
  <2>1. UNCHANGED <<host, stream, sent, output, storage>>
    BY <1>4 DEF LoadTag
  <2>2. Readers' /\ Results'
    BY <1>1, <1>4, <2>1, LoadTagReaders, OtherResults
  <2>3. QED
    BY <2>1, <2>2, ReaderInv
<1>5. ASSUME NEW e \in Entry, ReadRow(r, e) PROVE IInv'
  <2>1. /\ Readers' /\ UNCHANGED <<host, storage>> /\ HeadIn(r, {"read"})
        /\ \/ UNCHANGED <<stream, sent, output>>
           \/ /\ Ends(r)
              /\ \E all :
                   /\ DOMAIN all = stream[r][1].ids
                   /\ \A f \in DOMAIN all : all[f] = Trained(stream[r][1].call, f)
                   /\ IF kind = "distributed"
                      THEN sent' = [sent EXCEPT ![stream[r][1].call][r] = all] /\ UNCHANGED output
                      ELSE output' = [output EXCEPT ![stream[r][1].call][r] = all] /\ UNCHANGED sent
    BY <1>1, <1>2, <1>5, ReadRowReaders
  <2>2. Results'
    <3>1. CASE UNCHANGED <<stream, sent, output>>
      BY <1>1, <2>1, <3>1, OtherResults
    <3>2. CASE ~ UNCHANGED <<stream, sent, output>>
      BY <1>1, <2>1, <3>2, ReadResults
    <3>3. QED
      BY <3>1, <3>2
  <2>3. HeadIn(r, Reads \cup {"collect"})
    BY <2>1 DEF HeadIn, Reads
  <2>4. QED
    BY <2>1, <2>2, <2>3, ReaderInv
<1>6. ASSUME NEW e \in Entry, TryRow(r, e) PROVE IInv'
  <2>1. /\ Readers' /\ UNCHANGED <<host, storage, sent, output>> /\ HeadIn(r, {"try"})
        /\ UNCHANGED stream \/ Ends(r)
    BY <1>1, <1>2, <1>6, TryRowReaders
  <2>2. HeadIn(r, Reads \cup {"collect"}) /\ stream[r][1].name # "read"
    BY <2>1 DEF HeadIn, Reads
  <2>3. Results'
    BY <1>1, <2>1, <2>2, OtherResults
  <2>4. QED
    BY <2>1, <2>2, <2>3, ReaderInv
<1>7. CASE RunFetch(r)
  <2>1. /\ Readers' /\ UNCHANGED <<host, storage, sent>> /\ Ends(r) /\ HeadIn(r, {"fetch"})
        /\ \E all : /\ output' = [output EXCEPT ![stream[r][1].call][r] = all]
                    /\ \A f \in DOMAIN all : all[f] = Trained(stream[r][1].call, f)
    BY <1>1, <1>2, <1>7, FetchReaders
  <2>2. /\ HeadIn(r, Reads \cup {"collect"}) /\ stream[r][1].name # "read" /\ stream[r] # << >>
        /\ stream[r][1].name \in Reads
    BY <2>1 DEF HeadIn, Reads
  <2>3. PICK x : x = stream[r][1] /\ On(r, x)
    BY <1>1, <2>2, HeadOn
  <2>4. PICK c \in 1 .. Len(program) : c = x.call
    BY <1>1, <2>2, <2>3, ReadingAt
  <2>5. PICK all : /\ output' = [output EXCEPT ![c][r] = all]
                   /\ \A f \in DOMAIN all : all[f] = Trained(c, f)
    BY <2>1, <2>3, <2>4
  <2>6. Right(c, all)
    BY <2>5 DEF Right
  <2>7. Results'
    BY <1>1, <2>1, <2>2, <2>5, <2>6, OutputResults
  <2>8. QED
    BY <2>1, <2>2, <2>7, ReaderInv
<1>8. CASE Collect(r)
  <2>1. Readers' /\ UNCHANGED <<host, storage, sent>> /\ Ends(r) /\ HeadIn(r, {"collect"})
    BY <1>1, <1>2, <1>8, CollectReaders
  <2>2. Results'
    BY <1>1, <1>8, CollectResults
  <2>3. HeadIn(r, Reads \cup {"collect"})
    BY <2>1 DEF HeadIn
  <2>4. QED
    BY <2>1, <2>2, <2>3, ReaderInv
<1>9. QED
  BY <1>3, <1>4, <1>5, <1>6, <1>7, <1>8 DEF Device
\* ... and when nothing does.
LEMMA StutterInv ==
  ASSUME IInv, UNCHANGED vars
  PROVE  IInv'
<1>1. /\ Control /\ Lockstep /\ Streams /\ Lines /\ Values /\ Readers /\ Results /\ Clean
  BY DEF IInv
<1>2. /\ kind' = kind /\ program' = program /\ done' = done /\ stage' = stage /\ entered' = entered
      /\ stream' = stream /\ seen' = seen /\ rows' = rows /\ sent' = sent /\ output' = output
      /\ mem' = mem /\ tag' = tag /\ data' = data
  BY DEF vars
<1>3. UNCHANGED host /\ UNCHANGED storage /\ UNCHANGED program
  BY <1>2 DEF host, storage
<1>4. Control' /\ Lockstep'
  BY <1>1, <1>3, SameControl
<1>5. \A q, x : /\ On(q, x)' <=> On(q, x)
                /\ \A names : HeadIn(q, names)' <=> HeadIn(q, names)
  BY <1>2 DEF On, HeadIn
<1>6. Streams'
  <2>1. \A q \in Rank : \A x : Placed(q, x)' <=> Placed(q, x)
    BY <1>3, SamePlaced
  <2>2. \A s : Ordered(s)' <=> Ordered(s)
    BY <1>2 DEF Ordered, Follows
  <2>3. AllPlaced'
    BY <1>1, <1>5, <2>1 DEF Streams, AllPlaced
  <2>4. QED
    BY <1>1, <1>2, <2>2, <2>3 DEF Streams
<1>7. Lines'
  BY <1>1, <1>2, IssueLines DEF storage
<1>8. Values'
  <2>1. \A e : Cached(e)' = Cached(e)
    BY <1>2 DEF Cached, Filling
  <2>2. \A e, j : Made(j, e)' <=> Made(j, e)
    BY <1>2, <1>5 DEF Made, Pend
  <2>3. QED
    BY <1>1, <1>3, <2>1, <2>2, SameValues
<1>9. \A k, e : Trained(k, e)' = Trained(k, e)
  BY <1>3, TrainedKept
<1>10. Readers'
  <2>1. \A q, k : Found(q, k)' <=> Found(q, k)
    BY <1>2, <1>9 DEF Found
  <2>2. \A q \in Rank : HeadIn(q, Reads) => stream'[q] # << >> /\ stream'[q][1] = stream[q][1]
    BY <1>2 DEF HeadIn
  <2>3. QED
    BY <1>1, <1>2, <1>5, <1>9, <2>1, <2>2, ReadersKept
<1>11. Results'
  <2>1. \A k, q : Sends(k, q)' <=> Sends(k, q)
    BY <1>2, <1>5 DEF Sends, Received, Named
  <2>2. /\ DOMAIN sent' = 1 .. MaxOps /\ DOMAIN output' = 1 .. MaxOps
        /\ \A k \in 1 .. MaxOps : DOMAIN sent'[k] = Rank /\ DOMAIN output'[k] = Rank
    BY <1>1, <1>2 DEF Results
  <2>3. QED
    BY <1>1, <1>2, <1>3, <2>1, <2>2, ResultsKept
<1>12. Clean'
  BY <1>1, <1>2 DEF Clean, Saving, Saved, Saves, Call, AtBarrier
<1>13. QED
  BY <1>4, <1>6, <1>7, <1>8, <1>10, <1>11, <1>12 DEF IInv

\* Every step keeps it.
LEMMA NextInv ==
  ASSUME IInv, [Next]_vars
  PROVE  IInv'
<1>1. ASSUME NEW op \in {"gather", "step"}, NEW adjust \in BOOLEAN, NEW batch \in Batches,
             Issue(op, adjust, batch)
      PROVE  IInv'
  <2>1. op \in Op /\ batch \in [Rank -> SUBSET Entry]
    BY BatchesAssumption DEF Op
  <2>2. QED
    BY <1>1, <2>1, IssueInv
<1>2. ASSUME NEW op \in {"writeback", "drop", "fence"}, Issue(op, FALSE, NoBatch)
      PROVE  IInv'
  <2>1. op \in Op /\ FALSE \in BOOLEAN /\ NoBatch \in [Rank -> SUBSET Entry]
    BY DEF Op, NoBatch
  <2>2. QED
    BY <1>2, <2>1, IssueInv
<1>3. ASSUME NEW r \in Rank, Host(r) PROVE IInv'
  BY <1>3, HostInv
<1>4. ASSUME NEW r \in Rank, Device(r) PROVE IInv'
  BY <1>4, DeviceInv
<1>5. CASE Finished
  BY <1>5, StutterInv DEF Finished
<1>6. CASE UNCHANGED vars
  BY <1>6, StutterInv
<1>7. QED
  BY <1>1, <1>2, <1>3, <1>4, <1>5, <1>6 DEF Next

\* The inductive invariant: where the ranks are in their calls, which kernels are on their
\* streams, what is in the lines, and what has been read and returned.
THEOREM Invariance == Spec => []IInv
<1>1. Init => IInv
  BY InitInv
<1>2. IInv /\ [Next]_vars => IInv'
  BY NextInv
<1>3. QED
  BY <1>1, <1>2, PTL DEF Spec

\* Results are what GatherSeesSteps says of them.
LEMMA SeesSteps == IInv => GatherSeesSteps
<1> SUFFICES ASSUME IInv, NEW k \in DOMAIN program, NEW r \in Rank, NEW e \in DOMAIN output[k][r]
             PROVE  output[k][r][e] = Trained(k, e)
  BY DEF GatherSeesSteps
<1>1. k \in 1 .. MaxOps /\ k <= Len(program)
  <2>1. program \in Seq(CallOf) /\ Len(program) <= MaxOps
    BY DEF IInv, Control, Program
  <2>2. PICK n \in Nat : n = Len(program) /\ DOMAIN program = 1 .. n
    BY <2>1
  <2>3. QED
    BY <2>1, <2>2, MaxOpsAssumption
<1>2. Right(k, output[k][r])
  BY <1>1 DEF IInv, Results
<1>3. QED
  BY <1>2 DEF Right

\* Every gather returns for each entry of its batch the row that the last step before
\* it left, for every number of ranks and calls, every owner of an entry and every
\* batch.
THEOREM GathersSeeSteps == Spec => []GatherSeesSteps
BY Invariance, SeesSteps, PTL

\* What a rank that has returned from a write-back knows of the others: they have
\* stored their lines too, and not begun the next step.
LEMMA Stored ==
  ASSUME IInv, kind # "readonly", NEW r \in Rank, stage[r] = "idle", done[r] > 0,
         Saves(program[done[r]]), NEW o \in Rank
  PROVE  /\ AtBarrier(o, done[r]) /\ ~ tag[o].modified
         /\ \A j \in done[r] + 1 .. done[o] : program[j].op # "step"
<1>1. PICK k \in 1 .. Len(program) : k = done[r]
  BY Calls DEF IInv, Control, Where
<1>2. AtBarrier(o, k)
  <2>1. Barriers(program[k]) /\ done[r] >= k
    BY <1>1 DEF Barriers, Saves
  <2>2. QED
    BY <2>1 DEF IInv, Lockstep, Together
<1>3. ASSUME NEW j \in k + 1 .. done[o], program[j].op = "step" PROVE FALSE
  <2>1. j \in 1 .. Len(program) /\ done[o] >= j /\ j > k
    BY <1>3, Calls DEF IInv, Control, Where
  <2>2. Exchanges(program[j]) /\ PastExchange(o, j)
    BY <1>3, <2>1 DEF Exchanges, PastExchange
  <2>3. AtExchange(r, j)
    BY <2>1, <2>2 DEF IInv, Lockstep, Together
  <2>4. QED
    BY <1>1, <2>1, <2>3 DEF AtExchange
<1>4. Saved(o, k)
  BY DEF IInv, Clean
<1>5. QED
  BY <1>1, <1>2, <1>3, <1>4 DEF Saved

\* A line that is not modified is the row of the raw embedding, and no step is under way that
\* could have changed one since.
LEMMA Settled == IInv => RawSettled
<1> SUFFICES ASSUME IInv, NEW r \in Rank, stage[r] = "idle", done[r] > 0,
                    program[done[r]].op \in {"writeback", "drop"}, NEW e \in Entry
             PROVE  mem[e] = Trained(done[r], e)
  BY DEF RawSettled
<1>1. /\ Control /\ Streams /\ Lines /\ Values
  BY DEF IInv
<1>2. PICK c \in Nat : c = Len(program)
  BY <1>1, Calls DEF Control
<1>3. PICK k \in 1 .. c : k = done[r]
  BY <1>1, <1>2 DEF Control, Where
<1>4. CASE kind = "readonly"
  <2>1. mem[e] = <<e, 0>>
    BY <1>1, <1>4 DEF Lines
  <2>2. \A j \in 1 .. c : ~ StepOn(j, e)
    BY <1>1, <1>2, <1>4 DEF Control, Program, StepOn
  <2>3. 1 \in 0 .. c + 1 /\ k \in 0 .. c + 1
    OBVIOUS
  <2>4. Trained(1, e) = Trained(k, e)
    BY <2>2, <2>3, TrainedSame
  <2>5. QED
    BY <1>3, <2>1, <2>4, Untrained
<1>5. CASE kind # "readonly"
  <2>1. PICK o \in Rank : o = Owner[e] /\ e # "none"
    BY OwnerAssumption
  <2>2. /\ AtBarrier(o, k) /\ ~ tag[o].modified
        /\ \A j \in k + 1 .. done[o] : program[j].op # "step"
    BY <1>3, <1>5, Stored DEF Saves
  <2>3. Cached(e) = mem[e]
    <3>1. LineOk(o) /\ ~ Filling(o)
      BY <1>1, <1>5, NoFill DEF Lines
    <3>2. QED
      BY <2>1, <2>2, <3>1 DEF Cached, LineOk
  <2>4. PICK n \in 1 .. c + 1 : Upto(e, n)
    BY <1>1, <1>2 DEF Values
  <2>5. ASSUME NEW j \in 1 .. c, StepOn(j, e) PROVE Made(j, e) <=> j < k
    <3>1. done[o] \in Nat
      BY <1>1 DEF Control
    <3>2. j # k
      BY <1>3, <2>5 DEF StepOn
    <3>3. CASE j < k
      <4>1. done[o] >= j
        BY <2>2, <3>1, <3>3 DEF AtBarrier
      <4>2. ASSUME NEW x, On(o, x), x.name = "step", x.call = j PROVE FALSE
        <5>1. Placed(o, x) /\ stage[o] # "barrier"
          BY <1>1, <4>2 DEF Streams, AllPlaced, On
        <5>2. \A i \in j + 1 .. done[o] : Quiet(program[i])
          BY <4>2, <5>1 DEF Placed
        <5>3. k \in j + 1 .. done[o]
          BY <2>2, <3>1, <3>3, <5>1 DEF AtBarrier
        <5>4. ~ Quiet(program[k])
          BY <1>3, <1>5 DEF Quiet, Barriers
        <5>5. QED
          BY <5>2, <5>3, <5>4
      <4>3. QED
        BY <2>1, <3>3, <4>1, <4>2 DEF Made, Pend
    <3>4. CASE j > k
      <4>1. ~ (done[o] >= j)
        BY <2>2, <2>5, <3>1, <3>4 DEF StepOn
      <4>2. QED
        BY <2>1, <3>4, <4>1 DEF Made
    <3>5. QED
      BY <3>2, <3>3, <3>4
  <2>6. \A j \in 1 .. c : StepOn(j, e) => (j < n <=> j < k)
    BY <1>2, <2>4, <2>5 DEF Upto
  <2>7. n \in 0 .. c + 1 /\ k \in 0 .. c + 1
    BY <2>4
  <2>8. Trained(n, e) = Trained(k, e)
    BY <2>6, <2>7, TrainedSame
  <2>9. QED
    BY <1>3, <2>3, <2>4, <2>8 DEF Upto
<1>6. QED
  BY <1>4, <1>5

\* Once a rank has returned from a write-back or a drop, the raw embedding holds what
\* the steps before it made of every entry, those of other ranks too.
THEOREM WrittenBack == Spec => []RawSettled
BY Invariance, Settled, PTL
-----------------------------------------------------------------------------
(***************************************************************************)
(* The table that the caches implement.                                    *)
(***************************************************************************)
\* The largest of a set.
LEMMA LargestIs ==
  ASSUME NEW S \in SUBSET Nat, NEW k \in S, \A j \in S : j <= k
  PROVE  Max(S) = k
<1>1. \E m \in S : \A j \in S : m >= j
  BY Zenon
<1>2. Max(S) \in S /\ \A j \in S : Max(S) >= j
  BY <1>1, Zenon DEF Max
<1>3. PICK m \in Nat : m = Max(S)
  BY <1>2
<1>4. m \in S /\ m >= k
  BY <1>2, <1>3
<1>5. QED
  BY <1>3, <1>4

\* The last step that some rank has returned from.
LEMMA LastStep ==
  ASSUME Control, Steps # {}
  PROVE  \E k \in Steps : Max(Steps) = k /\ (\A j \in Steps : j <= k) /\ k \in 1 .. Len(program)
<1>1. PICK n \in Nat : n = Len(program) /\ DOMAIN program = 1 .. n
  BY Calls DEF Control, Program
<1>2. Steps \in SUBSET Nat /\ \A j \in Steps : j <= n /\ j \in 1 .. n
  BY <1>1 DEF Steps
<1>3. PICK k \in Steps : \A j \in Steps : j <= k
  BY <1>2, LargestElement
<1>4. Max(Steps) = k
  BY <1>2, <1>3, LargestIs
<1>5. QED
  BY <1>1, <1>2, <1>3, <1>4

\* What a step has still to write, by the kernels on the stream, ...
LEMMA PendingOn ==
  ASSUME NEW s \in Seq(KernelSet), NEW k, NEW e
  PROVE  e \in UNION {s[i].ids : i \in {j \in DOMAIN s : s[j].name = "step" /\ s[j].call = k}}
           <=> \E i \in 1 .. Len(s) : s[i].name = "step" /\ s[i].call = k /\ e \in s[i].ids
<1>1. DOMAIN s = 1 .. Len(s)
  OBVIOUS
<1>2. QED
  BY <1>1

\* ... by entry, ...
LEMMA PendingIs ==
  ASSUME Streams, NEW r \in Rank, NEW k, NEW e
  PROVE  e \in Pending(k, r) <=> IF done[r] < k THEN e \in Received(k, r) ELSE Pend(r, k, e)
<1>1. PICK s \in Seq(KernelSet) : s = stream[r]
  BY DEF Streams
<1>2. Pend(r, k, e) <=> \E i \in 1 .. Len(s) : s[i].name = "step" /\ s[i].call = k /\ e \in s[i].ids
  BY <1>1 DEF Pend, On
<1>3. QED
  BY <1>1, <1>2, PendingOn DEF Pending

\* ... and after a step.
LEMMA PendingAfter ==
  ASSUME Streams', NEW r \in Rank, NEW k, NEW e
  PROVE  e \in Pending(k, r)' <=> IF done'[r] < k THEN e \in Received(k, r)' ELSE Pend(r, k, e)'
<1>1. PICK s \in Seq(KernelSet) : s = stream'[r]
  BY DEF Streams
<1>2. Pend(r, k, e)' <=> \E i \in 1 .. Len(s) : s[i].name = "step" /\ s[i].call = k /\ e \in s[i].ids
  BY <1>1 DEF Pend, On
<1>3. QED
  BY <1>1, <1>2, PendingOn DEF Pending

\* What is due, by the last step.
LEMMA DueIs ==
  ASSUME NEW k \in Steps, Steps \in SUBSET Nat, \A j \in Steps : j <= k, NEW e
  PROVE  e \in Due <=> \E r \in Rank : e \in Pending(k, r)
<1>1. Max(Steps) = k
  BY LargestIs
<1>2. QED
  BY <1>1 DEF Due

\* It depends on that step and on what is pending.
LEMMA DueKept ==
  ASSUME Control, Steps' = Steps, \A k \in Steps, r \in Rank : Pending(k, r)' = Pending(k, r)
  PROVE  Due' = Due
<1>1. CASE Steps = {}
  BY <1>1 DEF Due
<1>2. CASE Steps # {}
  <2>1. PICK k \in Steps : Max(Steps) = k
    BY <1>2, LastStep
  <2>2. \A r \in Rank : Pending(k, r)' = Pending(k, r)
    BY <2>1
  <2>3. PICK S : S = Steps
    OBVIOUS
  <2>4. Due = UNION {Pending(k, r) : r \in Rank}
    BY <1>2, <2>1 DEF Due
  <2>5. Due' = UNION {Pending(k, r)' : r \in Rank}
    BY <1>2, <2>1, <2>3 DEF Due
  <2>6. QED
    BY <2>2, <2>4, <2>5
<1>3. QED
  BY <1>1, <1>2
\* A host moves without a step being made: one of a call that is launched was pending.
LEMMA HostPending ==
  ASSUME Control, Streams, Streams', NEW r \in Rank, Moves(r), NEW t, Launched(r, t),
         NEW k \in 1 .. Len(program), program[k].op = "step", NEW q \in Rank
  PROVE  Pending(k, q)' = Pending(k, q)
<1>1. /\ program' = program /\ done[r] \in Nat /\ done[q] \in Nat /\ k \in Nat
      /\ Call(r) = program[done[r] + 1]
      /\ \A p \in Rank : p # r => done'[p] = done[p]
      /\ \/ done'[r] = done[r]
         \/ done'[r] = done[r] + 1 /\ Returns(r)
  BY Calls DEF Control, Moves, EntersExchange, EntersBarrier, Waits, Returns, Enter
<1>2. Received(k, q)' = Received(k, q)
  BY <1>1 DEF Received, Named
<1>3. ASSUME NEW e PROVE e \in Pending(k, q)' <=> e \in Pending(k, q)
  <2>1. /\ e \in Pending(k, q) <=> IF done[q] < k THEN e \in Received(k, q) ELSE Pend(q, k, e)
        /\ e \in Pending(k, q)' <=> IF done'[q] < k THEN e \in Received(k, q) ELSE Pend(q, k, e)'
    BY <1>2, PendingIs, PendingAfter
  <2>2. CASE q # r
    <3>1. \A x : On(q, x)' <=> On(q, x)
      BY <2>2, HostHeads DEF On
    <3>2. Pend(q, k, e)' <=> Pend(q, k, e)
      BY <3>1 DEF Pend
    <3>3. QED
      BY <1>1, <2>1, <2>2, <3>2
  <2>3. CASE q = r /\ k # done[r] + 1
    <3>1. \A i \in 1 .. Len(t) : t[i].call = done[r] + 1
      BY DEF Launched
    <3>2. \A x : On(r, x) => On(r, x)'
      BY HostHeads
    <3>3. \A x : On(r, x)' /\ x.call = k => On(r, x)
      BY <2>3, <3>1, HostHeads
    <3>4. Pend(r, k, e)' <=> Pend(r, k, e)
      BY <3>2, <3>3 DEF Pend
    <3>5. done'[r] < k <=> done[r] < k
      BY <1>1, <2>3
    <3>6. QED
      BY <2>1, <2>3, <3>4, <3>5
  <2>4. CASE q = r /\ k = done[r] + 1
    <3>1. done[r] < k
      BY <1>1, <2>4
    <3>2. CASE done'[r] = done[r]
      BY <2>1, <2>4, <3>1, <3>2
    <3>3. CASE done'[r] = done[r] + 1 /\ Returns(r)
      <4>1. Call(r).op = "step" /\ ~ (done'[r] < k)
        BY <1>1, <2>4, <3>3
      <4>2. stream[r] = << >>
        <5>1. Through(r, "exchange")
          BY <4>1, <3>3 DEF Returns, Through, Quiet, Exchanges, Barriers, Control, Where
        <5>2. QED
          BY <5>1 DEF Through, Streams
      <4>3. \A x : On(r, x)' => \E i \in 1 .. Len(t) : x = t[i]
        BY <4>2, HostHeads DEF On
      <4>4. ASSUME Pend(r, k, e)' PROVE e \in Received(k, r)
        <5>1. PICK i \in 1 .. Len(t) : t[i].name = "step" /\ e \in t[i].ids
          BY <4>3, <4>4 DEF Pend
        <5>2. KernelOf(r, t[i]) /\ t[i].call = k
          BY <2>4 DEF Launched
        <5>3. QED
          BY <5>1, <5>2 DEF KernelOf, Adjusts
      <4>5. ASSUME e \in Received(k, r) PROVE Pend(r, k, e)'
        <5>1. PICK i \in 1 .. Len(t) : t[i].name = "step" /\ t[i].ids = Received(k, r)
          BY <2>4, <3>3, <4>1, <4>5 DEF Launched
        <5>2. PICK x : x = t[i]
          OBVIOUS
        <5>3. x.name = "step" /\ x.call = k /\ e \in x.ids
          BY <2>4, <4>5, <5>1, <5>2 DEF Launched
        <5>4. On(r, x)'
          BY <5>2, HostHeads
        <5>5. QED
          BY <5>3, <5>4 DEF Pend
      <4>6. QED
        BY <2>1, <2>4, <3>1, <4>1, <4>4, <4>5
    <3>4. QED
      BY <1>1, <3>2, <3>3
  <2>5. QED
    BY <2>2, <2>3, <2>4
<1>4. QED
  BY <1>3

\* A step that begins finds nothing due of the one before.
LEMMA NoneDue ==
  ASSUME IInv, NEW r \in Rank, Returns(r), Behind(r), Call(r).op = "step",
         ~ \E q \in Rank : done[q] >= done[r] + 1
  PROVE  Due = {}
<1> DEFINE c == done[r] + 1
<1>1. PICK m : Counts(m)
  BY DEF IInv, Lockstep
<1>2. c \in 1 .. Len(program) /\ program[c].op = "step" /\ Call(r) = program[c] /\ done[r] \in Nat
  BY Calls DEF IInv, Control
<1>3. Through(r, "exchange")
  BY DEF Returns, Through, Quiet, Exchanges, Barriers, IInv, Control, Where
<1>4. ASSUME NEW q \in Rank PROVE done[q] = done[r] /\ stream[q] = << >>
  <2>1. AtExchange(q, c)
    BY <1>1, <1>3, ThroughMet DEF IInv
  <2>2. done[q] = done[r] /\ stage[q] # "idle"
    BY <1>2, <2>1 DEF AtExchange
  <2>3. stage[q] = "exchange"
    BY <1>2, <2>2 DEF IInv, Control, Where, Call, Barriers
  <2>4. QED
    BY <2>2, <2>3 DEF IInv, Streams
<1>5. CASE Steps = {}
  BY <1>5 DEF Due
<1>6. CASE Steps # {}
  <2>1. PICK k \in Steps : Max(Steps) = k
    BY <1>6, LastStep DEF IInv
  <2>2. PICK q \in Rank : done[q] >= k
    BY <2>1 DEF Steps
  <2>3. ASSUME NEW p \in Rank, NEW e, e \in Pending(k, p) PROVE FALSE
    <3>1. ~ (done[p] < k)
      <4>1. done[p] = done[q] /\ done[p] \in Nat /\ k \in Nat
        <5>1. k \in DOMAIN program /\ program \in Seq(CallOf)
          BY <2>1 DEF Steps, IInv, Control, Program
        <5>2. done[p] = done[q] /\ done[p] \in Nat
          BY <1>2, <1>4
        <5>3. QED
          BY <5>1, <5>2
      <4>2. QED
        BY <2>2, <4>1
    <3>2. Pend(p, k, e)
      BY <2>3, <3>1, PendingIs DEF IInv
    <3>3. stream[p] = << >>
      BY <1>4
    <3>4. QED
      BY <3>2, <3>3 DEF Pend, On
  <2>4. QED
    BY <1>6, <2>1, <2>3 DEF Due
<1>7. QED
  BY <1>5, <1>6
\* A host that moves leaves what is due, or is the first to return from a step when nothing was.
LEMMA HostDue ==
  ASSUME IInv, Streams', NEW r \in Rank, Moves(r), NEW t, Launched(r, t)
  PROVE  Due' = Due \/ (Due = {} /\ Due' \in SUBSET Entry)
<1>1. Control /\ Streams
  BY DEF IInv
<1>2. /\ program' = program /\ program \in Seq(CallOf) /\ Len(program) \in Nat
      /\ Behind(r) /\ Call(r) = program[done[r] + 1]
      /\ \A q \in Rank : done[q] \in Nat /\ (q # r => done'[q] = done[q])
      /\ \/ done'[r] = done[r]
         \/ done'[r] = done[r] + 1 /\ Returns(r)
  BY <1>1, Calls DEF Control, Program, Moves, EntersExchange, EntersBarrier, Waits, Returns, Enter
<1>3. \A k \in Steps : k \in 1 .. Len(program) /\ program[k].op = "step" /\ k \in Nat
  BY <1>2 DEF Steps
<1>4. \A k \in Steps' : k \in 1 .. Len(program) /\ program[k].op = "step" /\ k \in Nat
  BY <1>2 DEF Steps
<1>5. Steps \subseteq Steps'
  BY <1>2, <1>3 DEF Steps
<1>6. CASE Steps' = Steps
  <2>1. \A k \in Steps, q \in Rank : Pending(k, q)' = Pending(k, q)
    BY <1>1, <1>3, HostPending
  <2>2. QED
    BY <1>1, <1>6, <2>1, DueKept
<1>7. CASE Steps' # Steps
  <2>1. PICK k \in Steps' : k \notin Steps
    BY <1>5, <1>7
  <2>2. \A q \in Rank : ~ (done[q] >= k)
    BY <1>2, <1>4, <2>1 DEF Steps
  <2>3. PICK p \in Rank : done'[p] >= k
    BY <2>1 DEF Steps
  <2>4. done'[r] = k /\ k = done[r] + 1 /\ Returns(r)
    BY <1>2, <1>4, <2>1, <2>2, <2>3
  <2>5. Due = {}
    BY <1>2, <1>4, <2>1, <2>2, <2>4, NoneDue
  <2>6. PICK S : S = Steps'
    OBVIOUS
  <2>7. \A j \in S : j <= k
    <3>1. ASSUME NEW j \in Steps' PROVE j <= k
      <4>1. PICK q \in Rank : done'[q] >= j
        BY <3>1 DEF Steps
      <4>2. CASE q = r
        BY <1>4, <2>1, <2>4, <4>1, <4>2
      <4>3. CASE q # r
        <5>1. done[q] >= j /\ ~ (done[q] >= k) /\ done[q] \in Nat
          BY <1>2, <2>2, <4>1, <4>3
        <5>2. QED
          BY <1>4, <2>1, <5>1
      <4>4. QED
        BY <4>2, <4>3
    <3>2. QED
      BY <2>6, <3>1
  <2>8. S \in SUBSET Nat /\ k \in S
    BY <1>4, <2>1, <2>6
  <2>9. Max(S) = k
    BY <2>7, <2>8, LargestIs
  <2>10. Due' = UNION {Pending(k, q)' : q \in Rank}
    BY <2>6, <2>8, <2>9 DEF Due
  <2>11. \A q \in Rank : Pending(k, q)' \subseteq Entry
    <3>1. ASSUME NEW q \in Rank PROVE Pending(k, q)' \subseteq Entry
      <4>1. Pending(k, q)' = Pending(k, q)
        BY <1>1, <1>4, <2>1, HostPending
      <4>2. done[q] < k
        BY <1>2, <1>4, <2>1, <2>2
      <4>3. Pending(k, q) = Received(k, q)
        BY <4>2 DEF Pending
      <4>4. QED
        BY <1>1, <1>4, <2>1, <4>1, <4>3, Ids
    <3>2. QED
      BY <3>1
  <2>12. Due' \in SUBSET Entry
    BY <2>10, <2>11
  <2>13. QED
    BY <2>5, <2>12
<1>8. QED
  BY <1>6, <1>7

\* What the kernels do to what a gather returns.
LEMMA DeviceCached ==
  ASSUME IInv, Streams', NEW r \in Rank, Device(r), ~ RunStep(r)
  PROVE  /\ \A f \in Entry : Cached(f)' = Cached(f)
         /\ UNCHANGED stream \/ (Ends(r) /\ stream[r][1].name # "step")
<1>1. Control /\ Streams /\ Lines
  BY DEF IInv
<1>2. CASE RunUpdate(r) \/ RunChoose(r) \/ RunFill(r) \/ RunCopy(r) \/ RunStoreTags(r)
  BY <1>1, <1>2, OtherWriters
<1>3. CASE (\E e \in Entry : LoadTag(r, e) \/ ReadRow(r, e) \/ TryRow(r, e)) \/ RunFetch(r) \/ Collect(r)
  <2>1. stream[r] # << >>
    BY <1>3 DEF LoadTag, ReadRow, TryRow, RunFetch, Collect, Runs
  <2>2. \A name : Runs(r, name) <=> stream[r][1].name = name
    BY <1>1, <2>1, HeadOn
  <2>3. stream[r][1].name \in Reads \cup {"collect"}
    BY <1>3, <2>2 DEF LoadTag, ReadRow, TryRow, RunFetch, Collect, Reads
  <2>4. UNCHANGED <<kind, storage>>
    BY <1>3 DEF LoadTag, ReadRow, TryRow, RunFetch, Collect, host
  <2>5. UNCHANGED stream \/ Ends(r)
    BY <1>3, <2>1 DEF LoadTag, ReadRow, TryRow, RunFetch, Collect, Ended, Ends
  <2>6. \A f \in Entry : Cached(f)' = Cached(f)
    BY <1>1, <2>3, <2>4, <2>5, ReadingLines
  <2>7. stream[r][1].name # "step"
    BY <2>3 DEF Reads
  <2>8. QED
    BY <2>5, <2>6, <2>7
<1>4. QED
  BY <1>2, <1>3 DEF Device

\* Other kernels leave what is due.
LEMMA OtherDue ==
  ASSUME IInv, Streams', NEW r \in Rank, UNCHANGED host,
         UNCHANGED stream \/ (Ends(r) /\ stream[r][1].name # "step")
  PROVE  Due' = Due
<1>1. Control /\ Streams
  BY DEF IInv
<1>2. program' = program /\ done' = done
  BY DEF host
<1>3. Steps' = Steps
  BY <1>2 DEF Steps
<1>4. ASSUME NEW k, NEW q \in Rank PROVE Pending(k, q)' = Pending(k, q)
  <2>1. \A x : x.name = "step" => (On(q, x)' <=> On(q, x))
    BY <1>1, StepsStay
  <2>2. ASSUME NEW e PROVE e \in Pending(k, q)' <=> e \in Pending(k, q)
    <3>1. Pend(q, k, e)' <=> Pend(q, k, e)
      BY <2>1 DEF Pend
    <3>2. Received(k, q)' = Received(k, q)
      BY <1>2 DEF Received, Named
    <3>3. QED
      BY <1>1, <1>2, <3>1, <3>2, PendingIs, PendingAfter
  <2>3. QED
    BY <2>2
<1>5. QED
  BY <1>1, <1>3, <1>4, DueKept
\* The kernel of a step that runs is of the last step that has begun: the next one
\* waits until the stream is empty.
LEMMA LastRuns ==
  ASSUME IInv, NEW r \in Rank, NEW x, x = stream[r][1], stream[r] # << >>, x.name = "step"
  PROVE  /\ x.call \in Steps /\ Steps \in SUBSET Nat /\ \A j \in Steps : j <= x.call
         /\ x.call \in 1 .. done[r] /\ x.call \in 0 .. Len(program)
<1>1. /\ program \in Seq(CallOf) /\ DOMAIN program = 1 .. Len(program) /\ Len(program) \in Nat
      /\ done[r] \in Nat /\ done[r] <= Len(program)
  BY Calls DEF IInv, Control, Program, Where
<1>2. Placed(r, x)
  BY HeadOn DEF IInv
<1>3. /\ x.call \in 1 .. done[r] /\ program[x.call].op = "step"
      /\ \A j \in x.call + 1 .. done[r] : Quiet(program[j])
  BY <1>2 DEF Placed, Reads
<1>4. Steps \in SUBSET Nat /\ x.call \in Steps /\ x.call \in 0 .. Len(program)
  BY <1>1, <1>3 DEF Steps
<1>5. ASSUME NEW j \in Steps, ~ (j <= x.call) PROVE FALSE
  <2>1. PICK q \in Rank : done[q] >= j
    BY <1>5 DEF Steps
  <2>2. j \in 1 .. Len(program) /\ program[j].op = "step"
    BY <1>1, <1>5 DEF Steps
  <2>3. Exchanges(program[j]) /\ PastExchange(q, j)
    BY <2>1, <2>2 DEF Exchanges, PastExchange
  <2>4. AtExchange(r, j)
    BY <2>2, <2>3 DEF IInv, Lockstep, Together
  <2>5. ~ (j \in x.call + 1 .. done[r])
    BY <1>3, <2>3 DEF Quiet
  <2>6. done[r] = j - 1 /\ stage[r] # "idle"
    BY <1>1, <1>3, <1>5, <2>2, <2>4, <2>5 DEF AtExchange
  <2>7. j \in Nat /\ done[r] + 1 = j
    BY <1>1, <2>2, <2>6
  <2>8. Call(r) = program[j] /\ ~ Barriers(Call(r))
    BY <2>2, <2>7 DEF Call, Barriers
  <2>9. stage[r] = "exchange"
    BY <2>6, <2>8 DEF IInv, Control, Where
  <2>10. QED
    BY <2>9 DEF IInv, Streams
<1>6. QED
  BY <1>3, <1>4, <1>5

\* A block of a step kernel writes an entry that is due, and which then is no longer.
LEMMA StepDue ==
  ASSUME IInv, Streams', NEW r \in Rank, UNCHANGED host, NEW e, Blocks(r, e)
  PROVE  e \in Due /\ Due' = Due \ {e}
<1>1. Control /\ Streams
  BY DEF IInv
<1>2. program' = program /\ done' = done
  BY DEF host
<1>3. PICK x : x = stream[r][1]
  OBVIOUS
<1>4. stream[r] # << >> /\ x.name = "step" /\ e \in x.ids
  BY <1>3 DEF Blocks
<1>5. PICK c : c = x.call
  OBVIOUS
<1>6. /\ c \in Steps /\ Steps \in SUBSET Nat /\ \A j \in Steps : j <= c
      /\ c \in 1 .. done[r]
  BY <1>3, <1>4, <1>5, LastRuns
<1>7. On(r, x) /\ KernelOf(r, x)
  BY <1>1, <1>3, <1>4, HeadOn
<1>8. Owner[e] = r
  BY <1>4, <1>7 DEF KernelOf, Adjusts, Received
<1>9. done[r] \in Nat /\ ~ (done[r] < c)
  BY <1>1, <1>6 DEF Control
<1>10. e \in Pending(c, r)
  <2>1. Pend(r, c, e)
    BY <1>4, <1>5, <1>7 DEF Pend
  <2>2. QED
    BY <1>1, <1>9, <2>1, PendingIs
<1>11. \A q \in Rank : q # r => stream'[q] = stream[q]
  BY <1>1, AfterEnd, AfterShrink DEF Blocks
<1>12. ASSUME NEW q \in Rank, q # r PROVE Pending(c, q)' = Pending(c, q) /\ e \notin Pending(c, q)
  <2>1. Pending(c, q)' = Pending(c, q)
    BY <1>2, <1>11, <1>12, ZenonT(60) DEF Pending, Received, Named
  <2>2. ASSUME e \in Pending(c, q) PROVE FALSE
    <3>1. e \in Received(c, q) \/ Pend(q, c, e)
      BY <1>1, <2>2, PendingIs
    <3>2. ASSUME NEW y, On(q, y), y.name = "step", y.call = c, e \in y.ids PROVE e \in Received(c, q)
      <4>1. KernelOf(q, y)
        BY <1>1, <3>2 DEF Streams, AllPlaced, Placed
      <4>2. QED
        BY <3>2, <4>1 DEF KernelOf, Adjusts
    <3>3. e \in Received(c, q)
      BY <3>1, <3>2 DEF Pend
    <3>4. QED
      BY <1>8, <1>12, <3>3 DEF Received
  <2>3. QED
    BY <2>1, <2>2
<1>13. Pending(c, r)' = Pending(c, r) \ {e}
  <2>1. ASSUME NEW f PROVE f \in Pending(c, r)' <=> f \in Pending(c, r) /\ f # e
    <3>1. Pend(r, c, f)' <=> Pend(r, c, f) /\ f # e
      BY <1>1, StepPends
    <3>2. f \in Pending(c, r) <=> Pend(r, c, f)
      BY <1>1, <1>9, PendingIs
    <3>3. f \in Pending(c, r)' <=> Pend(r, c, f)'
      BY <1>2, <1>9, PendingAfter
    <3>4. QED
      BY <3>1, <3>2, <3>3
  <2>2. QED
    BY <2>1
<1>14. Due = UNION {Pending(c, q) : q \in Rank}
  BY <1>6, LargestIs DEF Due
<1>15. Due' = UNION {Pending(c, q)' : q \in Rank}
  <2>1. PICK S : S = Steps
    OBVIOUS
  <2>2. Steps' = S
    BY <1>2, <2>1 DEF Steps
  <2>3. Max(S) = c /\ S # {}
    BY <1>6, <2>1, LargestIs
  <2>4. QED
    BY <2>2, <2>3 DEF Due
<1>16. QED
  BY <1>10, <1>12, <1>13, <1>14, <1>15

\* A new call changes neither what is due nor the table.
LEMMA IssueDue ==
  ASSUME IInv, NEW op \in Op, NEW adjust \in BOOLEAN, NEW batch \in [Rank -> SUBSET Entry],
         Issue(op, adjust, batch)
  PROVE  Due' = Due /\ \A e \in Entry : Cached(e)' = Cached(e)
<1>1. Control /\ Streams
  BY DEF IInv
<1>2. /\ program' \in Seq(CallOf) /\ Len(program') = Len(program) + 1 /\ Len(program) \in Nat
      /\ \A k \in 1 .. Len(program) : program'[k] = program[k]
  BY <1>1, Issued
<1>3. DOMAIN program = 1 .. Len(program) /\ DOMAIN program' = 1 .. Len(program) + 1
  BY <1>1, <1>2 DEF Control, Program
<1>4. done' = done /\ stream' = stream /\ mem' = mem /\ tag' = tag /\ data' = data
  BY DEF Issue, storage
<1>5. \A q \in Rank : done[q] \in Nat /\ done[q] <= Len(program)
  BY <1>1 DEF Control, Where
<1>6. Steps' = Steps
  <2>1. ASSUME NEW k PROVE k \in Steps' <=> k \in Steps
    <3>1. CASE k \in 1 .. Len(program)
      BY <1>2, <1>3, <1>4, <3>1 DEF Steps
    <3>2. CASE k = Len(program) + 1
      BY <1>2, <1>3, <1>4, <1>5, <3>2 DEF Steps
    <3>3. QED
      BY <1>2, <1>3, <3>1, <3>2 DEF Steps
  <2>2. QED
    BY <2>1
<1>7. ASSUME NEW k \in Steps, NEW q \in Rank PROVE Pending(k, q)' = Pending(k, q)
  <2>1. program'[k] = program[k]
    BY <1>2, <1>3, <1>7 DEF Steps
  <2>2. QED
    BY <1>4, <2>1 DEF Pending, Received, Named
<1>8. QED
  BY <1>1, <1>4, <1>6, <1>7, DueKept DEF Cached, Filling

-----------------------------------------------------------------------------
TableOf == [e \in Entry |-> Cached(e)]

\* The table begins as EmbeddingTable says ...
LEMMA InitTable == Init => Table!TableInit
<1> SUFFICES ASSUME Init PROVE Table!TableInit
  OBVIOUS
<1>1. Lines
  BY InitLines
<1>2. \A e \in Entry : Cached(e) \in Row
  BY <1>1, OwnerAssumption DEF Lines, Cached
<1>3. Steps = {}
  BY DEF Init, Steps
<1>4. QED
  BY <1>2, <1>3 DEF Table!TableInit, Due

\* ... and every step changes it as one of EmbeddingTable does, or not at all.
LEMMA NextTable ==
  ASSUME IInv, [Next]_vars
  PROVE  [Table!TableNext]_<<TableOf, Due>>
<1>1. IInv' /\ Streams'
  BY NextInv DEF IInv
<1>2. (\A e \in Entry : Cached(e)' = Cached(e)) => TableOf' = TableOf
  BY DEF TableOf
<1>3. ASSUME NEW op \in Op, NEW adjust \in BOOLEAN, NEW batch \in [Rank -> SUBSET Entry],
             Issue(op, adjust, batch)
      PROVE  UNCHANGED <<TableOf, Due>>
  BY <1>2, <1>3, IssueDue
<1>4. ASSUME NEW r \in Rank, Host(r) PROVE [Table!TableNext]_<<TableOf, Due>>
  <2>1. Moves(r)
    BY <1>4, HostMoves DEF IInv
  <2>2. UNCHANGED storage
    BY <1>4, HostLaunches DEF IInv
  <2>3. PICK t : Launched(r, t)
    BY <1>4, HostLaunches DEF IInv
  <2>4. TableOf' = TableOf
    BY <1>1, <1>2, <2>1, <2>2, <2>3, HostCached
  <2>5. Due' = Due \/ (Due = {} /\ Due' \in SUBSET Entry)
    BY <1>1, <2>1, <2>3, HostDue
  <2>6. QED
    BY <2>4, <2>5 DEF Table!TableNext, Table!Launch, TableOf
<1>5. ASSUME NEW r \in Rank, Device(r), ~ RunStep(r) PROVE UNCHANGED <<TableOf, Due>>
  BY <1>1, <1>2, <1>5, DeviceCached, DeviceRuns, OtherDue DEF IInv
<1>6. ASSUME NEW r \in Rank, RunStep(r) PROVE [Table!TableNext]_<<TableOf, Due>>
  <2>1. Control /\ Streams /\ Lines
    BY DEF IInv
  <2>2. PICK x : x = stream[r][1]
    OBVIOUS
  <2>3. UNCHANGED host
    BY <1>1, <1>6, <2>1, StepLines
  <2>4. PICK e \in Entry : /\ Blocks(r, e) /\ Cached(e)' = <<e, x.call>>
                           /\ \A f \in Entry : f # e => Cached(f)' = Cached(f)
    BY <1>1, <1>6, <2>1, <2>2, StepLines DEF Blocks
  <2>5. e \in Due /\ Due' = Due \ {e}
    BY <1>1, <2>3, <2>4, StepDue
  <2>6. <<e, x.call>> \in Row
    <3>1. stream[r] # << >> /\ x.name = "step"
      BY <2>2, <2>4 DEF Blocks
    <3>2. x.call \in 0 .. Len(program)
      BY <2>2, <3>1, LastRuns
    <3>3. QED
      BY <2>1, <3>2, RowOf
  <2>7. TableOf' = [TableOf EXCEPT ![e] = <<e, x.call>>]
    BY <2>4 DEF TableOf
  <2>8. QED
    BY <2>5, <2>6, <2>7 DEF Table!TableNext, Table!Write, TableOf
<1>7. CASE UNCHANGED vars
  BY <1>7 DEF vars, TableOf, Cached, Filling, Due, Steps, Pending, Received, Named
<1>8. \A batch \in Batches : batch \in [Rank -> SUBSET Entry]
  BY BatchesAssumption
<1>9. NoBatch \in [Rank -> SUBSET Entry]
  BY DEF NoBatch
<1>10. QED
  BY <1>3, <1>4, <1>5, <1>6, <1>7, <1>8, <1>9 DEF Next, Finished, Op

\* The caches of all ranks together are one table that changes only in steps: whatever
\* they load, evict and write back, a row changes only when a step that has begun writes
\* it, and a step begins only after the one before has written all of its rows.
THEOREM CachesImplementTable == Spec => ImplementsTable
<1>1. Init => Table!TableInit
  BY InitTable
<1>2. IInv /\ [Next]_vars => [Table!TableNext]_<<[e \in Entry |-> Cached(e)], Due>>
  BY NextTable DEF TableOf
<1>3. QED
  BY <1>1, <1>2, Invariance, PTL DEF Spec, ImplementsTable, Table!TableSpec
=============================================================================
