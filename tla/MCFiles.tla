------------------------------- MODULE MCFiles -------------------------------
(* Loading of files (FileLoad) and reading of a run with direct IO           *)
(* (DirectRead).  The two share nothing; a behaviour loads one layout or     *)
(* reads one job, and the other one is trivial in it.                        *)
EXTENDS FileLoad, DirectRead

-----------------------------------------------------------------------------
\* Files with runs that end in them, at their end and in a later file; an empty
\* file; more threads than there are rounds or rows for.
MCFileSizes == {<<7>>, <<3, 0, 4>>, <<1, 6>>, <<2, 2, 2, 1>>}
MCOffsets   == {<<0, 4, 7>>, <<0, 2, 8>>, <<0, 6, 9>>, <<0, 0, 7>>, <<0, 1, 7>>}

Layout(threads, robin, rows, offsets, files) ==
  [ranks |-> 2, threads |-> threads, robin |-> robin, rows |-> rows,
   offsets |-> [r \in 0 .. 2 |-> offsets[r + 1]], files |-> files]

\* Round robin layouts, with as many rows as entries, or one more.
MCRobins ==
  {Layout(threads, robin, rows, <<0, 0, 0>>, files) :
     threads \in 1 .. 3, robin \in 1 .. 3, rows \in {7, 8}, files \in MCFileSizes}

\* Contiguous layouts.
MCContiguous ==
  {Layout(threads, 0, offsets[3], offsets, files) :
     threads \in 1 .. 3, offsets \in MCOffsets, files \in MCFileSizes \cup {<<8>>}}
  \cup {Layout(4, 0, 10, <<0, 5, 10>>, <<10>>)}

MCLayouts == {l \in MCRobins \cup MCContiguous : Fits(l)}

\* Entries smaller and larger than a block, cut by blocks and buffers at every
\* place, with and without space between them.
MCJobs ==
  [entry : 1 .. 5, stride : {5, 6}, block : {2, 4}, blocks : {2, 3}, entries : {6},
   first : 0 .. 3, count : {1, 3}]

-----------------------------------------------------------------------------
\* A layout that is refused and a job of one byte.
SmallLayout == Layout(1, 0, 7, <<0, 0, 7>>, <<8>>)
SmallJob    == [entry |-> 1, stride |-> 5, block |-> 2, blocks |-> 2, entries |-> 6,
                first |-> 0, count |-> 1]

MCInit == Init /\ DirectInit /\ (layout = SmallLayout \/ job = SmallJob)

MCNext ==
  \/ Next /\ UNCHANGED directVars
  \/ DirectNext /\ UNCHANGED vars

MCSpec ==
  /\ MCInit /\ [][MCNext]_<<vars, directVars>>
  /\ WF_<<vars, directVars>>(Progress /\ UNCHANGED directVars)
=============================================================================
