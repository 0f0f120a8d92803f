------------------------------- MODULE Ranges -------------------------------
(***************************************************************************)
(* The interval arithmetic of neutron-understack: merging configured VNI   *)
(* ranges and looking for a never-used VNI (understack_vni_db.py), and the *)
(* VLAN ids a trunk may use, the gaps between the network segment ranges   *)
(* (utils.py).  Each behaviour evaluates the code on one input; the        *)
(* invariants compare what it returns with its meaning as a set.           *)
(***************************************************************************)
EXTENDS Integers, Sequences, SequencesExt, FiniteSetsExt

CONSTANTS
  MaxId,      \* ids are 1..MaxId
  MaxRanges,  \* longest list of ranges
  Defaults    \* values of default_tenant_vlan_id_range

ASSUME RangesAssumption ==
  /\ MaxId \in Nat /\ MaxRanges \in Nat
  /\ \A d \in Defaults : d \in (1..MaxId) \X (1..MaxId) /\ d[1] <= d[2]

Ids == 1..MaxId
None == 0
AllRanges == {r \in Ids \X Ids : r[1] <= r[2]}

Covered(ranges) == UNION {ranges[i][1]..ranges[i][2] : i \in DOMAIN ranges}

-----------------------------------------------------------------------------
\* sorted() on pairs.
Sorted(ranges) == SortSeq(ranges, LAMBDA a, b : a[1] < b[1] \/ (a[1] = b[1] /\ a[2] < b[2]))

\* _merge_ranges and merge_overlapped_ranges, the same loop.
MergeRanges(ranges) ==
  FoldLeft(LAMBDA merged, r :
             IF merged = <<>> \/ r[1] > Last(merged)[2] + 1 THEN Append(merged, r)
             ELSE Append(Front(merged), <<Last(merged)[1], Max({Last(merged)[2], r[2]})>>),
           <<>>, Sorted(ranges))

\* _find_never_used_vni: walk the rows of each range in order; the first hole,
\* or the id after the last row.
CandidateIn(r, rows) ==
  LET walk == FoldLeft(LAMBDA acc, vni :
                         IF acc.found \/ vni > acc.candidate THEN [acc EXCEPT !.found = TRUE]
                         ELSE [acc EXCEPT !.candidate = IF vni = @ THEN @ + 1 ELSE @],
                       [candidate |-> r[1], found |-> FALSE],
                       SetToSortSeq(rows \cap (r[1]..r[2]), LAMBDA a, b : a < b))
  IN  IF walk.candidate <= r[2] THEN walk.candidate ELSE None

\* Faulty variant: the first id of a range is skipped.
FindNeverUsedSkipping(ranges, rows) ==
  FoldLeft(LAMBDA vni, r : IF vni # None THEN vni ELSE CandidateIn(<<r[1] + 1, r[2]>>, rows),
           None, ranges)

FindNeverUsedVni(ranges, rows) ==
  FoldLeft(LAMBDA vni, r : IF vni # None THEN vni ELSE CandidateIn(r, rows), None, ranges)

\* Faulty variant: a gap includes the first id of the range after it.
FetchGapsClosed(ranges, default) ==
  LET walk == FoldLeft(LAMBDA acc, r :
                [free |-> IF r[1] > acc.prev + 1
                          THEN Append(acc.free, <<acc.prev + 1, r[1]>>) ELSE acc.free,
                 prev |-> r[2]],
                [free |-> <<>>, prev |-> default[1] - 1], ranges)
  IN  IF walk.prev < default[2] THEN Append(walk.free, <<walk.prev + 1, default[2]>>)
      ELSE walk.free

\* fetch_gaps_in_ranges.
FetchGapsInRanges(ranges, default) ==
  LET walk == FoldLeft(LAMBDA acc, r :
                [free |-> IF r[1] > acc.prev + 1
                          THEN Append(acc.free, <<acc.prev + 1, r[1] - 1>>) ELSE acc.free,
                 prev |-> r[2]],
                [free |-> <<>>, prev |-> default[1] - 1], ranges)
  IN  IF walk.prev < default[2] THEN Append(walk.free, <<walk.prev + 1, default[2]>>)
      ELSE walk.free

\* allowed_tenant_vlan_id_ranges, and segmentation_id_in_ranges for every id.
AllowedTenantVlanIdRanges(ranges, default) == FetchGapsInRanges(MergeRanges(ranges), default)

SegmentationIdInRanges(id, ranges) ==
  \E i \in DOMAIN ranges : ranges[i][1] <= id /\ id <= ranges[i][2]

-----------------------------------------------------------------------------
VARIABLES
  input,    \* configured ranges, VNI rows, default range
  output    \* what the code returns, or <<>> before it is called

vars == <<input, output>>

Inputs == [ranges : UNION {[1..k -> AllRanges] : k \in 0..MaxRanges},
           rows : SUBSET Ids, default : Defaults]

Init == input \in Inputs /\ output = <<>>

Evaluate ==
  /\ output = <<>>
  /\ output' = [vni |-> FindNeverUsedVni(MergeRanges(input.ranges), input.rows),
                allowed |-> {id \in Ids : SegmentationIdInRanges(id,
                               AllowedTenantVlanIdRanges(input.ranges, input.default))}]
  /\ UNCHANGED input

Spec == Init /\ [][Evaluate]_vars

-----------------------------------------------------------------------------
Returned == output # <<>>
Default == input.default[1]..input.default[2]

\* The loop over rows and ranges finds the lowest id of the ranges that has no
\* row, and None only when every id has one.
NeverUsedIsLowest ==
  Returned => LET unused == Covered(input.ranges) \ input.rows IN
    output.vni = IF unused = {} THEN None ELSE Min(unused)

\* A VLAN id a tenant may choose for a subport is never in a network segment
\* range, "used to allocate VLAN tags for all VLAN segments, including native
\* VLANs" (_check_subports_segmentation_id), and nothing else is refused: with the
\* segment ranges inside the default range, every other id of it is allowed.
AllowedAvoidsNative ==
  Returned =>
    /\ output.allowed \cap Covered(input.ranges) = {}
    /\ Covered(input.ranges) \subseteq Default => output.allowed = Default \ Covered(input.ranges)
=============================================================================
