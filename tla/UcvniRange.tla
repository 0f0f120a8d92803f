----------------------------- MODULE UcvniRange -----------------------------
(***************************************************************************)
(* Neutron's network segment ranges in the range of a Nautobot UCVNI       *)
(* group: the workflow of each network_segment_range event                 *)
(* (main/sync_ucvni_group_range.py).  The group has one field, a list of   *)
(* ranges, that every workflow reads, changes and writes; a note for each  *)
(* segment range remembers which part of the list is its.                  *)
(***************************************************************************)
EXTENDS Integers, Sequences, SequencesExt, FiniteSets

CONSTANTS
  SegmentRanges,  \* ids of Neutron's segment ranges
  MaxNumber,      \* numbers are 1..MaxNumber
  RangeEnvs,      \* the environments considered
  NoRange         \* no range or note

ASSUME UcvniRangeAssumption ==
  /\ MaxNumber \in Nat
  /\ \A e \in RangeEnvs : e.serial \in BOOLEAN /\ e.fail \in BOOLEAN /\ e.most \in Nat

VARIABLES
  rangeEnv,  \* serial: events handled one by one, in order; fail: calls may fail;
             \* given: what the group's field has first; most: how many events
  segRange,  \* Neutron: the numbers of a segment range
  groupList, \* Nautobot: the group's range field
  note,      \* Nautobot: the note with the segment range's id
  change     \* the workflow of each event

ucvniVars == <<rangeEnv, segRange, groupList, note, change>>

Spans == {r \in (1..MaxNumber) \X (1..MaxNumber) : r[1] <= r[2]}
Numbers(r) == r[1]..r[2]
Listed(list) == UNION {Numbers(list[k]) : k \in DOMAIN list}
SpanIds == 1..Len(change)

UcvniInit ==
  /\ rangeEnv \in RangeEnvs
  /\ segRange = [s \in SegmentRanges |-> NoRange]
  /\ groupList = rangeEnv.given
  /\ note = [s \in SegmentRanges |-> NoRange]
  /\ change = <<>>

-----------------------------------------------------------------------------
\* Neutron: segment ranges do not overlap.  The event carries the new numbers.

Taken(segments) == UNION {Numbers(segRange[s]) : s \in {t \in segments : segRange[t] # NoRange}}
Free(s, r) == Numbers(r) \cap Taken(SegmentRanges \ {s}) = {}

Announce(kind, s, r) ==
  /\ Len(change) < rangeEnv.most
  /\ change' = Append(change, [kind |-> kind, of |-> s, range |-> r, pc |-> "pending",
                               list |-> <<>>, seen |-> <<>>])
  /\ UNCHANGED <<rangeEnv, groupList, note>>

\* Ids are not used again.
CreateRange(s, r) ==
  /\ segRange[s] = NoRange /\ Free(s, r) /\ \A k \in SpanIds : change[k].of # s
  /\ segRange' = [segRange EXCEPT ![s] = r]
  /\ Announce("create", s, r)

UpdateRange(s, r) ==
  /\ segRange[s] # NoRange /\ Free(s, r)
  /\ segRange' = [segRange EXCEPT ![s] = r]
  /\ Announce("update", s, r)

DeleteRange(s) ==
  /\ segRange[s] # NoRange
  /\ segRange' = [segRange EXCEPT ![s] = NoRange]
  /\ Announce("delete", s, segRange[s])

-----------------------------------------------------------------------------
\* handle_event.

Finished == {"done", "error"}
Moves(k, pc) ==
  change' = [change EXCEPT ![k] = IF pc \in Finished THEN [@ EXCEPT !.pc = pc, !.list = <<>>, !.seen = <<>>]
                                  ELSE [@ EXCEPT !.pc = pc]]
OnlyChange == UNCHANGED <<rangeEnv, segRange, groupList, note>>

\* ucvni_groups.get.
GetGroup(k) ==
  /\ change[k].pc = "pending"
  /\ rangeEnv.serial => \A j \in 1..(k - 1) : change[j].pc \in Finished
  /\ change' = [change EXCEPT ![k].seen = groupList,
                  ![k].list = IF change[k].kind = "create" THEN Append(groupList, change[k].range)
                              ELSE <<>>,
                  ![k].pc = IF change[k].kind = "create" THEN "write" ELSE "note"]
  /\ OnlyChange

\* _remove_subrange, for one range of the list: what is left of it.
Without(r, gone) ==
  IF r[2] < gone[1] \/ r[1] > gone[2] THEN <<r>>
  ELSE (IF r[1] < gone[1] THEN << <<r[1], gone[1] - 1>> >> ELSE <<>>)
       \o (IF r[2] > gone[2] THEN << <<gone[2] + 1, r[2]>> >> ELSE <<>>)

\* modify_range; no note raises.
GetNote(k) ==
  /\ change[k].pc = "note"
  /\ LET c == change[k]
         old == note[c.of]
         left == FoldLeft(LAMBDA list, r : list \o Without(r, old), <<>>, c.seen)
     IN IF old = NoRange THEN Moves(k, "error")
        ELSE change' = [change EXCEPT ![k].pc = "write",
               ![k].list = IF c.kind = "update" THEN Append(left, c.range) ELSE left]
  /\ OnlyChange

\* ucvni_group.update: true when the field is not what was read.
WriteGroup(k) ==
  /\ change[k].pc = "write"
  /\ IF change[k].list = change[k].seen
       THEN groupList' = groupList /\ Moves(k, "error")
       ELSE groupList' = change[k].list /\ Moves(k, "capture")
  /\ UNCHANGED <<rangeEnv, segRange, note>>

\* Faulty variant: an update leaves the note as it is.
CaptureNewOnly(k) ==
  /\ change[k].pc = "capture"
  /\ note' = [note EXCEPT ![change[k].of] =
                CASE change[k].kind = "create" -> change[k].range
                  [] change[k].kind = "delete" -> NoRange
                  [] OTHER -> @]
  /\ Moves(k, "done")
  /\ UNCHANGED <<rangeEnv, segRange, groupList>>

\* capture_segment_range_in_notes.
Capture(k) ==
  /\ change[k].pc = "capture"
  /\ note' = [note EXCEPT ![change[k].of] =
                IF change[k].kind = "delete" THEN NoRange ELSE change[k].range]
  /\ Moves(k, "done")
  /\ UNCHANGED <<rangeEnv, segRange, groupList>>

RangeCallFails(k) ==
  /\ rangeEnv.fail /\ change[k].pc \notin {"pending"} \cup Finished
  /\ Moves(k, "error")
  /\ OnlyChange

UcvniNext ==
  \/ \E s \in SegmentRanges : \/ DeleteRange(s)
                              \/ \E r \in Spans : CreateRange(s, r) \/ UpdateRange(s, r)
  \/ \E k \in SpanIds : \/ GetGroup(k) \/ GetNote(k) \/ WriteGroup(k) \/ Capture(k)
                        \/ RangeCallFails(k)

-----------------------------------------------------------------------------
\* Handled in order and without failures, the events add up, whatever moved into the
\* numbers another range left: the group has the numbers of every segment range, and
\* no other but those an operator gave it before the first event.
RangesAddUp ==
  rangeEnv.serial /\ ~rangeEnv.fail /\ (\A k \in SpanIds : change[k].pc \in Finished) =>
    /\ Taken(SegmentRanges) \subseteq Listed(groupList)
    /\ Listed(groupList) \subseteq Taken(SegmentRanges) \cup Listed(rangeEnv.given)
=============================================================================
