------------------------------ MODULE MCRanges ------------------------------
(***************************************************************************)
(* Instances of Ranges and UcvniRange for TLC: a behaviour evaluates one   *)
(* list of up to MaxRanges ranges, or handles events on segment ranges.    *)
(***************************************************************************)
EXTENDS Ranges, UcvniRange

CONSTANTS s1, s2

MCDefaults == {<<1, 5>>, <<3, 4>>}

NoEvents == [serial |-> TRUE, fail |-> FALSE, given |-> << <<1, 1>> >>, most |-> 0]
\* In order, from an empty field and from one that was filled by hand.
Orderly == [NoEvents EXCEPT !.given = <<>>, !.most = 4]
MCRangeEnvs == {NoEvents, Orderly, [Orderly EXCEPT !.given = << <<1, 3>> >>, !.most = 3],
                [Orderly EXCEPT !.fail = TRUE, !.most = 3],
                [Orderly EXCEPT !.serial = FALSE, !.most = 3]}

Unasked == [ranges |-> <<>>, rows |-> {}, default |-> <<3, 4>>]
MCInit == Init /\ UcvniInit /\ (rangeEnv = NoEvents \/ input = Unasked)
MCNext == \/ Evaluate /\ UNCHANGED ucvniVars
          \/ UcvniNext /\ UNCHANGED vars
MCSpec == MCInit /\ [][MCNext]_<<vars, ucvniVars>>
=============================================================================
