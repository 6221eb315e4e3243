----------------------------- MODULE MCOutgoing -----------------------------
(***************************************************************************)
(* Instances of Outgoing for TLC: the same data may be wanted signed as    *)
(* either type.                                                            *)
(***************************************************************************)
EXTENDS Outgoing

CONSTANTS c1, c2, data

MCCalls == {c1, c2}
MCChecks == {"check_1", "check_2"}
MCQueries == Calls \X (Checks \cup {"height"})
MCData == {data}
=============================================================================
