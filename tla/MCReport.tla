------------------------------ MODULE MCReport ------------------------------
(* Two modules; the second one's port may fail to open, and its second       *)
(* channel is DC.  5 is the least value of a channel that is on.             *)
EXTENDS Report

AC(id) == [Id |-> id, ACOrDC |-> "AC", OutputValueMax |-> 100]
DC(id) == [Id |-> id, ACOrDC |-> "DC", OutputValueMax |-> 100]

MCModules ==
    << [Id |-> 2, zigBeeId |-> 0, Channels |-> <<DC(1)>>],
       [Id |-> 1, zigBeeId |-> 0, Channels |-> <<DC(3), AC(1)>>] >>
MCLevels == {-1, 4, 5}
=============================================================================
