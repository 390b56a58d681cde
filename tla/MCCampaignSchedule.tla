-------------------------- MODULE MCCampaignSchedule --------------------------
(* Small instances of campaign schedules for TLC. *)
EXTENDS CampaignScheduleProps, TLC

CONSTANTS c1, c2, t1, t2, s1, s2, r1

OneTenant == [c \in Campaigns |-> t1]

EveryOne   == {[kind |-> "interval", n |-> 1]}
EveryTwo   == {[kind |-> "interval", n |-> 2]}
DailyAtOne == {[kind |-> "daily", n |-> 1]}

EveryTwoOrDaily == EveryTwo \cup DailyAtOne

Interchangeable == Permutations({s1, s2})

=============================================================================
