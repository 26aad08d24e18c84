-------------------------- MODULE MCServiceProcess --------------------------
(* Small instances of ServiceProcess: the settings that make a difference. *)
EXTENDS ServiceProcess, TLC

Setting(own, shared, timeout) == [own |-> own, shared |-> shared, timeout |-> timeout]

\* int32 is -4..3 here, so 9 becomes 1 and 4 becomes -4.
SmallEnvironments ==
    {Setting(Unset, Unset, Unset), Setting(Unset, 1, Unset), Setting(1, 2, 0),
     Setting(Unset, 1, 0), Setting(Invalid, 1, Invalid), Setting(0, 1, Unset),
     Setting(9, 2, 0), Setting(4, 2, 1)}
=============================================================================
