------------------------------- MODULE MCLogs -------------------------------
(* Instances of Logs for TLC.                                              *)
EXTENDS Logs

TwoFiles == <<"stdout", "stderr">>
AllJobs  == {"follow", "wait"}
AllViews == {TwoFiles, <<"stdout">>}
JustFollow == {"follow"}
Combined == {TwoFiles}
OneStream == {<<"stdout">>}
SomeHits == {2}
BothWrite == [r \in Runs |-> Streams]
FirstWritesBoth == [r \in Runs |-> IF r = 1 THEN Streams ELSE {"stdout"}]
StdoutOnly == [r \in Runs |-> {"stdout"}]
NoFaults == {}
WriterFault == {"writer"}
AllFaults == {"writer", "kill"}
=============================================================================
