------------------------------ MODULE MCDevice ------------------------------
(* Instance of Device for TLC: a tab that sends up to two of three files,   *)
(* one of them empty, two over the limit when they go together and at it or *)
(* below it each, and a tab that is offered one file, or two whose names    *)
(* come out the same.                                                       *)
EXTENDS Device

F(p, n, s) == [path |-> p, name |-> n, size |-> s, readable |-> TRUE]

\* The second lies too deep to be dropped, and its name is not settled.
MCFiles == {F(<<<<"x", "y", "z">>, <<".", ".">>>>, <<".", "a">>, 1),
            F(<<<<"x">>, <<"y">>, <<"z">>>>, <<" ", ".", "a">>, 3),
            F(<<>>, <<".">>, 0)}

\* A full history, which the send page can clear.
MCEarlier == {[i \in 1 .. HistoryLimit |-> [of |-> 0, outcome |-> "complete"]]}

Sent(n, s) == Cleaned([path |-> <<>>, name |-> n, size |-> s])

\* Two honest batches, and one whose total is not what its files add up to.
MCOffers == {ToMessage(<<Sent(<<"a">>, 2)>>),
             ToMessage(<<Sent(<<"a">>, 1), Sent(<<" ", "a", "DEL">>, 2)>>),
             [files |-> <<Sent(<<"a">>, 1)>>, total |-> 2]}

MCBrowsers == [save : BOOLEAN, folder : BOOLEAN]

MCDiskName == [path : {<<>>}, name : {<<"a">>}, copy : 1 .. MaxCopies + MaxFiles]

\* The first name is free, somebody's file, or a folder.
MCPresent ==
  {[n \in DiskName |-> IF n.copy = 1 THEN [is |-> c, file |-> 0] ELSE Absent] :
     c \in {"absent", "theirs", "folder"}}
=============================================================================
