------------------------------ MODULE MCManager ------------------------------
(* Configuration files with comments and blank lines in every place: the    *)
(* sample's shape; no files or tasks, delays out of order and repeated, and *)
(* lines behind the end; several files of one client, and an early end.     *)
EXTENDS Manager

SampleFile ==
  <<Comment, Data(<<2>>), Blank, Comment, Data(<<5>>), Blank,
    Data(<<0, 10, 0>>), Comment, Data(<<1, 300, 0>>), Data(<<-1, 0, 0>>),
    Data(<<1, "a">>), Data(<<-1, "---">>),
    Data(<<1, "a", 10, 1>>), Blank, Data(<<0, "a", 15, 0>>), Data(<<-1, "---", -1, -1>>), Comment>>

DelaysOnly ==
  <<Data(<<3>>), Data(<<1>>), Data(<<2, 20, 0>>), Data(<<0, 10, 0>>), Comment,
    Data(<<1, 10, 0>>), Data(<<2, 30, 0>>), Data(<<-1, 0, 0>>), Data(<<-1, "---">>),
    Data(<<-1, "---", -1, -1>>), Comment, Data(<<0, "b", 5, 1>>), Data(<<1, "b", 5, 1>>)>>

EndsEarly ==
  <<Data(<<1>>), Data(<<2>>), Data(<<0, 10, 0>>), Data(<<-1, 0, 0>>),
    Data(<<0, "a">>), Blank, Data(<<0, "b">>), Data(<<-1, "---">>),
    Data(<<0, "a", 0, 1>>), Data(<<0, "b", 5, 0>>)>>

MCConfigFiles == {SampleFile, DelaysOnly, EndsEarly}
=============================================================================
