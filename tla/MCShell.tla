------------------------------ MODULE MCShell -------------------------------
(***************************************************************************)
(* A small RAM disk and the lines a user may type, for TLC.                *)
(***************************************************************************)
EXTENDS Shell

Dev       == <<"d">>
DeviceTab == << <<"t">>, <<"r">> >>
Greet_txt == <<"g">>

(* "dt" begins like /dev and is shorter than the line that names it, "t"   *)
(* is empty and has the name of a device.                                  *)
SmallDisk ==
  << [name |-> <<"g">>,      offset |-> 0, size |-> 6],
     [name |-> <<"d", "t">>, offset |-> 6, size |-> 2],
     [name |-> <<"t">>,      offset |-> 8, size |-> 0] >>

(* Bound: all paths of up to three characters, and of the longer ones      *)
(* those with delimiters in front, doubled and at the end.                 *)
MaxPath == 3

AllPaths ==
  UNION {[1 .. n -> {"/", "d", "t"}] : n \in 0 .. MaxPath}
    \cup { <<"/", "d", "/", "t">>, <<"d", "/", "/", "t">>, <<"d", "/", "t", "/">>,
           <<"/", "/", "d", "/", "/", "t">>, <<"d", "/", "t", "/", "t">> }

Lines ==
  [op : {"ls"}, arg : AllPaths]
    \cup [op : {"cat"}, arg : { <<>>, <<"g">>, <<"d">>, <<"d", "t">>, <<"t">>, <<"/", "g">> }]
    \cup [op : {"devs", "tty", "tok", "exit", "other"}, arg : { <<>> }]

=============================================================================
